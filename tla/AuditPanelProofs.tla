--------------------------- MODULE AuditPanelProofs ---------------------------
(***************************************************************************)
(* Proofs about AuditPanel and the StagingTray under it, for any resources *)
(* and batches.  TrayInv says what the three copies of the tray's rows (in *)
(* memory, put aside for a roll-back, on file) are to one another at every *)
(* point of a flush; BatchInv that none of them can bring back a row that  *)
(* was given out before a batch began and was not on the tray then; and    *)
(* Pending that a flush carries one operation and no more, by which the    *)
(* file changes as AtomicTray says.                                        *)
(***************************************************************************)
EXTENDS AuditPanel, TLAPS

Unique(S) == \A r, s \in S : r.res = s.res \/ r.id = s.id => r = s
Given(S) == S \in SUBSET Row /\ Unique(S) /\ \A r \in S : r.id < nextId

TrayInv ==
  /\ nextId \in Nat /\ nextId >= 1
  /\ Given(file) /\ Given(rows) /\ Given(saved)
  /\ flush = "idle" => saved = {} /\ (open => rows = file)
  /\ flush # "idle" => saved = file /\ open /\ mode = "audit"
  /\ flush = "renaming" => tmp = rows
  /\ confirm => open

\* What a flush is writing: the rows it found on file, none, or one more.
Pending ==
  flush # "idle" =>
    \/ rows = saved
    \/ rows = {}
    \/ \E res \in Resources :
         /\ \A r \in saved : r.res # res /\ r.id < nextId - 1
         /\ rows = saved \cup {[id |-> nextId - 1, res |-> res]}

\* Rows that are on the tray or may come back to it.
Alive == rows \cup saved \cup file

BatchInv(b) ==
  /\ known[b] \in Int /\ known[b] < nextId
  /\ batch[b] \in {"none", "started"} => listed[b] = {}
  /\ batch[b] = "started" => \A r \in Alive : r.id <= known[b] => r \in shown[b]
  /\ \A r \in listed[b] : r.id <= known[b] => r \in shown[b]

BatchTypes ==
  /\ batch = [b \in Batches |-> batch[b]]
  /\ known = [b \in Batches |-> known[b]]
  /\ shown = [b \in Batches |-> shown[b]]
  /\ listed = [b \in Batches |-> listed[b]]

Listing == snapshot = Missing \/ snapshot \in SUBSET Resources

IInv == TrayInv /\ Listing /\ BatchTypes /\ \A b \in Batches : BatchInv(b)

-----------------------------------------------------------------------------
LEMMA Documents ==
  /\ MaxIds \in Nat
  /\ \A S \in SUBSET Row : S \notin {Torn, Missing}
BY TrayAssumption DEF TrayAssumption, Row

LEMMA InitIInv == Init => IInv
<1> SUFFICES ASSUME Init PROVE IInv
  OBVIOUS
<1>1. TrayInv
  BY DEF Init, TrayInit, TrayInv, Given, Unique
<1>2. BatchTypes /\ Listing
  BY DEF Init, BatchTypes, Listing
<1>3. \A b \in Batches : BatchInv(b)
  BY DEF Init, TrayInit, BatchInv, Alive
<1> QED
  BY <1>1, <1>2, <1>3 DEF IInv

-----------------------------------------------------------------------------
(* The tray *)

\* A step adds no row to what is alive but under a new ID.
NoOldRow ==
  /\ nextId' \in Nat /\ nextId' >= nextId
  /\ \A r \in Alive' : r \in Alive \/ r.id >= nextId

LEMMA TrayStill ==
  ASSUME TrayInv, UNCHANGED trayVars, confirm' => open,
         flush # "idle" => mode' = "audit"
  PROVE  TrayInv' /\ NoOldRow
<1> USE DEF TrayInv, trayVars
<1>1. Given(file)' /\ Given(rows)' /\ Given(saved)'
  BY DEF Given, Row
<1>2. TrayInv'
  BY <1>1
<1>3. NoOldRow
  BY DEF NoOldRow, Alive
<1> QED
  BY <1>2, <1>3

\* A row under the next ID keeps the tray's rows apart.
LEMMA StageNew ==
  ASSUME NEW held, Given(held), nextId \in Nat, nextId >= 1, nextId <= MaxIds,
         NEW res \in Resources, \A r \in held : r.res # res
  PROVE  LET new == held \cup {[id |-> nextId, res |-> res]}
         IN  /\ new \in SUBSET Row /\ Unique(new)
             /\ \A r \in new : r.id < nextId + 1
<1> DEFINE x == [id |-> nextId, res |-> res]
           new == held \cup {x}
<1>1. x \in Row /\ x.id = nextId /\ x.res = res
  BY Documents DEF Row
<1>2. \A r \in held : r \in Row /\ r.id \in Nat /\ r.id < nextId /\ r.res # res
  BY Documents DEF Given, Row
<1> HIDE DEF x
<1>3. new \in SUBSET Row
  BY <1>1, <1>2
<1>4. \A r \in new : r.id < nextId + 1
  BY <1>1, <1>2
<1>5. Unique(new)
  <2> SUFFICES ASSUME NEW r \in new, NEW q \in new, r.res = q.res \/ r.id = q.id
               PROVE  r = q
    BY DEF Unique
  <2>1. CASE r \in held /\ q \in held
    BY <2>1 DEF Given, Unique
  <2>2. CASE r = x \/ q = x
    BY <1>1, <1>2, <2>2
  <2> QED
    BY <2>1, <2>2
<1> QED
  BY <1>3, <1>4, <1>5 DEF x

LEMMA GivenLater ==
  ASSUME NEW S, Given(S), nextId \in Nat, nextId' \in Nat, nextId' >= nextId
  PROVE  S \in SUBSET Row' /\ Unique(S) /\ \A r \in S : r.id < nextId'
<1>1. \A r \in S : r.id \in Nat
  BY Documents DEF Given, Row
<1> QED
  BY <1>1 DEF Given, Row

\* The rows a flush starts with are those on file, with at most a new one.
LEMMA StoreStep ==
  ASSUME TrayInv, flush = "idle", NEW held, held = file, NEW new, Store(held, new),
         Given(new)', nextId' \in Nat, nextId' >= nextId,
         \A r \in new : r \in file \/ r.id >= nextId,
         open', mode' = "audit"
  PROVE  TrayInv' /\ NoOldRow
<1>1. /\ rows' = new /\ saved' = file /\ flush' = "writing" /\ file' = file
      /\ nextId \in Nat /\ nextId >= 1 /\ Given(file)
  BY DEF Store, TrayInv
<1>2. Given(file)' /\ Given(saved)' /\ Given(rows)'
  BY <1>1, GivenLater DEF Given
<1>3. TrayInv'
  BY <1>1, <1>2 DEF TrayInv
<1>4. NoOldRow
  BY <1>1 DEF NoOldRow, Alive
<1> QED
  BY <1>3, <1>4

LEMMA AddStep ==
  ASSUME TrayInv, flush = "idle", NEW res \in Resources, NEW held, held = file,
         Add(held, res), open', mode' = "audit"
  PROVE  TrayInv' /\ NoOldRow
<1>1. nextId \in Nat /\ nextId >= 1 /\ Given(held)
  BY DEF TrayInv
<1>2. CASE Store(held, held) /\ nextId' = nextId
  <2>1. Given(held)'
    BY <1>1, <1>2, GivenLater DEF Given
  <2> QED
    BY <1>1, <1>2, <2>1, StoreStep
<1>3. CASE /\ \A r \in held : r.res # res
           /\ nextId <= MaxIds
           /\ Store(held, held \cup {[id |-> nextId, res |-> res]})
           /\ nextId' = nextId + 1
  <2>0. PICK new : new = held \cup {[id |-> nextId, res |-> res]}
    OBVIOUS
  <2>1. new \in SUBSET Row /\ Unique(new) /\ \A r \in new : r.id < nextId + 1
    BY <1>1, <1>3, <2>0, StageNew
  <2>2. \A r \in new : r \in file \/ r.id >= nextId
    BY <1>1, <2>0
  <2>3. Store(held, new) /\ nextId' = nextId + 1
    BY <1>3, <2>0
  <2>4. new \in SUBSET Row' /\ \A r \in new : r.id < nextId'
    BY <2>1, <2>3 DEF Row
  <2>5. Given(new)'
    BY <2>1, <2>4 DEF Given, Unique
  <2> QED
    BY <1>1, <2>2, <2>3, <2>5, StoreStep
<1> QED
  BY <1>2, <1>3 DEF Add

LEMMA OpenTrayStep ==
  ASSUME TrayInv, flush = "idle", OpenTray, confirm' => open
  PROVE  TrayInv' /\ NoOldRow
<1>1. CASE UNCHANGED trayVars
  BY <1>1, TrayStill
<1>2. CASE /\ open' = TRUE /\ rows' = file
           /\ UNCHANGED <<file, tmp, saved, flush, nextId>>
  <2>1. Given(file)' /\ Given(rows)' /\ Given(saved)'
    BY <1>2 DEF TrayInv, Given, Row
  <2>2. TrayInv'
    BY <1>2, <2>1 DEF TrayInv
  <2>3. NoOldRow
    BY <1>2 DEF TrayInv, NoOldRow, Alive
  <2> QED
    BY <2>2, <2>3
<1> QED
  BY <1>1, <1>2 DEF OpenTray

\* The tray is let go of: a new panel, or the end of the program.
LEMMA LetGo ==
  ASSUME TrayInv, open' = FALSE, rows' = {}, saved' = {}, flush' = "idle",
         UNCHANGED <<file, nextId>>, confirm' = FALSE
  PROVE  TrayInv' /\ NoOldRow
<1>1. Given(file)' /\ Given(rows)' /\ Given(saved)'
  BY DEF TrayInv, Given, Row, Unique
<1>2. TrayInv'
  BY <1>1 DEF TrayInv
<1>3. NoOldRow
  BY DEF TrayInv, NoOldRow, Alive
<1> QED
  BY <1>2, <1>3

LEMMA FlushStep ==
  ASSUME TrayInv, Flush
  PROVE  TrayInv' /\ NoOldRow
<1> USE DEF TrayInv
<1>1. /\ flush # "idle" /\ nextId' = nextId /\ open' = open /\ mode' = mode
      /\ confirm' = confirm
  BY DEF Flush, Written, Renamed, FlushFails, screenVars, panelVars
<1>2. {file', rows', saved'} \subseteq {file, rows, saved, {}}
  BY DEF Flush, Written, Renamed, FlushFails
<1>3. \A S \in {file, rows, saved, {}} : S \in SUBSET Row' /\ Unique(S)
                                         /\ \A r \in S : r.id < nextId'
  BY <1>1 DEF Given, Unique, Row
<1>4. Given(file)' /\ Given(rows)' /\ Given(saved)'
  BY <1>2, <1>3 DEF Given, Unique
<1>5. TrayInv'
  BY <1>1, <1>4 DEF Flush, Written, Renamed, FlushFails
<1>6. NoOldRow
  BY <1>1, <1>2 DEF NoOldRow, Alive
<1> QED
  BY <1>5, <1>6

\* Every step of the panel, of a batch and of the program.
LEMMA TrayNext == ASSUME TrayInv, Listing, [Next]_vars PROVE TrayInv' /\ NoOldRow
<1> USE DEF Browsing, InPanel, Updating, FreshPanel, Die, TrayDies, outside,
        screenVars, scanVars, panelVars, batchVars
<1>1. CASE UNCHANGED vars
  BY <1>1, TrayStill DEF vars, TrayInv
<1>2. CASE OpenPanel
  <2>1. flush = "idle" /\ saved = {}
    BY <1>2 DEF OpenPanel, TrayInv
  <2> QED
    BY <1>2, <2>1, LetGo DEF OpenPanel
<1>3. CASE KeyEsc \/ KeyRefresh \/ KeyMove \/ KeyDelete \/ KeyType \/ KeyCancel \/ KeyEnter
  <2>1. UNCHANGED trayVars /\ mode' = mode
    BY <1>3 DEF KeyEsc, KeyRefresh, KeyMove, KeyDelete, KeyType, KeyCancel, KeyEnter
  <2>2. confirm' => open
    BY <1>3 DEF KeyEsc, KeyRefresh, KeyMove, KeyDelete, KeyType, KeyCancel, KeyEnter,
       TrayInv
  <2> QED
    BY <2>1, <2>2, TrayStill DEF TrayInv
<1>4. CASE DeliverLeave \/ Restart
  <2>1. UNCHANGED trayVars /\ confirm' = confirm /\ flush = "idle"
    BY <1>4 DEF DeliverLeave, Restart, TrayInv
  <2> QED
    BY <2>1, TrayStill DEF TrayInv
<1>5. CASE DeliverScan
  <2>1. confirm' = confirm /\ flush = "idle" /\ (OpenTray \/ UNCHANGED trayVars)
    BY <1>5 DEF DeliverScan
  <2> QED
    BY <2>1, TrayStill, OpenTrayStep DEF TrayInv
<1>6. CASE KeyStage
  <2>1. flush = "idle" /\ mode = "audit"
    BY <1>6 DEF KeyStage
  <2>2. CASE cursor < Cardinality(snapshot)
    <3>1. PICK held : held = IF open THEN rows ELSE file
      OBVIOUS
    <3>2. /\ open' = TRUE /\ mode' = mode /\ confirm' = confirm /\ ~confirm
          /\ \/ \E res \in snapshot : Add(held, res)
             \/ rows' = held /\ UNCHANGED <<file, tmp, saved, flush, nextId>>
      BY <1>6, <2>2, <3>1 DEF KeyStage
    <3>3. held = file
      BY <2>1, <3>1 DEF TrayInv
    <3>4. CASE \E res \in snapshot : Add(held, res)
      <4>1. PICK res \in snapshot : Add(held, res)
        BY <3>4
      <4>2. res \in Resources
        BY <1>6 DEF KeyStage, Listing
      <4> QED
        BY <2>1, <3>2, <3>3, <4>1, <4>2, AddStep
    <3>5. CASE rows' = held /\ UNCHANGED <<file, tmp, saved, flush, nextId>>
      <4>1. OpenTray
        BY <3>2, <3>3, <3>5, Documents DEF OpenTray, TrayInv, Given
      <4> QED
        BY <2>1, <3>2, <4>1, OpenTrayStep
    <3> QED
      BY <3>2, <3>4, <3>5
  <2>3. CASE ~(cursor < Cardinality(snapshot))
    BY <1>6, <2>3, LetGo DEF KeyStage
  <2> QED
    BY <2>2, <2>3
<1>7. CASE KeyClear
  <2>1. flush = "idle" /\ open /\ rows = file /\ Store(rows, {}) /\ nextId' = nextId
        /\ open' = open /\ mode' = "audit" /\ nextId \in Nat
    BY <1>7 DEF KeyClear, Clear, TrayInv
  <2>2. Given({})'
    BY DEF Given, Unique
  <2>3. PICK held : held = rows
    OBVIOUS
  <2>4. held = file /\ Store(held, {})
    BY <2>1, <2>3
  <2> QED
    BY <2>1, <2>2, <2>4, StoreStep
<1>8. CASE Flush
  BY <1>8, FlushStep
<1>9. CASE Quit
  BY <1>9, LetGo DEF Quit
<1>10. ASSUME NEW b \in Batches, BatchStep(b) \/ BatchTimeout(b) \/ DeliverBatch(b)
       PROVE  TrayInv' /\ NoOldRow
  <2>1. ASSUME UNCHANGED outside PROVE TrayInv' /\ NoOldRow
    BY <2>1, TrayStill DEF TrayInv
  <2>2. CASE BatchOpen(b) \/ BatchConnect(b) \/ BatchCount(b) \/ BatchTimeout(b)
    <3>1. UNCHANGED outside
      BY <2>2 DEF BatchOpen, BatchConnect, BatchCount, BatchTimeout
    <3> QED
      BY <2>1, <3>1
  <2>3. CASE BatchDelete(b)
    <3>1. UNCHANGED outside \/ (Die /\ TrayDies)
      BY <2>3 DEF BatchDelete
    <3> QED
      BY <2>1, <3>1, LetGo
  <2>4. CASE DeliverBatch(b)
    <3>1. /\ flush = "idle" /\ mode' = mode
          /\ \/ confirm' = FALSE /\ OpenTray
             \/ confirm' = confirm /\ UNCHANGED trayVars
      BY <2>4 DEF DeliverBatch
    <3> QED
      BY <3>1, TrayStill, OpenTrayStep DEF TrayInv
  <2> QED
    BY <1>10, <2>2, <2>3, <2>4 DEF BatchStep
<1> QED
  BY <1>1, <1>2, <1>3, <1>4, <1>5, <1>6, <1>7, <1>8, <1>9, <1>10 DEF Next, Key

LEMMA ListingNext == ASSUME Listing, [Next]_vars PROVE Listing'
<1> USE DEF Listing
<1>1. snapshot' = snapshot \/ snapshot' = Missing \/ snapshot' \in SUBSET Resources
  BY DEF Next, Key, OpenPanel, KeyEsc, KeyRefresh, KeyMove, KeyStage, KeyClear, KeyDelete,
     KeyType, KeyCancel, KeyEnter, DeliverLeave, DeliverScan, Flush, Quit, Restart,
     BatchStep, BatchOpen, BatchConnect, BatchDelete, BatchCount, BatchTimeout,
     DeliverBatch, FreshPanel, Die, outside, panelVars, vars
<1> QED
  BY <1>1

-----------------------------------------------------------------------------
(* The batches *)

\* What the user saw stays; the rows a batch has read and those it may still read
\* are no older than they were.
LEMMA BatchStill ==
  ASSUME IInv, TrayInv', NoOldRow, NEW b \in Batches,
         known'[b] = known[b], shown'[b] = shown[b], listed'[b] = listed[b],
         batch'[b] = batch[b] \/ batch'[b] \notin {"none", "started"}
  PROVE  BatchInv(b)'
<1>1. BatchInv(b) /\ nextId \in Nat
  BY DEF IInv, TrayInv
<1>2. known'[b] \in Int /\ known'[b] < nextId'
  BY <1>1 DEF BatchInv, NoOldRow
<1>3. ASSUME batch'[b] = "started", NEW r \in Alive', r.id <= known[b]
      PROVE  r \in shown[b]
  <2>1. r.id \in Nat
    BY Documents DEF Alive, TrayInv, Given, Row
  <2>2. r \in Alive
    BY <1>1, <1>3, <2>1 DEF NoOldRow, BatchInv
  <2> QED
    BY <1>1, <1>3, <2>2 DEF BatchInv
<1> QED
  BY <1>1, <1>2, <1>3 DEF BatchInv

LEMMA BatchNext ==
  ASSUME IInv, TrayInv', NoOldRow, [Next]_vars, NEW b \in Batches
  PROVE  BatchInv(b)' /\ BatchTypes'
<1> USE DEF screenVars, scanVars, panelVars, batchVars
<1>0. BatchTypes
  BY DEF IInv
<1>1. ASSUME UNCHANGED <<batch, known, shown, listed>> PROVE BatchInv(b)' /\ BatchTypes'
  BY <1>0, <1>1, BatchStill DEF BatchTypes
<1>2. ASSUME Die, UNCHANGED listed PROVE BatchInv(b)' /\ BatchTypes'
  <2>1. batch'[b] = batch[b] \/ batch'[b] = "dead"
    BY <1>2 DEF Die
  <2>2. BatchTypes'
    BY <1>0, <1>2 DEF Die, BatchTypes
  <2> QED
    BY <1>2, <2>1, <2>2, BatchStill DEF Die
<1>3. CASE UNCHANGED vars
  BY <1>1, <1>3 DEF vars
<1>4. CASE OpenPanel \/ KeyEsc \/ KeyRefresh \/ KeyMove \/ KeyClear \/ KeyDelete
           \/ KeyType \/ KeyCancel \/ DeliverLeave \/ DeliverScan \/ Flush \/ Restart
  BY <1>1, <1>4 DEF OpenPanel, KeyEsc, KeyRefresh, KeyMove, KeyClear, KeyDelete,
     KeyType, KeyCancel, DeliverLeave, DeliverScan, Flush, Restart
<1>5. CASE KeyStage
  BY <1>1, <1>2, <1>5 DEF KeyStage
<1>6. CASE Quit
  BY <1>2, <1>6 DEF Quit
<1>7. CASE KeyEnter
  <2>1. PICK c \in Batches :
          /\ batch[c] = "none"
          /\ batch' = [batch EXCEPT ![c] = "started"]
          /\ shown' = [shown EXCEPT ![c] = rows]
          /\ known' = [known EXCEPT ![c] = nextId - 1]
    BY <1>7 DEF KeyEnter
  <2>2. BatchTypes' /\ listed' = listed
    BY <1>0, <1>7, <2>1 DEF BatchTypes, KeyEnter
  <2>3. CASE b # c
    <3>1. known'[b] = known[b] /\ shown'[b] = shown[b] /\ batch'[b] = batch[b]
      BY <1>0, <2>1, <2>3 DEF BatchTypes
    <3> QED
      BY <2>2, <3>1, BatchStill
  <2>4. CASE b = c
    <3>1. known'[b] = nextId - 1 /\ shown'[b] = rows /\ batch'[b] = "started"
      BY <1>0, <2>1, <2>4 DEF BatchTypes
    <3>2. listed'[b] = {}
      BY <2>1, <2>2, <2>4 DEF IInv, BatchInv
    <3>3. rows = file /\ saved = {} /\ Alive' = Alive
      BY <1>7 DEF KeyEnter, InPanel, IInv, TrayInv, Alive, trayVars
    <3>4. nextId \in Nat /\ nextId' = nextId
      BY <1>7 DEF KeyEnter, IInv, TrayInv, trayVars
    <3>5. BatchInv(b)'
      BY <3>1, <3>2, <3>3, <3>4 DEF BatchInv, Alive
    <3> QED
      BY <2>2, <3>5
  <2> QED
    BY <2>3, <2>4
<1>8. ASSUME NEW c \in Batches, BatchStep(c) \/ BatchTimeout(c) \/ DeliverBatch(c)
      PROVE  BatchInv(b)' /\ BatchTypes'
  <2> USE DEF outside
  <2>1. ASSUME NEW where \in {"listed", "running", "refused", "done", "reported", "dropped"},
               batch' = [batch EXCEPT ![c] = where], UNCHANGED <<known, shown, listed>>
        PROVE  BatchInv(b)' /\ BatchTypes'
    <3>1. batch'[b] = batch[b] \/ batch'[b] \notin {"none", "started"}
      BY <1>0, <2>1 DEF BatchTypes
    <3>2. BatchTypes'
      BY <1>0, <2>1 DEF BatchTypes
    <3> QED
      BY <2>1, <3>1, <3>2, BatchStill
  <2>2. CASE BatchOpen(c)
    <3>1. batch[c] = "started" /\ UNCHANGED <<known, shown>>
      BY <2>2 DEF BatchOpen
    <3>2. CASE batch' = [batch EXCEPT ![c] = "done"] /\ UNCHANGED listed
      BY <2>1, <3>1, <3>2
    <3>3. CASE /\ listed' = [listed EXCEPT ![c] = file]
               /\ batch' = [batch EXCEPT ![c] = "listed"]
      <4>1. BatchTypes'
        BY <1>0, <3>1, <3>3 DEF BatchTypes
      <4>2. CASE b # c
        <5>1. listed'[b] = listed[b] /\ batch'[b] = batch[b]
          BY <1>0, <3>3, <4>2 DEF BatchTypes
        <5> QED
          BY <3>1, <4>1, <5>1, BatchStill
      <4>3. CASE b = c
        <5>1. listed'[b] = file /\ batch'[b] = "listed"
          BY <1>0, <3>3, <4>3 DEF BatchTypes
        <5>2. BatchInv(b) /\ nextId' = nextId
          BY <2>2 DEF IInv, BatchOpen, trayVars
        <5>3. BatchInv(b)'
          BY <3>1, <4>3, <5>1, <5>2 DEF BatchInv, Alive
        <5> QED
          BY <4>1, <5>3
      <4> QED
        BY <4>2, <4>3
    <3> QED
      BY <2>2, <3>2, <3>3 DEF BatchOpen
  <2>3. CASE BatchConnect(c)
    BY <2>1, <2>3 DEF BatchConnect
  <2>4. CASE BatchDelete(c)
    BY <1>1, <1>2, <2>4 DEF BatchDelete
  <2>5. CASE BatchCount(c)
    BY <2>1, <2>5 DEF BatchCount
  <2>6. CASE BatchTimeout(c)
    BY <1>1, <2>6 DEF BatchTimeout
  <2>7. CASE DeliverBatch(c)
    BY <2>1, <2>7 DEF DeliverBatch
  <2> QED
    BY <1>8, <2>2, <2>3, <2>4, <2>5, <2>6, <2>7 DEF BatchStep
<1> QED
  BY <1>3, <1>4, <1>5, <1>6, <1>7, <1>8 DEF Next, Key

THEOREM Invariance == Spec => []IInv
<1>1. IInv /\ [Next]_vars => IInv'
  <2> SUFFICES ASSUME IInv, [Next]_vars PROVE IInv'
    OBVIOUS
  <2>1. TrayInv' /\ NoOldRow /\ Listing'
    BY TrayNext, ListingNext DEF IInv
  <2>2. \A b \in Batches : BatchInv(b)' /\ BatchTypes'
    BY <2>1, BatchNext
  <2>3. BatchTypes'
    <3>1. CASE Batches = {}
      <4>1. UNCHANGED listed /\ (UNCHANGED <<batch, known, shown>> \/ Die)
        BY <3>1 DEF Next, Key, OpenPanel, KeyEsc, KeyRefresh, KeyMove, KeyStage, KeyClear,
           KeyDelete, KeyType, KeyCancel, KeyEnter, DeliverLeave, DeliverScan, Flush, Quit,
           Restart, batchVars, vars
      <4> QED
        BY <4>1 DEF IInv, BatchTypes, Die
    <3>2. CASE Batches # {}
      BY <2>2, <3>2
    <3> QED
      BY <3>1, <3>2
  <2> QED
    BY <2>1, <2>2, <2>3 DEF IInv
<1> QED
  BY InitIInv, <1>1, PTL DEF Spec

-----------------------------------------------------------------------------
(* Results *)

\* Whatever file operation fails and whenever the program dies, tray.json is whole
\* and lists a resource once, and between two keys the rows on screen are those on
\* file (tray.go:1-40, the roll-backs of Add and Clear).
THEOREM TrayStaysSound == Spec => []TraySound
<1>1. IInv => TraySound
  BY Documents DEF IInv, TrayInv, Given, Unique, TraySound, FileIntact, TrayMatchesFile,
     OneRowPerResource
<1> QED
  BY <1>1, Invariance, PTL

\* A batch reads the tray after Enter, from the file, and yet never gets a row that
\* the user had cleared by then: no roll-back, no reopened tray and no new panel
\* brings one back (audit.go, executeBatchCmd).
THEOREM NothingClearedIsDeleted == Spec => []ClearedStaysCleared
<1>1. IInv => ClearedStaysCleared
  BY DEF IInv, BatchInv, ClearedStaysCleared
<1> QED
  BY <1>1, Invariance, PTL

-----------------------------------------------------------------------------
(* The tray's file *)

\* A flush begins with one operation.
LEMMA AddPends ==
  ASSUME TrayInv, flush = "idle", NEW held, held = file, NEW res \in Resources,
         Add(held, res)
  PROVE  Pending' /\ UNCHANGED file /\ nextId' \in {nextId, nextId + 1}
<1>1. nextId \in Nat /\ Given(held)
  BY DEF TrayInv
<1>2. CASE Store(held, held) /\ nextId' = nextId
  BY <1>2 DEF Store, Pending
<1>3. CASE /\ \A r \in held : r.res # res
           /\ nextId <= MaxIds
           /\ Store(held, held \cup {[id |-> nextId, res |-> res]})
           /\ nextId' = nextId + 1
  <2>1. nextId' - 1 = nextId
    BY <1>1, <1>3
  <2>2. /\ \A r \in saved' : r.res # res /\ r.id < nextId' - 1
        /\ rows' = saved' \cup {[id |-> nextId' - 1, res |-> res]}
    BY <1>1, <1>3, <2>1 DEF Store, Given
  <2> QED
    BY <1>3, <2>2 DEF Pending, Store
<1> QED
  BY <1>2, <1>3 DEF Add

\* And the rename puts it on file.
LEMMA RenamedIsOne ==
  ASSUME TrayInv, Pending, Renamed
  PROVE  Pending' /\ (Atomic!Operation \/ UNCHANGED <<file, nextId>>)
<1>1. /\ saved = file /\ file' = rows /\ nextId' = nextId /\ flush # "idle"
      /\ flush' = "idle"
  BY DEF Renamed, TrayInv
<1>2. Pending'
  BY <1>1 DEF Pending
<1>3. CASE rows = saved
  BY <1>1, <1>2, <1>3
<1>4. CASE rows = {}
  BY <1>1, <1>2, <1>4 DEF Atomic!Operation, Atomic!Clear
<1>5. ASSUME NEW res \in Resources, \A r \in saved : r.res # res /\ r.id < nextId - 1,
             rows = saved \cup {[id |-> nextId - 1, res |-> res]}
      PROVE  Atomic!Operation
  BY <1>1, <1>5 DEF Atomic!Operation, Atomic!Stage
<1> QED
  BY <1>1, <1>2, <1>3, <1>4, <1>5 DEF Pending

\* Every other step leaves the file alone.
LEMMA AtomicNext ==
  ASSUME TrayInv, Listing, Pending, [Next]_vars
  PROVE  Pending' /\ (Atomic!Operation \/ UNCHANGED <<file, nextId>>)
<1> USE DEF Browsing, InPanel, Updating, Die, TrayDies, outside,
        screenVars, scanVars, panelVars, batchVars
<1>0. nextId \in Nat
  BY DEF TrayInv
<1>1. ASSUME UNCHANGED <<file, nextId>>,
             flush' = "idle" \/ UNCHANGED <<rows, saved, flush>>
      PROVE  Pending' /\ UNCHANGED <<file, nextId>>
  BY <1>1 DEF Pending
<1>2. CASE UNCHANGED trayVars
  BY <1>1, <1>2 DEF trayVars
<1>3. ASSUME OpenTray, flush = "idle" PROVE Pending' /\ UNCHANGED <<file, nextId>>
  BY <1>1, <1>3 DEF OpenTray, trayVars
<1>4. ASSUME TrayDies PROVE Pending' /\ UNCHANGED <<file, nextId>>
  BY <1>1, <1>4
<1>5. CASE OpenPanel
  BY <1>1, <1>5 DEF OpenPanel, TrayInv
<1>6. CASE KeyEsc \/ KeyRefresh \/ KeyMove \/ KeyDelete \/ KeyType \/ KeyCancel \/ KeyEnter
           \/ DeliverLeave \/ Restart \/ UNCHANGED vars
  BY <1>2, <1>6 DEF KeyEsc, KeyRefresh, KeyMove, KeyDelete, KeyType, KeyCancel, KeyEnter,
     DeliverLeave, Restart, vars
<1>7. CASE DeliverScan
  BY <1>2, <1>3, <1>7 DEF DeliverScan
<1>8. CASE KeyStage
  <2>1. CASE cursor < Cardinality(snapshot)
    <3>1. PICK held : held = IF open THEN rows ELSE file
      OBVIOUS
    <3>2. held = file /\ flush = "idle"
      BY <1>8, <3>1 DEF KeyStage, TrayInv
    <3>3. \/ \E res \in snapshot : Add(held, res)
          \/ rows' = held /\ UNCHANGED <<file, tmp, saved, flush, nextId>>
      BY <1>8, <2>1, <3>1 DEF KeyStage
    <3>4. ASSUME NEW res \in snapshot, Add(held, res)
          PROVE  Pending' /\ UNCHANGED file /\ nextId' \in {nextId, nextId + 1}
      <4>1. res \in Resources
        BY <1>8 DEF KeyStage, Listing
      <4> QED
        BY <3>2, <3>4, <4>1, AddPends
    <3>5. ASSUME rows' = held, UNCHANGED <<file, tmp, saved, flush, nextId>>
          PROVE  Pending' /\ UNCHANGED <<file, nextId>>
      BY <1>1, <3>2, <3>5
    <3>6. ASSUME nextId' = nextId + 1, UNCHANGED file PROVE Atomic!Operation
      <4>1. nextId' - 1 = (nextId - 1) + 1
        BY <1>0, <3>6
      <4> QED
        BY <3>6, <4>1 DEF Atomic!Operation, Atomic!Draw
    <3> QED
      BY <3>3, <3>4, <3>5, <3>6
  <2>2. CASE ~(cursor < Cardinality(snapshot))
    BY <1>4, <1>8, <2>2 DEF KeyStage
  <2> QED
    BY <2>1, <2>2
<1>9. CASE KeyClear
  BY <1>9 DEF KeyClear, Clear, Store, Pending
<1>10. CASE Flush
  <2>1. CASE Renamed
    BY <2>1, RenamedIsOne
  <2>2. CASE Written
    BY <2>2 DEF Written, Pending
  <2>3. CASE FlushFails
    BY <1>1, <2>3 DEF FlushFails
  <2> QED
    BY <1>10, <2>1, <2>2, <2>3 DEF Flush
<1>11. CASE Quit
  BY <1>4, <1>11 DEF Quit
<1>12. ASSUME NEW b \in Batches, BatchStep(b) \/ BatchTimeout(b) \/ DeliverBatch(b)
       PROVE  Pending' /\ UNCHANGED <<file, nextId>>
  <2>1. CASE BatchOpen(b) \/ BatchConnect(b) \/ BatchCount(b) \/ BatchTimeout(b)
    <3>1. UNCHANGED trayVars
      BY <2>1 DEF BatchOpen, BatchConnect, BatchCount, BatchTimeout
    <3> QED
      BY <1>1, <3>1 DEF trayVars
  <2>2. CASE BatchDelete(b)
    <3>1. UNCHANGED trayVars \/ TrayDies
      BY <2>2 DEF BatchDelete
    <3> QED
      BY <1>1, <1>4, <3>1 DEF trayVars
  <2>3. CASE DeliverBatch(b)
    <3>1. flush = "idle" /\ (OpenTray \/ UNCHANGED trayVars)
      BY <2>3 DEF DeliverBatch
    <3> QED
      BY <1>1, <1>3, <3>1 DEF trayVars
  <2> QED
    BY <1>12, <2>1, <2>2, <2>3 DEF BatchStep
<1> QED
  BY <1>5, <1>6, <1>7, <1>8, <1>9, <1>10, <1>11, <1>12 DEF Next, Key

\* Whatever fails, and whenever the program dies, tray.json goes through the user's
\* operations one by one and whole, and he sees what is on it: none is torn, two are
\* never merged, and none is undone by a handle that had not read the file (tray.go:
\* flush, the roll-backs of Add and Clear, OpenTray).
THEOREM TrayChangesByWholeOperations == Spec => ImplementsAtomicTray
<1>1. Init => Atomic!Init /\ Pending
  BY DEF Init, TrayInit, Atomic!Init, Pending, Seen
<1>2. TrayInv => Seen = file
  BY DEF TrayInv, Seen
<1>3. IInv /\ Pending /\ [Next]_vars => Pending' /\ [Atomic!Next]_(Atomic!vars)
  <2> SUFFICES ASSUME IInv, Pending, [Next]_vars
               PROVE  Pending' /\ [Atomic!Next]_(Atomic!vars)
    OBVIOUS
  <2>1. Pending' /\ (Atomic!Operation \/ UNCHANGED <<file, nextId>>)
    BY AtomicNext DEF IInv
  <2>2. TrayInv'
    BY TrayNext DEF IInv
  <2>3. Seen = file /\ Seen' = file'
    BY <1>2, <2>2 DEF IInv, TrayInv, Seen
  <2> QED
    BY <2>1, <2>3 DEF Atomic!Next, Atomic!vars
<1>4. Init /\ []IInv /\ [][Next]_vars => Atomic!Init /\ [][Atomic!Next]_(Atomic!vars)
  BY <1>1, <1>3, PTL
<1> QED
  BY <1>4, Invariance, PTL DEF Spec, ImplementsAtomicTray, Atomic!Spec
===============================================================================
