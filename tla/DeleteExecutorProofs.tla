------------------------- MODULE DeleteExecutorProofs -------------------------
(***************************************************************************)
(* For any rows, any DependsOn relation and any choice of boxes: the calls *)
(* respect the dependencies, a batch is refused as cyclic only when it is, *)
(* only consented rows are touched, a cancelled batch makes no further     *)
(* call but the one under way, and the counts, the log and the events of a *)
(* batch tell one story (Ledger).                                          *)
(***************************************************************************)
EXTENDS DeleteExecutor, FiniteSetTheorems, SequenceTheorems,
        WellFoundedInduction, TLAPS

Idx == 1..Len(out)
Emitted == {out[i] : i \in Idx}
Waiting == selected \ Emitted

\* What Order keeps true: distinct selected rows, each after all of its
\* in-batch dependencies, but in a batch of one; indeg counts those still to
\* come, and ready holds exactly the waiting rows that have none.
OrderInv ==
  /\ \A i, j \in Idx : out[i] = out[j] => i = j
  /\ \A i \in Idx : out[i] \in selected
  /\ Single => Waiting = {}
  /\ ~Single => \A i \in Idx : \A d \in InBatch(out[i]) :
                  \E j \in Idx : j < i /\ out[j] = d
  /\ \A r \in Waiting : indeg[r] = Cardinality(InBatch(r) \ Emitted)
  /\ ready = {r \in Waiting : indeg[r] = 0}

\* What Execute's loop keeps true: rows before at are settled, rows after it
\* untouched, and so is the one at it until its call starts.
LoopInv ==
  /\ phase \in {"idle", "ordering"} =>
       at = 1 /\ \A r \in Rows : events[r] = <<>> /\ log[r] = <<>>
  /\ inCall => phase = "deleting" /\ at <= Len(out) /\ events[out[at]] # <<>>
  /\ \A i \in Idx : i < at => Settled(out[i])
  /\ \A i \in Idx : i > at \/ (i = at /\ ~inCall) => events[out[i]] = <<>>
  /\ \A r \in selected : events[r] # <<>> => r \in Emitted
  /\ phase \in {"skipping", "deleting"} => selected \subseteq Emitted

\* What the preflight established stays so.
ConsentInv ==
  /\ selected \subseteq tray \ blocked
  /\ err # "none" => phase = "returned"
  /\ \A r \in Rows : Started(r) => r \in selected
  /\ err # "none" => \A r \in Rows : events[r] = <<>> /\ log[r] = <<>>

IInv == TypeOK /\ OrderInv /\ LoopInv /\ ConsentInv /\ OnlyCyclesAreRefused

-----------------------------------------------------------------------------
LEMMA SubsetFinite ==
  ASSUME NEW S \in SUBSET Rows
  PROVE  IsFiniteSet(S) /\ Cardinality(S) \in Nat
BY ConstantsAssumption, FS_Subset, FS_CardinalityType

\* Taking one element away lowers the count by one, and a count of zero is an
\* empty set.
LEMMA OneLess ==
  ASSUME NEW S \in SUBSET Rows, NEW i
  PROVE  /\ i \in S => Cardinality(S \ {i}) = Cardinality(S) - 1
         /\ i \in S => Cardinality(S) > 0
         /\ i \notin S => Cardinality(S \ {i}) = Cardinality(S)
         /\ Cardinality(S) = 0 <=> S = {}
<1>1. IsFiniteSet(S) /\ Cardinality(S) \in Nat
  BY SubsetFinite
<1>2. Cardinality(S) = 0 <=> S = {}
  BY <1>1, FS_EmptySet
<1>3. Cardinality(S \ {i}) = IF i \in S THEN Cardinality(S)-1 ELSE Cardinality(S)
  BY <1>1, FS_RemoveElement
<1> QED
  BY <1>1, <1>2, <1>3

\* Steps that leave the arguments and the order alone.
LEMMA OrderStays ==
  ASSUME OrderInv, UNCHANGED <<args, ordering>>
  PROVE  OrderInv' /\ Idx' = Idx /\ Emitted' = Emitted
<1>1. /\ UNCHANGED <<selected, dependsOn, indeg, ready, out>>
      /\ Idx' = Idx
  BY DEF args, ordering, Idx
<1>2. Emitted' = Emitted /\ Waiting' = Waiting /\ Single' = Single
  BY <1>1 DEF Emitted, Waiting, Idx, Single
<1>3. \A r \in selected : InBatch(r)' = InBatch(r)
  BY <1>1 DEF InBatch
<1>4. \A i \in Idx : InBatch(out[i])' = InBatch(out[i])
  BY <1>1 DEF InBatch
<1>5. \A r \in Waiting : InBatch(r)' \ Emitted' = InBatch(r) \ Emitted
  BY <1>2, <1>3 DEF Waiting
<1> QED
  BY <1>1, <1>2, <1>4, <1>5 DEF OrderInv

LEMMA InitHolds == Init => IInv
<1> SUFFICES ASSUME Init PROVE IInv
  OBVIOUS
<1>1. Idx = {} /\ Emitted = {} /\ Waiting = {}
  BY DEF Init, Idx, Emitted, Waiting
<1>2. TypeOK
  <2>1. /\ \A S : <<>> \in Seq(S)
        /\ Len(out) = 0
    BY DEF Init
  <2>2. [r \in Rows |-> <<>>] \in [Rows -> Seq({"started", "succeeded", "failed"} \cup Reasons)]
    BY <2>1
  <2>3. [r \in Rows |-> <<>>] \in [Rows -> Seq(Outcomes)]
    BY <2>1
  <2>4. finished \in Seq(Nat) /\ out \in Seq(Rows) /\ at \in 1..Len(out) + 1
    BY <2>1 DEF Init
  <2>5. indeg \in [Rows -> Nat] /\ dependsOn \in [Rows -> SUBSET Rows]
    BY DEF Init
  <2>6. {succeeded, failed, skipped, late} \subseteq Nat
    BY DEF Init
  <2> QED
    BY <2>2, <2>3, <2>4, <2>5, <2>6 DEF Init, TypeOK, Errors
<1>3. OrderInv
  BY <1>1 DEF Init, OrderInv
<1>4. LoopInv
  BY <1>1 DEF Init, LoopInv
<1>5. ConsentInv
  BY DEF Init, ConsentInv, Started
<1>6. OnlyCyclesAreRefused
  BY DEF Init, OnlyCyclesAreRefused
<1> QED
  BY <1>2, <1>3, <1>4, <1>5, <1>6 DEF IInv

\* The preflight: a batch that passes starts Order off with its counts.
LEMMA CallKeeps == IInv /\ Call => IInv'
<1> SUFFICES ASSUME IInv, Call PROVE IInv'
  OBVIOUS
<1> USE DEF IInv
<1>0. PICK clients, typed \in BOOLEAN, rows, blk, decided, sel \in SUBSET Rows,
           g \in Dependencies :
        /\ sel \subseteq decided
        /\ err' = IF clients THEN Refusal(typed, rows, decided, sel, blk)
                             ELSE "no_clients"
        /\ IF err' = "none" THEN Accept(rows, g, blk, sel)
           ELSE phase' = "returned" /\ UNCHANGED <<args, ordering>>
  BY DEF Call
<1>1. UNCHANGED <<effects, ctxDone, finished>> /\ phase = "idle"
  BY DEF Call
<1>2. /\ at = 1 /\ ~inCall
      /\ \A r \in Rows : events[r] = <<>> /\ log[r] = <<>>
  BY <1>1 DEF LoopInv
<1>3. err' \in {"none", "no_clients", "not_confirmed", "unknown_row", "blocked_row"}
  BY <1>0 DEF Refusal
<1>4. CASE err' # "none"
  <2>1. /\ phase' = "returned"
        /\ UNCHANGED <<args, ordering, effects, ctxDone, finished>>
    BY <1>0, <1>1, <1>4
  <2>2. TypeOK'
    BY <1>3, <2>1 DEF TypeOK, Errors, args, ordering, effects, counts
  <2>3. OrderInv'
    BY <2>1, OrderStays
  <2>4. LoopInv'
    BY <1>2, <2>1 DEF LoopInv, Idx, Emitted, Settled, args, ordering, effects
  <2>5. ConsentInv'
    BY <1>2, <2>1 DEF ConsentInv, Started, args, effects
  <2>6. OnlyCyclesAreRefused'
    BY <1>3, <2>1 DEF OnlyCyclesAreRefused
  <2> QED
    BY <2>2, <2>3, <2>4, <2>5, <2>6
<1>5. CASE err' = "none"
  <2> DEFINE pending == [r \in Rows |-> Cardinality(g[r] \cap sel)]
  <2>1. /\ phase' = "ordering"
        /\ tray' = rows /\ dependsOn' = g /\ blocked' = blk /\ selected' = sel
        /\ indeg' = pending
        /\ Single' <=> \A r, s \in sel : r = s
        /\ IF \A r, s \in sel : r = s
           THEN /\ ready' = {}
                /\ out' = IF sel = {} THEN <<>> ELSE <<CHOOSE r \in sel : TRUE>>
           ELSE /\ ready' = {r \in sel : pending[r] = 0}
                /\ out' = <<>>
    <3>1. selected' = sel /\ Accept(rows, g, blk, sel)
      BY <1>0, <1>5 DEF Accept
    <3>2. Single' <=> \A r, s \in sel : r = s
      BY <3>1 DEF Single
    <3> QED
      BY <3>1, <3>2 DEF Accept
  <2>2. g \in [Rows -> SUBSET Rows]
    BY DEF Dependencies
  <2>3. sel \subseteq rows \ blk /\ sel \subseteq Rows
    BY <1>0, <1>5 DEF Refusal
  <2>4. pending \in [Rows -> Nat]
    BY <2>2, SubsetFinite
  <2>5. CASE \A r, s \in sel : r = s
    <3>1. /\ out' \in Seq(Rows) /\ ready' = {}
          /\ Len(out') \in {0, 1}
          /\ \A i \in 1..Len(out') : out'[i] \in sel
          /\ \A r \in sel : \E i \in 1..Len(out') : out'[i] = r
      <4>1. CASE sel = {}
        <5>1. out' = <<>> /\ ready' = {}
          BY <2>1, <2>5, <4>1
        <5> QED
          BY <4>1, <5>1
      <4>2. CASE sel # {}
        <5>1. PICK s \in sel : s = CHOOSE r \in sel : TRUE
          BY <4>2
        <5>2. out' = <<s>> /\ sel = {s} /\ ready' = {}
          BY <2>1, <2>5, <4>2, <5>1
        <5>3. <<s>> \in Seq(Rows) /\ Len(<<s>>) = 1 /\ <<s>>[1] = s
          BY <2>3
        <5> QED
          BY <5>2, <5>3
      <4> QED
        BY <4>1, <4>2
    <3>2. TypeOK'
      <4>1. at' = 1 /\ 1 \in 1..Len(out') + 1
        BY <1>1, <1>2, <3>1 DEF effects
      <4>2. /\ UNCHANGED <<events, log, finished, inCall, ctxDone, cancelled>>
            /\ UNCHANGED <<succeeded, failed, skipped, late>>
        BY <1>1 DEF effects, counts
      <4> QED
        BY <1>5, <2>1, <2>2, <2>3, <2>4, <3>1, <4>1, <4>2 DEF TypeOK, Errors
    <3>3. OrderInv'
      <4>1. Emitted' = sel /\ Waiting' = {}
        BY <2>1, <3>1 DEF Emitted, Waiting, Idx
      <4>2. \A i, j \in Idx' : i = j
        BY <3>1 DEF Idx
      <4>3. Single' /\ \A i \in Idx' : out'[i] \in sel
        BY <2>1, <2>5, <3>1 DEF Idx
      <4> QED
        BY <2>1, <3>1, <4>1, <4>2, <4>3 DEF OrderInv, InBatch
    <3>4. LoopInv'
      <4>1. \A i \in Idx' : out'[i] \in Rows
        BY <3>1 DEF Idx
      <4>2. /\ phase' = "ordering" /\ at' = 1 /\ ~inCall'
            /\ \A r \in Rows : events'[r] = <<>> /\ log'[r] = <<>>
        BY <1>1, <1>2, <2>1 DEF effects
      <4>3. \A r \in selected' : r \in Rows
        BY <2>1, <2>3
      <4>4. \A i \in Idx' : events'[out'[i]] = <<>> /\ ~(i < at')
        BY <4>1, <4>2 DEF Idx
      <4>5. (\A i \in Idx : i < at => Settled(out[i]))'
        BY <4>4
      <4>6. (\A i \in Idx : i > at \/ (i = at /\ ~inCall) => events[out[i]] = <<>>)'
        BY <4>4
      <4>7. (\A r \in selected : events[r] # <<>> => r \in Emitted)'
        BY <4>2, <4>3
      <4> QED
        BY <4>2, <4>5, <4>6, <4>7 DEF LoopInv
    <3>5. \A r \in Rows : events'[r] = <<>>
      BY <1>1, <1>2 DEF effects
    <3>6. \A r \in Rows : ~Started(r)'
      BY <3>5 DEF Started
    <3>7. ConsentInv' /\ OnlyCyclesAreRefused'
      BY <1>5, <2>1, <2>3, <3>6 DEF ConsentInv, OnlyCyclesAreRefused
    <3> QED
      BY <3>2, <3>3, <3>4, <3>7
  <2>6. CASE ~ \A r, s \in sel : r = s
    <3>1. out' = <<>> /\ ready' = {r \in sel : pending[r] = 0}
      BY <2>1, <2>6
    <3>2. Idx' = {} /\ Emitted' = {} /\ Waiting' = sel
      BY <2>1, <3>1 DEF Idx, Emitted, Waiting
    <3>3. TypeOK'
      <4>1. at' = 1 /\ out' \in Seq(Rows) /\ 1 \in 1..Len(out') + 1
        BY <1>1, <1>2, <3>1 DEF effects
      <4>2. /\ UNCHANGED <<events, log, finished, inCall, ctxDone, cancelled>>
            /\ UNCHANGED <<succeeded, failed, skipped, late>>
        BY <1>1 DEF effects, counts
      <4>3. ready' \in SUBSET Rows
        BY <2>3, <3>1
      <4> QED
        BY <1>5, <2>1, <2>2, <2>3, <2>4, <4>1, <4>2, <4>3 DEF TypeOK, Errors
    <3>4. OrderInv'
      BY <2>1, <2>3, <2>6, <3>1, <3>2 DEF OrderInv, InBatch
    <3>5. LoopInv'
      BY <1>1, <1>2, <2>1, <2>3, <3>2 DEF LoopInv, effects
    <3> QED
      BY <1>1, <1>2, <1>5, <2>1, <2>3, <3>3, <3>4, <3>5
      DEF ConsentInv, OnlyCyclesAreRefused, effects, Started
  <2> QED
    BY <2>5, <2>6
<1> QED
  BY <1>4, <1>5

\* One round of Kahn's loop: the emitted row has no dependency left, and every
\* count stays the number of dependencies still to come.
LEMMA EmitKeeps == IInv /\ Emit => IInv'
<1> SUFFICES ASSUME IInv, Emit PROVE IInv'
  OBVIOUS
<1>0. TypeOK /\ OrderInv /\ LoopInv /\ ConsentInv /\ OnlyCyclesAreRefused
  BY DEF IInv
<1>1. PICK i \in ready : out' = Append(out, i) /\ Release(i)
  BY DEF Emit
<1>2. /\ phase = "ordering" /\ at = 1 /\ ~inCall
      /\ UNCHANGED <<phase, err, args, effects, ctxDone, finished>>
      /\ \A r \in Rows : events[r] = <<>> /\ log[r] = <<>>
  BY <1>0 DEF Emit, LoopInv
<1>3. UNCHANGED <<tray, dependsOn, blocked, selected, at, inCall, cancelled,
                  events, log, late, succeeded, failed, skipped>>
  BY <1>2 DEF args, effects, counts
<1>4. /\ i \in Waiting /\ i \in selected /\ i \notin Emitted /\ i \in Rows
      /\ indeg[i] = 0 /\ ~Single
  BY <1>0, <1>1 DEF OrderInv, Waiting, TypeOK
<1>5. InBatch(i) \subseteq Emitted
  <2>1. InBatch(i) \ Emitted \in SUBSET Rows
    BY <1>0 DEF InBatch, TypeOK
  <2>2. Cardinality(InBatch(i) \ Emitted) = 0
    BY <1>0, <1>4 DEF OrderInv
  <2> QED
    BY <2>1, <2>2, OneLess
<1>6. /\ out' \in Seq(Rows) /\ Len(out') = Len(out) + 1
      /\ \A j \in Idx : out'[j] = out[j]
      /\ out'[Len(out) + 1] = i
      /\ Len(out) \in Nat
  BY <1>0, <1>1, <1>4, AppendProperties DEF TypeOK, Idx
<1>7. Idx' = Idx \cup {Len(out) + 1} /\ Len(out) + 1 \notin Idx
  BY <1>6 DEF Idx
<1>8. Emitted' = Emitted \cup {i} /\ Waiting' = Waiting \ {i}
  <2>1. Emitted' = Emitted \cup {i}
    BY <1>6, <1>7 DEF Emitted
  <2> QED
    BY <2>1, <1>3 DEF Waiting
<1>9. \A r \in selected : i \in dependsOn[r] => r \in Waiting /\ indeg[r] > 0
  <2> SUFFICES ASSUME NEW r \in selected, i \in dependsOn[r]
               PROVE  r \in Waiting /\ indeg[r] > 0
    OBVIOUS
  <2>1. i \in InBatch(r)
    BY <1>4 DEF InBatch
  <2>2. r \notin Emitted
    <3> SUFFICES ASSUME r \in Emitted PROVE FALSE
      OBVIOUS
    <3>1. PICK j \in Idx : out[j] = r
      BY DEF Emitted
    <3>2. \E k \in Idx : out[k] = i
      BY <1>0, <1>4, <2>1, <3>1 DEF OrderInv
    <3> QED
      BY <1>4, <3>2 DEF Emitted
  <2>3. InBatch(r) \ Emitted \in SUBSET Rows /\ i \in InBatch(r) \ Emitted
    BY <1>0, <1>4, <2>1 DEF InBatch, TypeOK
  <2>4. Cardinality(InBatch(r) \ Emitted) > 0
    BY <2>3, OneLess
  <2> QED
    BY <1>0, <2>2, <2>4 DEF OrderInv, Waiting
<1>10. /\ \A r \in Rows : indeg'[r] = IF r \in selected /\ i \in dependsOn[r]
                                      THEN indeg[r] - 1 ELSE indeg[r]
       /\ indeg' \in [Rows -> Nat]
  BY <1>0, <1>1, <1>9, SMTT(30) DEF Release, TypeOK
<1>11. \A r \in Waiting' : indeg'[r] = Cardinality(InBatch(r) \ Emitted)'
  <2> SUFFICES ASSUME NEW r \in Waiting \ {i}
               PROVE  indeg'[r] = Cardinality(InBatch(r) \ Emitted)'
    BY <1>8
  <2> DEFINE S == InBatch(r) \ Emitted
  <2>1. S \in SUBSET Rows /\ r \in selected /\ r \in Rows
    BY <1>0 DEF InBatch, TypeOK, Waiting
  <2>2. (InBatch(r) \ Emitted)' = S \ {i}
    BY <1>3, <1>8 DEF InBatch
  <2>3. indeg[r] = Cardinality(S)
    BY <1>0 DEF OrderInv
  <2>4. i \in S <=> i \in dependsOn[r]
    BY <1>4 DEF InBatch
  <2>5. /\ i \in S => Cardinality(S \ {i}) = Cardinality(S) - 1
        /\ i \notin S => Cardinality(S \ {i}) = Cardinality(S)
    BY <2>1, OneLess
  <2> QED
    BY <1>10, <2>1, <2>2, <2>3, <2>4, <2>5
<1>12. ready' = {r \in Waiting' : indeg'[r] = 0}
  <2>1. i \notin dependsOn[i]
    BY <1>4, <1>5 DEF InBatch
  <2>2. ready = {r \in Waiting : indeg[r] = 0}
    BY <1>0 DEF OrderInv
  <2>3. ready' = (ready \ {i})
                   \cup {r \in selected : i \in dependsOn[r] /\ indeg[r] = 1}
    BY <1>1 DEF Release
  <2>4. \A r \in Waiting : r \in Rows /\ r \in selected /\ indeg[r] \in Nat
    BY <1>0 DEF Waiting, TypeOK
  <2>5. ASSUME NEW r
        PROVE  r \in ready' <=> r \in Waiting \ {i} /\ indeg'[r] = 0
    <3>1. CASE r \in selected /\ i \in dependsOn[r]
      <4>1. r \in Waiting /\ indeg[r] > 0 /\ r \in Rows /\ indeg[r] \in Nat
        BY <1>9, <2>4, <3>1
      <4>2. r # i
        BY <2>1, <3>1
      <4>3. indeg'[r] = indeg[r] - 1
        BY <1>10, <3>1, <4>1
      <4>4. r \in ready' <=> indeg[r] = 1
        BY <2>2, <2>3, <3>1, <4>1
      <4> QED
        BY <4>1, <4>2, <4>3, <4>4
    <3>2. CASE ~(r \in selected /\ i \in dependsOn[r])
      <4>1. r \in Waiting => indeg'[r] = indeg[r]
        BY <1>10, <2>4, <3>2
      <4>2. r \in ready' <=> r \in ready \ {i}
        BY <2>3, <3>2
      <4> QED
        BY <2>2, <4>1, <4>2
    <3> QED
      BY <3>1, <3>2
  <2> QED
    BY <1>8, <2>5
<1>13. OrderInv'
  <2>1. \A j, k \in Idx' : out'[j] = out'[k] => j = k
    <3>1. \A j \in Idx : out'[j] \in Emitted
      BY <1>6 DEF Emitted
    <3> QED
      BY <1>0, <1>4, <1>6, <1>7, <3>1 DEF OrderInv
  <2>2. \A j \in Idx' : out'[j] \in selected'
    BY <1>0, <1>3, <1>4, <1>6, <1>7 DEF OrderInv
  <2>3. \A j \in Idx' : \A d \in InBatch(out[j])' :
          \E k \in Idx' : k < j /\ out'[k] = d
    <3>1. ASSUME NEW j \in Idx, NEW d \in InBatch(out[j])'
          PROVE  \E k \in Idx' : k < j /\ out'[k] = d
      <4>1. d \in InBatch(out[j])
        BY <1>3, <1>6 DEF InBatch
      <4>2. PICK k \in Idx : k < j /\ out[k] = d
        BY <1>0, <1>4, <4>1 DEF OrderInv
      <4> QED
        BY <1>6, <1>7, <4>2
    <3>2. ASSUME NEW d \in InBatch(i)'
          PROVE  \E k \in Idx' : k < Len(out) + 1 /\ out'[k] = d
      <4>1. d \in Emitted
        BY <1>3, <1>5 DEF InBatch
      <4>2. PICK k \in Idx : out[k] = d
        BY <4>1 DEF Emitted
      <4> QED
        BY <1>6, <1>7, <4>2 DEF Idx
    <3>3. ASSUME NEW j \in Idx', j = Len(out) + 1, NEW d \in InBatch(out[j])'
          PROVE  \E k \in Idx' : k < j /\ out'[k] = d
      <4>1. d \in InBatch(i)'
        BY <1>3, <1>6, <3>3 DEF InBatch
      <4> QED
        BY <3>2, <3>3, <4>1
    <3> QED
      BY <1>7, <3>1, <3>3
  <2>4. ~Single'
    BY <1>3, <1>4 DEF Single
  <2> QED
    BY <1>11, <1>12, <2>1, <2>2, <2>3, <2>4 DEF OrderInv
<1>14. TypeOK'
  <2>1. ready' \in SUBSET Rows
    BY <1>0, <1>1 DEF Release, TypeOK
  <2>2. at' \in 1..Len(out') + 1
    BY <1>2, <1>3, <1>6
  <2> QED
    BY <1>0, <1>2, <1>3, <1>6, <1>10, <2>1, <2>2 DEF TypeOK
<1>15. LoopInv'
  <2>1. \A j \in Idx' : out'[j] \in Rows
    BY <1>6 DEF Idx
  <2>2. selected \subseteq Rows
    BY <1>0 DEF TypeOK
  <2> QED
    BY <1>2, <1>3, <1>6, <1>7, <2>1, <2>2 DEF LoopInv, Idx
<1>16. ConsentInv' /\ OnlyCyclesAreRefused'
  BY <1>0, <1>2, <1>3 DEF ConsentInv, Started, OnlyCyclesAreRefused
<1> QED
  BY <1>13, <1>14, <1>15, <1>16 DEF IInv

\* Order's verdict: rows that were never emitted all wait for one another.
LEMMA OrderedKeeps == IInv /\ Ordered => IInv'
<1> SUFFICES ASSUME IInv, Ordered PROVE IInv'
  OBVIOUS
<1>0. TypeOK /\ OrderInv /\ LoopInv /\ ConsentInv /\ OnlyCyclesAreRefused
  BY DEF IInv
<1>1. /\ phase = "ordering" /\ ready = {}
      /\ UNCHANGED <<args, ordering, effects, ctxDone, finished>>
      /\ \/ phase' = "skipping" /\ err' = err /\ selected \subseteq Emitted
         \/ phase' = "returned" /\ err' = "cyclic" /\ ~(selected \subseteq Emitted)
  BY DEF Ordered, Emitted, Idx, Range
<1>2. UNCHANGED <<tray, dependsOn, blocked, selected, out, indeg, ready, at,
                  inCall, cancelled, events, log, late, succeeded, failed, skipped>>
  BY <1>1 DEF args, ordering, effects, counts
<1>3. OrderInv' /\ Idx' = Idx /\ Emitted' = Emitted
  BY <1>0, <1>1, OrderStays
<1>4. /\ at = 1 /\ ~inCall
      /\ \A r \in Rows : events[r] = <<>> /\ log[r] = <<>>
      /\ \A i \in Idx : out[i] \in Rows
  BY <1>0, <1>1 DEF LoopInv, Idx, TypeOK
<1>5. TypeOK'
  BY <1>0, <1>1, <1>2 DEF TypeOK, Errors
<1>6. LoopInv'
  <2>1. selected \subseteq Rows
    BY <1>0 DEF TypeOK
  <2>2. \A i \in Idx : ~(i < at)
    BY <1>4 DEF Idx
  <2> QED
    BY <1>1, <1>2, <1>3, <1>4, <2>1, <2>2 DEF LoopInv
<1>7. ConsentInv'
  BY <1>0, <1>1, <1>2, <1>4 DEF ConsentInv, Started
<1>8. OnlyCyclesAreRefused'
  <2>1. CASE phase' = "skipping" /\ err' = err
    BY <1>0, <1>1, <1>2, <2>1 DEF OnlyCyclesAreRefused, ConsentInv
  <2>2. CASE err' = "cyclic" /\ ~(selected \subseteq Emitted)
    <3>1. Waiting # {} /\ Waiting \in SUBSET selected
      BY <2>2 DEF Waiting
    <3>2. ASSUME NEW r \in Waiting PROVE dependsOn[r] \cap Waiting # {}
      <4>1. InBatch(r) \ Emitted \in SUBSET Rows
        BY <1>0 DEF InBatch, TypeOK
      <4>2. Cardinality(InBatch(r) \ Emitted) # 0
        BY <1>0, <1>1, <3>2 DEF OrderInv
      <4>3. InBatch(r) \ Emitted # {}
        BY <4>1, <4>2, OneLess
      <4> QED
        BY <4>3 DEF InBatch, Waiting
    <3>3. Cyclic(selected)
      BY <3>1, <3>2 DEF Cyclic
    <3> QED
      BY <1>2, <3>3 DEF OnlyCyclesAreRefused, Cyclic
  <2> QED
    BY <1>1, <2>1, <2>2
<1> QED
  BY <1>3, <1>5, <1>6, <1>7, <1>8 DEF IInv

\* Every later step leaves the arguments and the order alone.
LEMMA LoopStep ==
  ASSUME IInv, UNCHANGED <<err, args, ordering>>,
         phase \notin {"idle", "ordering"}, phase' \notin {"idle", "ordering"}
  PROVE  /\ OrderInv' /\ OnlyCyclesAreRefused'
         /\ Idx' = Idx /\ Emitted' = Emitted
         /\ \A i \in Idx : out[i] \in selected /\ out[i] \in Rows
         /\ UNCHANGED <<tray, dependsOn, blocked, selected, indeg, ready, out>>
<1>1. UNCHANGED <<tray, dependsOn, blocked, selected, indeg, ready, out>>
  BY DEF args, ordering
<1>2. OrderInv' /\ Idx' = Idx /\ Emitted' = Emitted
  BY OrderStays DEF IInv
<1>3. OnlyCyclesAreRefused'
  BY <1>1 DEF IInv, OnlyCyclesAreRefused, Cyclic
<1>4. \A i \in Idx : out[i] \in selected /\ out[i] \in Rows
  BY DEF IInv, OrderInv, TypeOK, Idx
<1> QED
  BY <1>1, <1>2, <1>3, <1>4

LEMMA LoopIndex ==
  ASSUME TypeOK
  PROVE  /\ at \in Nat \ {0} /\ Len(out) \in Nat
         /\ at <= Len(out) + 1
         /\ at <= Len(out) => at \in Idx
BY LenProperties DEF TypeOK, Idx

\* What one row's report adds to its events, and that no other row changes.
LEMMA Reported ==
  ASSUME TypeOK, NEW r \in Rows,
         NEW e \in {"started", "succeeded", "failed"} \cup Reasons,
         events' = [events EXCEPT ![r] = Append(@, e)]
  PROVE  /\ events' \in [Rows -> Seq({"started", "succeeded", "failed"} \cup Reasons)]
         /\ \A s \in Rows \ {r} : events'[s] = events[s]
         /\ events'[r] # <<>>
         /\ events'[r][Len(events'[r])] = e
         /\ e # "started" /\ ~Started(r) => ~Started(r)'
<1> DEFINE E == {"started", "succeeded", "failed"} \cup Reasons
<1>1. events \in [Rows -> Seq(E)]
  BY DEF TypeOK
<1>2. events[r] \in Seq(E) /\ events'[r] = Append(events[r], e) /\ e \in E
  BY <1>1
<1> HIDE DEF E
<1>3. /\ Append(events[r], e) \in Seq(E)
      /\ Append(events[r], e) # <<>>
      /\ Len(Append(events[r], e)) = Len(events[r]) + 1
      /\ \A i \in 1..Len(events[r]) : Append(events[r], e)[i] = events[r][i]
      /\ Append(events[r], e)[Len(events[r]) + 1] = e
      /\ Len(events[r]) \in Nat
  BY <1>2, AppendProperties, LenProperties
<1>4. events' \in [Rows -> Seq(E)]
  BY <1>1, <1>3
<1>5. e # "started" /\ ~Started(r) => ~Started(r)'
  BY <1>2, <1>3 DEF Started
<1> QED
  BY <1>1, <1>2, <1>3, <1>4, <1>5 DEF E

LEMMA Written ==
  ASSUME TypeOK, NEW r \in Rows, NEW o \in Outcomes, Write(r, o)
  PROVE  log' \in [Rows -> Seq(Outcomes)]
<1>1. log \in [Rows -> Seq(Outcomes)]
  BY DEF TypeOK
<1>2. Append(log[r], o) \in Seq(Outcomes)
  BY <1>1, AppendProperties
<1> QED
  BY <1>1, <1>2 DEF Write

LEMMA SkipUnselectedKeeps == IInv /\ SkipUnselected => IInv'
<1> SUFFICES ASSUME IInv, SkipUnselected PROVE IInv'
  OBVIOUS
<1>0. TypeOK /\ OrderInv /\ LoopInv /\ ConsentInv
  BY DEF IInv
<1>1. PICK r \in Unselected :
        SkipRow(r, IF r \in blocked THEN "blocked" ELSE "unselected")
  BY DEF SkipUnselected
<1>2. /\ phase = "skipping" /\ ~inCall
      /\ UNCHANGED <<phase, err, args, ordering, at, inCall, cancelled, ctxDone,
                     finished, succeeded, failed, late>>
  BY <1>0, <1>1 DEF SkipUnselected, SkipRow, LoopInv
<1>3. PICK e \in {"blocked", "unselected"} :
        events' = [events EXCEPT ![r] = Append(@, e)]
  BY <1>1 DEF SkipRow
<1>4. r \in Rows /\ r \notin selected /\ Write(r, "skipped") /\ skipped' = skipped + 1
  BY <1>0, <1>1 DEF Unselected, SkipRow, TypeOK
<1>5. /\ OrderInv' /\ OnlyCyclesAreRefused' /\ Idx' = Idx /\ Emitted' = Emitted
      /\ \A i \in Idx : out[i] \in selected /\ out[i] \in Rows
      /\ UNCHANGED <<tray, dependsOn, blocked, selected, indeg, ready, out>>
  BY <1>2, LoopStep
<1>6. /\ events' \in [Rows -> Seq({"started", "succeeded", "failed"} \cup Reasons)]
      /\ \A s \in Rows \ {r} : events'[s] = events[s]
      /\ ~Started(r) => ~Started(r)'
  BY <1>0, <1>3, <1>4, Reported DEF Reasons
<1>7. log' \in [Rows -> Seq(Outcomes)]
  BY <1>0, <1>4, Written DEF Outcomes
<1>8. TypeOK'
  <2>1. {succeeded', failed', skipped', late'} \subseteq Nat
    BY <1>0, <1>2, <1>4 DEF TypeOK
  <2> QED
    BY <1>0, <1>2, <1>5, <1>6, <1>7, <2>1 DEF TypeOK
<1>9. \A i \in Idx : events'[out[i]] = events[out[i]]
  BY <1>4, <1>5, <1>6
<1>10. LoopInv'
  <2>1. selected \subseteq Rows
    BY <1>0 DEF TypeOK
  <2> QED
    BY <1>0, <1>2, <1>4, <1>5, <1>6, <1>9, <2>1 DEF LoopInv, Settled
<1>11. ConsentInv'
  BY <1>0, <1>2, <1>4, <1>5, <1>6 DEF ConsentInv, Started
<1> QED
  BY <1>5, <1>8, <1>10, <1>11 DEF IInv

\* The row the loop is at is skipped, or its call returns.
LEMMA RowEnds ==
  ASSUME IInv, phase = "deleting", at \in Idx,
         NEW e \in {"succeeded", "failed", "cancelled"}, NEW o \in Outcomes,
         inCall \/ e = "cancelled",
         events' = [events EXCEPT ![out[at]] = Append(@, e)],
         Write(out[at], o),
         at' = at + 1, inCall' = FALSE,
         UNCHANGED <<phase, err, args, ordering, ctxDone, finished>>,
         cancelled' \in BOOLEAN,
         {succeeded', failed', skipped', late'} \subseteq Nat
  PROVE  IInv'
<1> DEFINE r == out[at]
<1>0. TypeOK /\ OrderInv /\ LoopInv /\ ConsentInv
  BY DEF IInv
<1>1. /\ OrderInv' /\ OnlyCyclesAreRefused' /\ Idx' = Idx /\ Emitted' = Emitted
      /\ \A i \in Idx : out[i] \in selected /\ out[i] \in Rows
      /\ UNCHANGED <<tray, dependsOn, blocked, selected, indeg, ready, out>>
  BY LoopStep
<1>2. r \in Rows /\ r \in selected /\ r \in Emitted
  BY <1>1 DEF Emitted
<1>3. /\ events' \in [Rows -> Seq({"started", "succeeded", "failed"} \cup Reasons)]
      /\ \A s \in Rows \ {r} : events'[s] = events[s]
      /\ events'[r] # <<>> /\ events'[r][Len(events'[r])] = e
  BY <1>0, <1>2, Reported DEF Reasons
<1>4. log' \in [Rows -> Seq(Outcomes)]
  BY <1>0, <1>2, Written
<1>5. TypeOK'
  <2>1. at' \in 1..Len(out') + 1
    BY <1>0, <1>1, LoopIndex DEF Idx
  <2> QED
    BY <1>0, <1>1, <1>3, <1>4, <2>1 DEF TypeOK
<1>6. LoopInv'
  <2>1. \A i \in Idx : i # at => events'[out[i]] = events[out[i]]
    BY <1>0, <1>1, <1>3 DEF OrderInv
  <2>3. \A i \in Idx : i < at' => Settled(out[i])'
    <3> SUFFICES ASSUME NEW i \in Idx, i < at' PROVE Settled(out[i])'
      OBVIOUS
    <3>1. CASE i = at
      BY <1>1, <1>3, <3>1 DEF Settled
    <3>2. CASE i # at
      <4>1. i < at
        BY <3>2 DEF Idx
      <4> QED
        BY <1>0, <1>1, <2>1, <3>2, <4>1 DEF LoopInv, Settled
    <3> QED
      BY <3>1, <3>2
  <2>4. \A i \in Idx : i >= at' => events'[out[i]] = <<>>
    <3> SUFFICES ASSUME NEW i \in Idx, i >= at' PROVE events'[out[i]] = <<>>
      OBVIOUS
    <3>1. i > at /\ i # at
      BY <1>0, LoopIndex DEF Idx
    <3> QED
      BY <1>0, <2>1, <3>1 DEF LoopInv
  <2>5. \A s \in selected : events'[s] # <<>> => s \in Emitted
    <3>1. selected \subseteq Rows
      BY <1>0 DEF TypeOK
    <3> QED
      BY <1>0, <1>2, <1>3, <3>1 DEF LoopInv
  <2>6. \A i \in Idx : i > at' \/ i = at' => i >= at'
    BY DEF Idx
  <2>7. selected' \subseteq Emitted'
    BY <1>0, <1>1 DEF LoopInv
  <2> QED
    BY <1>1, <2>3, <2>4, <2>5, <2>6, <2>7 DEF LoopInv
<1>7. ConsentInv'
  <2>1. err = "none"
    BY <1>0 DEF ConsentInv
  <2> QED
    BY <1>0, <1>1, <1>2, <1>3, <2>1 DEF ConsentInv, Started
<1> QED
  BY <1>1, <1>5, <1>6, <1>7 DEF IInv

LEMMA CancelRowKeeps == IInv /\ CancelRow => IInv'
<1> SUFFICES ASSUME IInv, CancelRow PROVE IInv'
  OBVIOUS
<1>0. at \in Idx
  BY LoopIndex DEF IInv, CancelRow
<1>1. {succeeded, failed, skipped, late} \subseteq Nat /\ inCall' = FALSE
  BY DEF IInv, TypeOK, CancelRow
<1>2. {succeeded', failed', skipped', late'} \subseteq Nat
  BY <1>1 DEF CancelRow, SkipRow
<1> QED
  BY <1>0, <1>1, <1>2, RowEnds DEF CancelRow, SkipRow, Outcomes

LEMMA DeleteRowKeeps == IInv /\ DeleteRow => IInv'
<1> SUFFICES ASSUME IInv, DeleteRow PROVE IInv'
  OBVIOUS
<1>1. at \in Idx /\ phase = "deleting" /\ {succeeded, failed, skipped, late} \subseteq Nat
  BY DEF IInv, TypeOK, LoopInv, DeleteRow, Idx
<1>2. {succeeded', failed', skipped', late'} \subseteq Nat
  BY <1>1 DEF DeleteRow
<1>3. cancelled' \in BOOLEAN
  BY DEF IInv, TypeOK, DeleteRow
<1>4. PICK e \in {"succeeded", "failed"}, o \in {"deleted", "failed"} :
        /\ events' = [events EXCEPT ![out[at]] = Append(@, e)]
        /\ Write(out[at], o)
  BY DEF DeleteRow
<1> QED
  BY <1>1, <1>2, <1>3, <1>4, RowEnds DEF DeleteRow, Outcomes

LEMMA StartRowKeeps == IInv /\ StartRow => IInv'
<1> SUFFICES ASSUME IInv, StartRow PROVE IInv'
  OBVIOUS
<1> DEFINE r == out[at]
<1>0. TypeOK /\ OrderInv /\ LoopInv /\ ConsentInv /\ at \in Idx
  BY LoopIndex DEF IInv, StartRow
<1>1. /\ OrderInv' /\ OnlyCyclesAreRefused' /\ Idx' = Idx /\ Emitted' = Emitted
      /\ \A i \in Idx : out[i] \in selected /\ out[i] \in Rows
      /\ UNCHANGED <<tray, dependsOn, blocked, selected, indeg, ready, out>>
  BY LoopStep DEF StartRow
<1>2. r \in Rows /\ r \in selected /\ r \in Emitted
  BY <1>0, <1>1 DEF Emitted
<1>3. /\ events' \in [Rows -> Seq({"started", "succeeded", "failed"} \cup Reasons)]
      /\ \A s \in Rows \ {r} : events'[s] = events[s]
      /\ events'[r] # <<>>
  BY <1>0, <1>2, Reported DEF StartRow
<1>4. TypeOK'
  BY <1>0, <1>1, <1>3 DEF TypeOK, StartRow, counts
<1>5. LoopInv'
  <2>1. \A i \in Idx : i # at => events'[out[i]] = events[out[i]]
    BY <1>0, <1>1, <1>3 DEF OrderInv
  <2>2. \A i \in Idx : i < at => Settled(out[i])'
    BY <1>0, <1>1, <2>1 DEF LoopInv, Settled, Idx
  <2>3. \A i \in Idx : i > at => events'[out[i]] = <<>>
    BY <1>0, <2>1 DEF LoopInv, Idx
  <2>4. \A s \in selected : events'[s] # <<>> => s \in Emitted
    <3>1. selected \subseteq Rows
      BY <1>0 DEF TypeOK
    <3> QED
      BY <1>0, <1>2, <1>3, <3>1 DEF LoopInv
  <2>5. selected' \subseteq Emitted'
    BY <1>0, <1>1 DEF LoopInv, StartRow
  <2> QED
    BY <1>1, <1>3, <2>2, <2>3, <2>4, <2>5 DEF LoopInv, StartRow
<1>6. ConsentInv'
  <2>1. err = "none" /\ UNCHANGED <<err, phase>>
    BY <1>0 DEF ConsentInv, StartRow
  <2> QED
    BY <1>0, <1>1, <1>2, <1>3, <2>1 DEF ConsentInv, Started
<1> QED
  BY <1>1, <1>4, <1>5, <1>6 DEF IInv

\* Steps that touch nothing but the phase, the context and the final counts.
LEMMA QuietKeeps ==
  ASSUME IInv, UNCHANGED <<err, args, ordering, effects>>,
         ctxDone' \in BOOLEAN, finished' \in Seq(Nat),
         \/ phase' = phase
         \/ phase = "skipping" /\ phase' = "deleting"
         \/ phase = "deleting" /\ phase' = "returned" /\ ~inCall
  PROVE  IInv'
<1>0. TypeOK /\ OrderInv /\ LoopInv /\ ConsentInv /\ OnlyCyclesAreRefused
  BY DEF IInv
<1>1. UNCHANGED <<tray, dependsOn, blocked, selected, indeg, ready, out, at,
                  inCall, cancelled, events, log, late, succeeded, failed, skipped>>
  BY DEF args, ordering, effects, counts
<1>2. OrderInv' /\ Idx' = Idx /\ Emitted' = Emitted
  BY <1>0, OrderStays
<1>3. TypeOK'
  BY <1>0, <1>1 DEF TypeOK
<1>4. LoopInv'
  BY <1>0, <1>1, <1>2 DEF LoopInv, Settled
<1>5. ConsentInv' /\ OnlyCyclesAreRefused'
  BY <1>0, <1>1 DEF ConsentInv, OnlyCyclesAreRefused, Started, Cyclic
<1> QED
  BY <1>2, <1>3, <1>4, <1>5 DEF IInv

LEMMA NextKeeps == IInv /\ [Next]_vars => IInv'
<1> SUFFICES ASSUME IInv, [Next]_vars PROVE IInv'
  OBVIOUS
<1>0. TypeOK /\ LoopInv
  BY DEF IInv
<1>1. CASE Step
  <2>1. CASE StartDeleting
    BY <1>0, <2>1, QuietKeeps DEF StartDeleting, TypeOK
  <2>2. CASE Finish
    <3>1. Cardinality(tray) \in Nat
      BY <1>0, SubsetFinite DEF TypeOK
    <3>2. {succeeded, failed, skipped} \subseteq Nat
      BY <1>0 DEF TypeOK
    <3>3. finished' \in Seq(Nat)
      BY <2>2, <3>1, <3>2 DEF Finish
    <3>4. ~inCall
      BY <1>0, <2>2 DEF LoopInv, Finish, TypeOK
    <3> QED
      BY <1>0, <2>2, <3>3, <3>4, QuietKeeps DEF Finish, TypeOK
  <2> QED
    BY <1>1, <2>1, <2>2, CallKeeps, EmitKeeps, OrderedKeeps, SkipUnselectedKeeps,
       CancelRowKeeps, StartRowKeeps, DeleteRowKeeps DEF Step
<1>2. CASE Cancel
  BY <1>0, <1>2, QuietKeeps DEF Cancel, TypeOK
<1>3. CASE UNCHANGED vars
  BY <1>0, <1>3, QuietKeeps DEF vars, TypeOK
<1> QED
  BY <1>1, <1>2, <1>3 DEF Next, Returned

-----------------------------------------------------------------------------
\* The strengthened invariant holds of every Execute: rows any finite set,
\* DependsOn any relation between different rows.
THEOREM Invariance == Spec => []IInv
BY InitHolds, NextKeeps, PTL DEF Spec

\* Execute and Order keep every variable in its type.
THEOREM TypeCorrect == Spec => []TypeOK
<1>1. IInv => TypeOK
  BY DEF IInv
<1> QED
  BY <1>1, Invariance, PTL

\* No row is touched before the batch's rows it depends on are settled.
THEOREM CallsFollowDependencies == Spec => []DependenciesFirst
<1>1. IInv => DependenciesFirst
  <2> SUFFICES ASSUME IInv, NEW r \in selected, events[r] # <<>>,
                      NEW d \in InBatch(r) \ {r}
               PROVE  Settled(d)
    BY DEF DependenciesFirst
  <2>0. TypeOK /\ OrderInv /\ LoopInv /\ ~Single
    BY DEF IInv, InBatch, Single
  <2>1. PICK i \in Idx : out[i] = r
    BY <2>0 DEF LoopInv, Emitted
  <2>2. PICK j \in Idx : j < i /\ out[j] = d
    BY <2>0, <2>1 DEF OrderInv
  <2>3. ~(i > at)
    BY <2>0, <2>1 DEF LoopInv
  <2>4. j < at
    BY <2>0, <2>2, <2>3 DEF TypeOK, Idx
  <2> QED
    BY <2>0, <2>2, <2>4 DEF LoopInv
<1> QED
  BY <1>1, Invariance, PTL

\* A non-empty set of naturals has a least element.
LEMMA LeastNatural ==
  ASSUME NEW T \in SUBSET Nat, T # {}
  PROVE  \E x \in T : \A y \in T : x <= y
<1>1. \E x \in T : \A y \in T : <<y, x>> \notin OpToRel(<, Nat)
  BY NatLessThanWellFounded, WFMin
<1>2. PICK x \in T : \A y \in T : <<y, x>> \notin OpToRel(<, Nat)
  BY <1>1
<1>3. \A y \in T : ~(y < x)
  BY <1>2 DEF OpToRel
<1> QED
  BY <1>3

\* ErrCyclicDependency is returned of a batch that has a cycle, and a batch
\* that goes ahead has none: the row of a cycle that was emitted first would
\* have had a dependency before it.
THEOREM RefusalMeansCycle == Spec => []ExactlyCyclesAreRefused
<1>1. ASSUME IInv, phase \in {"skipping", "deleting"}, ~Single
      PROVE  ~Cyclic(selected)
  <2> SUFFICES ASSUME NEW C \in SUBSET selected, C # {},
                      \A r \in C : dependsOn[r] \cap C # {}
               PROVE  FALSE
    BY DEF Cyclic
  <2>0. OrderInv /\ LoopInv
    BY <1>1 DEF IInv
  <2> DEFINE T == {i \in Idx : out[i] \in C}
  <2>1. T \in SUBSET Nat /\ T # {}
    BY <1>1, <2>0, SMTT(30) DEF LoopInv, Emitted, Idx
  <2>2. PICK i \in T : \A j \in T : i <= j
    BY <2>1, LeastNatural
  <2>3. PICK d \in InBatch(out[i]) : d \in C
    BY <2>2 DEF InBatch
  <2>4. PICK j \in Idx : j < i /\ out[j] = d
    BY <1>1, <2>0, <2>2, <2>3 DEF OrderInv
  <2>5. j \in T
    BY <2>3, <2>4
  <2> QED
    BY <2>2, <2>4, <2>5 DEF Idx
<1>2. IInv => ExactlyCyclesAreRefused
  BY <1>1 DEF IInv, ExactlyCyclesAreRefused
<1> QED
  BY <1>2, Invariance, PTL

\* Only rows that were checked, and not found blocked, are ever started.
THEOREM StartsAreConsented == Spec => []OnlyConsentedRows
<1>1. IInv => OnlyConsentedRows
  BY DEF IInv, ConsentInv, OnlyConsentedRows
<1> QED
  BY <1>1, Invariance, PTL

-----------------------------------------------------------------------------
\* What a row's events may have become when Execute is done with it, and the
\* log entry that goes with them.
Settlements == {<<"started", "succeeded">>, <<"started", "failed">>,
                <<"unselected">>, <<"blocked">>, <<"cancelled">>}

Entry(trace) ==
  CASE trace[Len(trace)] = "succeeded" -> "deleted"
    [] trace[Len(trace)] = "failed"    -> "failed"
    [] OTHER                           -> "skipped"

\* The counts are those of the rows' events: each row has one of the traces
\* above once it is settled, and the trace of an open call only at the index
\* the loop is at.
CountInv ==
  /\ \A r \in Rows : events[r] \in {<<>>, <<"started">>} \cup Settlements
  /\ \A r \in Rows : events[r] # <<>> => r \in tray
  /\ \A r \in Rows : events[r] = <<"started">> <=> inCall /\ r = out[at]
  /\ succeeded = With(<<"started", "succeeded">>)
  /\ failed = With(<<"started", "failed">>)
  /\ skipped = With(<<"unselected">>) + With(<<"blocked">>)
                 + With(<<"cancelled">>)

\* A log entry is there only once its row is settled, and says how.
LogInv ==
  \A r \in Rows : log[r] # <<>> =>
    events[r] \in Settlements /\ log[r] = <<Entry(events[r])>>

\* The second loop starts when the first has reported every row it had to, and
\* Execute returns nil when each row of the tray is settled.
EndInv ==
  /\ phase = "deleting" => Unselected = {}
  /\ phase = "returned" /\ err = "none" =>
       /\ finished = <<Cardinality(tray), succeeded, failed, skipped>>
       /\ \A r \in tray : events[r] \in Settlements

\* After the context is done the one call that may follow is the one that was
\* between the check and the call, and it leaves the loop between rounds.
LateInv == late = 0 \/ (late = 1 /\ ctxDone /\ ~inCall)

Ledger == CountInv /\ LogInv /\ EndInv /\ LateInv

\* The traces a row goes through are different from each other.
LEMMA TracesDiffer ==
  /\ \A t \in Settlements : t # <<>> /\ t # <<"started">>
  /\ <<"started">> # <<>>
  /\ <<"started", "succeeded">> \notin Settlements \ {<<"started", "succeeded">>}
  /\ <<"started", "succeeded">> # <<"started", "failed">>
  /\ <<"started", "succeeded">> \notin {<<"unselected">>, <<"blocked">>, <<"cancelled">>}
  /\ <<"started", "failed">> \notin {<<"unselected">>, <<"blocked">>, <<"cancelled">>}
  /\ <<"unselected">> \notin {<<"blocked">>, <<"cancelled">>}
  /\ <<"blocked">> # <<"cancelled">>
<1>1. \A x, y : Len(<<x>>) = 1 /\ Len(<<x, y>>) = 2 /\ Len(<<>>) = 0
  OBVIOUS
<1>2. \A x, y : <<x>> = <<y>> => x = y
  OBVIOUS
<1>3. \A x, y, z : <<x, y>> # <<z>> /\ <<x, y>> # <<>> /\ <<z>> # <<>>
  BY <1>1
<1>4. \A x, y, z : <<x, y>> = <<x, z>> => y = z
  OBVIOUS
<1> QED
  BY <1>2, <1>3, <1>4 DEF Settlements

LEMMA SecondEvent ==
  ASSUME NEW x, NEW y
  PROVE  Append(<<x>>, y) = <<x, y>>
<1>1. Append(<<x>>, y) = [i \in 1..2 |-> IF i = 2 THEN y ELSE x]
  OBVIOUS
<1>2. <<x, y>> = [i \in 1..2 |-> IF i = 2 THEN y ELSE x]
  OBVIOUS
<1> QED
  BY <1>1, <1>2

LEMMA Entries ==
  /\ Entry(<<"started", "succeeded">>) = "deleted"
  /\ Entry(<<"started", "failed">>) = "failed"
  /\ \A x \in Reasons : Entry(<<x>>) = "skipped"
BY DEF Entry, Reasons

\* One more row has the trace u, and the count of every trace but the one it
\* had stays what it was.
LEMMA Tally ==
  ASSUME TypeOK, NEW r \in Rows, NEW u, events[r] # u,
         events' = [events EXCEPT ![r] = u]
  PROVE  /\ With(u)' = With(u) + 1
         /\ \A v : v # u /\ v # events[r] => With(v)' = With(v)
<1> DEFINE Of(v) == {s \in Rows : events[s] = v}
<1>1. events \in [Rows -> Seq({"started", "succeeded", "failed"} \cup Reasons)]
  BY DEF TypeOK
<1>2. events'[r] = u /\ \A s \in Rows \ {r} : events'[s] = events[s]
  BY <1>1
<1>3. {s \in Rows : events'[s] = u} = Of(u) \cup {r} /\ r \notin Of(u)
  BY <1>2
<1>4. \A v : v # u /\ v # events[r] => {s \in Rows : events'[s] = v} = Of(v)
  BY <1>2
<1>5. IsFiniteSet(Of(u))
  BY SubsetFinite
<1>6. Cardinality(Of(u) \cup {r}) = Cardinality(Of(u)) + 1
  BY <1>3, <1>5, FS_AddElement
<1> QED
  BY <1>3, <1>4, <1>6 DEF With

LEMMA InitLedger == Init => Ledger
<1> SUFFICES ASSUME Init PROVE Ledger
  OBVIOUS
<1>1. \A r \in Rows : events[r] = <<>> /\ log[r] = <<>>
  BY DEF Init
<1>2. \A t : t # <<>> => With(t) = 0
  <2>1. \A t : t # <<>> => {r \in Rows : events[r] = t} = {}
    BY <1>1
  <2> QED
    BY <2>1, FS_EmptySet DEF With
<1>3. CountInv
  BY <1>1, <1>2, TracesDiffer DEF CountInv, Init, Settlements
<1> QED
  BY <1>1, <1>3 DEF Ledger, LogInv, EndInv, LateInv, Init

\* Steps that report nothing about a row.
LEMMA QuietLedger ==
  ASSUME IInv, Ledger, UNCHANGED effects, ctxDone => ctxDone',
         UNCHANGED args \/ \A r \in Rows : events[r] = <<>>,
         inCall => UNCHANGED out
  PROVE  /\ CountInv' /\ LogInv' /\ LateInv'
         /\ UNCHANGED <<succeeded, failed, skipped, events>>
<1>0. CountInv /\ LogInv /\ LateInv
  BY DEF Ledger
<1>1. UNCHANGED <<events, log, at, inCall, late, succeeded, failed, skipped>>
  BY DEF effects, counts
<1>2. \A t : With(t)' = With(t)
  BY <1>1 DEF With
<1>3. \A r \in Rows : events[r] # <<>> => r \in tray'
  BY <1>0 DEF CountInv, args
<1> QED
  BY <1>0, <1>1, <1>2, <1>3 DEF CountInv, LogInv, LateInv

\* The log entry written with a row's last event, or none.
LEMMA LogKeeps ==
  ASSUME TypeOK, CountInv, LogInv, NEW r \in Rows, events[r] \notin Settlements,
         NEW t \in Settlements, events' = [events EXCEPT ![r] = t],
         Write(r, Entry(t))
  PROVE  LogInv'
<1>1. /\ events \in [Rows -> Seq({"started", "succeeded", "failed"} \cup Reasons)]
      /\ log \in [Rows -> Seq(Outcomes)]
  BY DEF TypeOK
<1>2. log[r] = <<>>
  BY DEF LogInv
<1>3. log'[r] \in {<<>>, <<Entry(t)>>} /\ \A s \in Rows \ {r} : log'[s] = log[s]
  BY <1>1, <1>2 DEF Write
<1>4. events'[r] = t /\ \A s \in Rows \ {r} : events'[s] = events[s]
  BY <1>1
<1> QED
  BY <1>3, <1>4 DEF LogInv

\* No row is left over for the first loop once it has none.
LEMMA NoneLeft ==
  ASSUME TypeOK, Unselected = {}, UNCHANGED args, NEW r \in Rows, NEW t, t # <<>>,
         events' = [events EXCEPT ![r] = t]
  PROVE  Unselected' = {}
<1>1. UNCHANGED <<tray, selected>> /\ tray \subseteq Rows
  BY DEF args, TypeOK
<1>2. \A s \in Rows : events'[s] = <<>> => events[s] = <<>>
  BY DEF TypeOK
<1> QED
  BY <1>1, <1>2 DEF Unselected

LEMMA SkipUnselectedLedger == IInv /\ Ledger /\ SkipUnselected => Ledger'
<1> SUFFICES ASSUME IInv, Ledger, SkipUnselected PROVE Ledger'
  OBVIOUS
<1>0. TypeOK /\ LoopInv /\ CountInv /\ LogInv /\ EndInv /\ LateInv
  BY DEF IInv, Ledger
<1>1. PICK r \in Unselected :
        SkipRow(r, IF r \in blocked THEN "blocked" ELSE "unselected")
  BY DEF SkipUnselected
<1>2. PICK e \in {"blocked", "unselected"} :
        /\ events' = [events EXCEPT ![r] = Append(@, e)]
        /\ Write(r, "skipped") /\ skipped' = skipped + 1
        /\ UNCHANGED <<succeeded, failed, late>>
  BY <1>1 DEF SkipRow
<1>3. /\ phase = "skipping" /\ ~inCall /\ r \in Rows /\ r \in tray /\ events[r] = <<>>
      /\ UNCHANGED <<phase, err, args, ordering, at, inCall, cancelled, ctxDone,
                     finished, succeeded, failed, late, tray>>
  BY <1>0, <1>1, <1>2 DEF SkipUnselected, LoopInv, Unselected, TypeOK, args
<1>4. /\ events' = [events EXCEPT ![r] = <<e>>]
      /\ events'[r] = <<e>> /\ \A s \in Rows \ {r} : events'[s] = events[s]
  BY <1>0, <1>2, <1>3 DEF TypeOK
<1>5. <<e>> \in Settlements /\ Entry(<<e>>) = "skipped"
  BY Entries DEF Settlements, Reasons
<1>6. /\ With(<<e>>)' = With(<<e>>) + 1
      /\ \A v : v # <<e>> /\ v # <<>> => With(v)' = With(v)
  BY <1>0, <1>3, <1>4, <1>5, Tally, TracesDiffer
<1>7. CountInv'
  <2>1. \A v : With(v) \in Nat
    BY SubsetFinite DEF With
  <2>2. skipped' = With(<<"unselected">>)' + With(<<"blocked">>)'
                     + With(<<"cancelled">>)'
    <3>1. /\ skipped = With(<<"unselected">>) + With(<<"blocked">>)
                        + With(<<"cancelled">>)
          /\ skipped' = skipped + 1
      BY <1>0, <1>2 DEF CountInv
    <3>2. \A x \in Reasons : <<x>> # <<>> /\ (<<x>> = <<e>> => x = e)
      OBVIOUS
    <3>3. \A x \in Reasons : With(<<x>>)' = With(<<x>>) + (IF x = e THEN 1 ELSE 0)
      BY <1>6, <2>1, <3>2
    <3>4. /\ With(<<"cancelled">>)' = With(<<"cancelled">>)
          /\ With(<<"blocked">>)' = With(<<"blocked">>) + (IF e = "blocked" THEN 1 ELSE 0)
          /\ With(<<"unselected">>)' = With(<<"unselected">>)
                                          + (IF e = "blocked" THEN 0 ELSE 1)
      BY <2>1, <3>3 DEF Reasons
    <3> QED
      BY <2>1, <3>1, <3>4
  <2>3. /\ With(<<"started", "succeeded">>)' = With(<<"started", "succeeded">>)
        /\ With(<<"started", "failed">>)' = With(<<"started", "failed">>)
    BY <1>6, TracesDiffer
  <2> QED
    BY <1>0, <1>3, <1>4, <1>5, <2>2, <2>3, TracesDiffer DEF CountInv
<1>8. LogInv'
  BY <1>0, <1>2, <1>3, <1>4, <1>5, LogKeeps, TracesDiffer
<1> QED
  BY <1>0, <1>3, <1>7, <1>8 DEF Ledger, EndInv, LateInv

\* The loop's row is settled: it is cancelled, or its call has returned.
LEMMA SettledLedger ==
  ASSUME IInv, Ledger, phase = "deleting", at \in Idx, NEW t \in Settlements,
         UNCHANGED <<phase, err, args, ordering, finished>>,
         events[out[at]] \in {<<>>, <<"started">>},
         events' = [events EXCEPT ![out[at]] = t], Write(out[at], Entry(t)),
         at' = at + 1, inCall' = FALSE, LateInv',
         succeeded' = succeeded + (IF t = <<"started", "succeeded">> THEN 1 ELSE 0),
         failed' = failed + (IF t = <<"started", "failed">> THEN 1 ELSE 0),
         skipped' = skipped + (IF t = <<"cancelled">> THEN 1 ELSE 0),
         t \notin {<<"unselected">>, <<"blocked">>}
  PROVE  Ledger'
<1> DEFINE r == out[at]
<1>0. TypeOK /\ LoopInv /\ OrderInv /\ ConsentInv /\ CountInv /\ LogInv /\ EndInv
  BY DEF IInv, Ledger
<1>1. /\ r \in Rows /\ r \in tray /\ UNCHANGED tray /\ events[r] # t
  BY <1>0, TracesDiffer DEF OrderInv, ConsentInv, args, TypeOK
<1>2. events'[r] = t /\ \A s \in Rows \ {r} : events'[s] = events[s]
  BY <1>0, <1>1 DEF TypeOK
<1>3. /\ With(t)' = With(t) + 1
      /\ \A v \in Settlements \ {t} : With(v)' = With(v)
  <2>1. \A v \in Settlements : v # events[r]
    BY TracesDiffer
  <2> QED
    BY <1>0, <1>1, <2>1, Tally
<1>4. \A v : With(v) \in Nat
  BY SubsetFinite DEF With
<1>5. /\ succeeded' = With(<<"started", "succeeded">>)'
      /\ failed' = With(<<"started", "failed">>)'
      /\ skipped' = With(<<"unselected">>)' + With(<<"blocked">>)'
                      + With(<<"cancelled">>)'
  <2>1. /\ succeeded = With(<<"started", "succeeded">>)
        /\ failed = With(<<"started", "failed">>)
        /\ skipped = With(<<"unselected">>) + With(<<"blocked">>)
                       + With(<<"cancelled">>)
    BY <1>0 DEF CountInv
  <2>2. \A v \in Settlements :
          With(v)' = IF v = t THEN With(v) + 1 ELSE With(v)
    BY <1>3
  <2>3. /\ With(<<"unselected">>)' = With(<<"unselected">>)
        /\ With(<<"blocked">>)' = With(<<"blocked">>)
    BY <2>2 DEF Settlements
  <2>4. With(<<"cancelled">>)' = With(<<"cancelled">>)
                                   + (IF t = <<"cancelled">> THEN 1 ELSE 0)
    BY <1>4, <2>2 DEF Settlements
  <2>5. With(<<"started", "succeeded">>)' = With(<<"started", "succeeded">>)
          + (IF t = <<"started", "succeeded">> THEN 1 ELSE 0)
    BY <1>4, <2>2 DEF Settlements
  <2>6. With(<<"started", "failed">>)' = With(<<"started", "failed">>)
          + (IF t = <<"started", "failed">> THEN 1 ELSE 0)
    BY <1>4, <2>2 DEF Settlements
  <2>7. \A a, b, c \in Nat : \A n \in {0, 1} : a + b + (c + n) = (a + b + c) + n
    OBVIOUS
  <2> QED
    BY <1>4, <2>1, <2>3, <2>4, <2>5, <2>6, <2>7, SMTT(30)
<1>6. \A s \in Rows : events'[s] # <<"started">>
  BY <1>0, <1>2, TracesDiffer DEF CountInv
<1>7. CountInv'
  BY <1>0, <1>1, <1>2, <1>5, <1>6 DEF CountInv
<1>8. LogInv'
  BY <1>0, <1>1, LogKeeps, TracesDiffer
<1>9. EndInv'
  BY <1>0, <1>1, NoneLeft, TracesDiffer DEF EndInv
<1> QED
  BY <1>7, <1>8, <1>9 DEF Ledger

LEMMA CancelRowLedger == IInv /\ Ledger /\ CancelRow => Ledger'
<1> SUFFICES ASSUME IInv, Ledger, CancelRow PROVE Ledger'
  OBVIOUS
<1>0. TypeOK /\ LoopInv /\ OrderInv /\ LateInv
  BY DEF IInv, Ledger
<1>1. at \in Idx /\ phase = "deleting" /\ ~inCall /\ out[at] \in Rows
  BY <1>0, LoopIndex DEF CancelRow, OrderInv, TypeOK
<1>2. events[out[at]] = <<>>
  BY <1>0, <1>1 DEF LoopInv
<1>3. /\ events' = [events EXCEPT ![out[at]] = <<"cancelled">>]
      /\ Write(out[at], Entry(<<"cancelled">>))
      /\ <<"cancelled">> \in Settlements
      /\ skipped' = skipped + 1 /\ UNCHANGED <<succeeded, failed, late>>
  <2>1. events' = [events EXCEPT ![out[at]] = Append(@, "cancelled")]
    BY DEF CancelRow, SkipRow
  <2>2. events' = [events EXCEPT ![out[at]] = <<"cancelled">>]
    BY <1>0, <1>1, <1>2, <2>1 DEF TypeOK
  <2> QED
    BY <2>2, Entries DEF CancelRow, SkipRow, Settlements, Reasons
<1>4. LateInv' /\ inCall' = FALSE
  BY <1>0, <1>1, <1>3 DEF LateInv, CancelRow
<1>5. {succeeded, failed, skipped} \subseteq Nat
  BY <1>0 DEF TypeOK
<1>6. /\ <<"cancelled">> \notin {<<"unselected">>, <<"blocked">>}
      /\ <<"cancelled">> # <<"started", "succeeded">>
      /\ <<"cancelled">> # <<"started", "failed">>
  BY TracesDiffer
<1>7. /\ succeeded' = succeeded + (IF <<"cancelled">> = <<"started", "succeeded">> THEN 1 ELSE 0)
      /\ failed' = failed + (IF <<"cancelled">> = <<"started", "failed">> THEN 1 ELSE 0)
      /\ skipped' = skipped + (IF <<"cancelled">> = <<"cancelled">> THEN 1 ELSE 0)
  BY <1>3, <1>5, <1>6
<1>8. /\ UNCHANGED <<phase, err, args, ordering, finished>>
      /\ at' = at + 1
  BY DEF CancelRow
<1> QED
  BY <1>1, <1>2, <1>3, <1>4, <1>6, <1>7, <1>8, SettledLedger

LEMMA StartRowLedger == IInv /\ Ledger /\ StartRow => Ledger'
<1> SUFFICES ASSUME IInv, Ledger, StartRow PROVE Ledger'
  OBVIOUS
<1> DEFINE r == out[at]
<1>0. /\ TypeOK /\ LoopInv /\ OrderInv /\ ConsentInv
      /\ CountInv /\ LogInv /\ EndInv /\ LateInv
  BY DEF IInv, Ledger
<1>1. /\ at \in Idx /\ phase = "deleting" /\ ~inCall /\ ~ctxDone
      /\ inCall' /\ r \in Rows /\ r \in tray
      /\ UNCHANGED <<phase, err, args, tray, out, at, ctxDone, succeeded, failed,
                     skipped, finished, log, late>>
  BY <1>0, LoopIndex
  DEF StartRow, OrderInv, ConsentInv, TypeOK, counts, args, ordering
<1>2. events[r] = <<>>
  BY <1>0, <1>1 DEF LoopInv
<1>3. /\ events' = [events EXCEPT ![r] = <<"started">>]
      /\ events'[r] = <<"started">> /\ \A s \in Rows \ {r} : events'[s] = events[s]
  <2>1. /\ events \in [Rows -> Seq({"started", "succeeded", "failed"} \cup Reasons)]
        /\ events' = [events EXCEPT ![r] = Append(@, "started")]
    BY <1>0 DEF StartRow, TypeOK
  <2>2. Append(<<>>, "started") = <<"started">>
    OBVIOUS
  <2> QED
    BY <1>1, <1>2, <2>1, <2>2
<1>4. \A v \in Settlements : With(v)' = With(v)
  BY <1>0, <1>1, <1>2, <1>3, Tally, TracesDiffer
<1>5. CountInv'
  BY <1>0, <1>1, <1>3, <1>4, TracesDiffer DEF CountInv, Settlements
<1>6. LogInv' /\ LateInv'
  BY <1>0, <1>1, <1>2, <1>3, TracesDiffer DEF LogInv, LateInv
<1>7. EndInv'
  BY <1>0, <1>1, <1>3, NoneLeft, TracesDiffer DEF EndInv
<1> QED
  BY <1>5, <1>6, <1>7 DEF Ledger

LEMMA DeleteRowLedger == IInv /\ Ledger /\ DeleteRow => Ledger'
<1> SUFFICES ASSUME IInv, Ledger, DeleteRow PROVE Ledger'
  OBVIOUS
<1>0. TypeOK /\ LoopInv /\ OrderInv /\ CountInv /\ LateInv
  BY DEF IInv, Ledger
<1>1. /\ at \in Idx /\ phase = "deleting" /\ inCall /\ out[at] \in Rows
      /\ {succeeded, failed, skipped} \subseteq Nat
  BY <1>0 DEF DeleteRow, LoopInv, OrderInv, TypeOK, Idx
<1>2. events[out[at]] = <<"started">>
  BY <1>0, <1>1 DEF CountInv
<1>3. PICK e \in {"succeeded", "failed"} :
        /\ events' = [events EXCEPT ![out[at]] = Append(@, e)]
        /\ Write(out[at], IF e = "succeeded" THEN "deleted" ELSE "failed")
        /\ succeeded' = succeeded + (IF e = "succeeded" THEN 1 ELSE 0)
        /\ failed' = failed + (IF e = "failed" THEN 1 ELSE 0)
  BY <1>1 DEF DeleteRow
<1>4. events' = [events EXCEPT ![out[at]] = <<"started", e>>]
  <2>1. events \in [Rows -> Seq({"started", "succeeded", "failed"} \cup Reasons)]
    BY <1>0 DEF TypeOK
  <2>2. Append(<<"started">>, e) = <<"started", e>>
    BY SecondEvent
  <2> QED
    BY <1>1, <1>2, <1>3, <2>1, <2>2
<1>5. /\ <<"started", e>> \in Settlements
      /\ Entry(<<"started", e>>) = IF e = "succeeded" THEN "deleted" ELSE "failed"
  BY Entries DEF Settlements
<1>6. LateInv' /\ inCall' = FALSE
  BY <1>0, <1>1 DEF LateInv, DeleteRow
<1>7. /\ <<"started", e>> \notin {<<"unselected">>, <<"blocked">>, <<"cancelled">>}
      /\ <<"started", e>> = <<"started", "succeeded">> <=> e = "succeeded"
      /\ <<"started", e>> = <<"started", "failed">> <=> e = "failed"
  BY TracesDiffer
<1>8. /\ UNCHANGED <<phase, err, args, ordering, finished, skipped>>
      /\ at' = at + 1
  BY DEF DeleteRow
<1>9. /\ succeeded' = succeeded
           + (IF <<"started", e>> = <<"started", "succeeded">> THEN 1 ELSE 0)
      /\ failed' = failed
           + (IF <<"started", e>> = <<"started", "failed">> THEN 1 ELSE 0)
      /\ skipped' = skipped + (IF <<"started", e>> = <<"cancelled">> THEN 1 ELSE 0)
  BY <1>1, <1>3, <1>7, <1>8
<1>10. Write(out[at], Entry(<<"started", e>>))
  BY <1>3, <1>5
<1> QED
  BY <1>1, <1>2, <1>4, <1>5, <1>6, <1>7, <1>8, <1>9, <1>10, SettledLedger

\* When the loop has run off the order's end, each row of the tray is settled.
LEMMA AllSettled ==
  ASSUME IInv, Ledger, phase = "deleting", at > Len(out), NEW r \in tray
  PROVE  events[r] \in Settlements
<1>0. TypeOK /\ LoopInv /\ CountInv /\ EndInv
  BY DEF IInv, Ledger
<1>1. ~inCall /\ r \in Rows
  BY <1>0 DEF LoopInv, TypeOK
<1>2. CASE r \in selected
  <2>1. PICK i \in Idx : out[i] = r
    BY <1>0, <1>2 DEF LoopInv, Emitted
  <2>2. i < at
    BY <1>0, <2>1, LoopIndex DEF Idx
  <2>3. events[r] # <<>>
    BY <1>0, <2>1, <2>2 DEF LoopInv, Settled
  <2> QED
    BY <1>0, <1>1, <2>3 DEF CountInv
<1>3. CASE r \notin selected
  <2>1. events[r] # <<>>
    BY <1>0, <1>3 DEF EndInv, Unselected
  <2> QED
    BY <1>0, <1>1, <2>1 DEF CountInv
<1> QED
  BY <1>2, <1>3

LEMMA NextLedger == IInv /\ Ledger /\ [Next]_vars => Ledger'
<1> SUFFICES ASSUME IInv, Ledger, [Next]_vars PROVE Ledger'
  OBVIOUS
<1>0. TypeOK /\ LoopInv /\ EndInv
  BY DEF IInv, Ledger
<1>1. CASE Call
  <2>1. /\ phase = "idle" /\ ~inCall /\ \A r \in Rows : events[r] = <<>>
        /\ UNCHANGED <<effects, ctxDone>>
    BY <1>0, <1>1 DEF Call, LoopInv
  <2>2. phase' = "ordering" \/ (phase' = "returned" /\ err' # "none")
    BY <1>1 DEF Call, Accept
  <2>3. EndInv'
    BY <2>2 DEF EndInv
  <2> QED
    BY <2>1, <2>3, QuietLedger DEF Ledger
<1>2. CASE Emit
  <2>1. phase = "ordering" /\ ~inCall /\ UNCHANGED <<phase, args, effects, ctxDone>>
    BY <1>0, <1>2 DEF Emit, LoopInv
  <2> QED
    BY <2>1, QuietLedger DEF Ledger, EndInv
<1>3. CASE Ordered
  <2>1. /\ phase' = "skipping" \/ (phase' = "returned" /\ err' = "cyclic")
        /\ UNCHANGED <<args, ordering, effects, ctxDone>>
    BY <1>3 DEF Ordered
  <2> QED
    BY <2>1, QuietLedger DEF Ledger, EndInv, ordering
<1>4. CASE StartDeleting
  <2>1. /\ phase' = "deleting" /\ Unselected = {}
        /\ UNCHANGED <<args, ordering, effects, ctxDone, tray, selected, events>>
    BY <1>4 DEF StartDeleting, args, effects
  <2> QED
    BY <2>1, QuietLedger DEF Ledger, EndInv, ordering, Unselected
<1>5. CASE Finish
  <2>1. /\ phase = "deleting" /\ at > Len(out) /\ phase' = "returned"
        /\ finished' = <<Cardinality(tray), succeeded, failed, skipped>>
        /\ UNCHANGED <<args, ordering, effects, ctxDone, tray, events>>
        /\ UNCHANGED <<succeeded, failed, skipped>>
    BY <1>5 DEF Finish, args, effects, counts
  <2>2. \A r \in tray : events[r] \in Settlements
    BY <2>1, AllSettled
  <2>3. EndInv'
    BY <2>1, <2>2 DEF EndInv
  <2> QED
    BY <2>1, <2>3, QuietLedger DEF Ledger, ordering
<1>6. CASE Cancel \/ UNCHANGED vars
  <2>1. /\ ctxDone => ctxDone'
        /\ UNCHANGED <<phase, err, args, ordering, effects, finished, tray, selected>>
        /\ UNCHANGED <<events, succeeded, failed, skipped>>
    BY <1>6 DEF Cancel, vars, args, effects, counts
  <2>2. EndInv'
    BY <1>0, <2>1 DEF EndInv, Unselected
  <2> QED
    BY <2>1, <2>2, QuietLedger DEF Ledger, ordering
<1> QED
  BY <1>1, <1>2, <1>3, <1>4, <1>5, <1>6, SkipUnselectedLedger, CancelRowLedger,
     StartRowLedger, DeleteRowLedger DEF Next, Step, Returned

THEOREM LedgerHolds == Spec => []Ledger
BY InitHolds, NextKeeps, InitLedger, NextLedger, PTL DEF Spec

\* Once the context is done at most one more Delete* call goes out, whatever
\* the batch: only the call whose DeleteStarted was already published.
THEOREM CancelLeavesOneCall == Spec => []CancelStopsBatch
<1>1. Ledger => CancelStopsBatch
  BY DEF Ledger, LateInv, CancelStopsBatch
<1> QED
  BY <1>1, LedgerHolds, PTL

\* Disjoint sets of rows add up.
LEMMA Disjoint ==
  ASSUME NEW S \in SUBSET Rows, NEW T \in SUBSET Rows, S \cap T = {}
  PROVE  Cardinality(S \cup T) = Cardinality(S) + Cardinality(T)
<1>1. IsFiniteSet(S) /\ IsFiniteSet(T)
  BY SubsetFinite
<1>2. Cardinality(S \cup T) = Cardinality(S) + Cardinality(T) - Cardinality(S \cap T)
  BY <1>1, FS_Union
<1>3. Cardinality({}) = 0 /\ Cardinality(S) \in Nat /\ Cardinality(T) \in Nat
  BY SubsetFinite, FS_EmptySet
<1>4. Cardinality(S \cap T) = 0
  BY <1>3
<1> QED
  BY <1>2, <1>3, <1>4

\* BatchFinished's counts are those of the events published and add up to the
\* rows announced, for any batch, any order, and any call that fails.
THEOREM CountsReconcile == Spec => []BatchReconciles
<1>1. ASSUME IInv, Ledger, phase = "returned", err = "none"
      PROVE  BatchReconciles
  <2> DEFINE Of(v) == {r \in Rows : events[r] = v}
  <2>0. TypeOK /\ CountInv /\ LogInv /\ EndInv
    BY <1>1 DEF IInv, Ledger
  <2>1. /\ finished = <<Cardinality(tray), succeeded, failed, skipped>>
        /\ \A r \in tray : events[r] \in Settlements
    BY <1>1, <2>0 DEF EndInv
  <2>2. {r \in Rows : events[r] # <<>>} = tray
    BY <2>0, <2>1, TracesDiffer DEF CountInv, TypeOK
  <2>3. tray = Of(<<"started", "succeeded">>)
                 \cup (Of(<<"started", "failed">>)
                 \cup (Of(<<"unselected">>) \cup (Of(<<"blocked">>)
                 \cup Of(<<"cancelled">>))))
    <3>1. \A r \in tray : r \in Rows
      BY <2>0 DEF TypeOK
    <3>2. \A t \in Settlements : Of(t) \subseteq tray
      BY <2>0, TracesDiffer DEF CountInv
    <3> QED
      BY <2>1, <3>1, <3>2 DEF Settlements
  <2>4. Cardinality(tray) = With(<<"started", "succeeded">>)
            + (With(<<"started", "failed">>) + (With(<<"unselected">>)
            + (With(<<"blocked">>) + With(<<"cancelled">>))))
    <3>1. \A t : Of(t) \in SUBSET Rows
      OBVIOUS
    <3>2. \A s, t : s # t => Of(s) \cap Of(t) = {}
      OBVIOUS
    <3>3. \A t : With(t) = Cardinality(Of(t))
      BY DEF With
    <3> HIDE DEF Of
    <3> DEFINE bc == Of(<<"blocked">>) \cup Of(<<"cancelled">>)
               ubc == Of(<<"unselected">>) \cup bc
               fubc == Of(<<"started", "failed">>) \cup ubc
    <3>4. Cardinality(bc) = With(<<"blocked">>) + With(<<"cancelled">>)
      BY <3>1, <3>2, <3>3, Disjoint, TracesDiffer
    <3>5. Cardinality(ubc) = With(<<"unselected">>) + Cardinality(bc)
      <4>1. Of(<<"unselected">>) \cap bc = {} /\ bc \in SUBSET Rows
        BY <3>1, <3>2, TracesDiffer
      <4> HIDE DEF bc
      <4> QED
        BY <4>1, <3>1, <3>3, Disjoint
    <3>6. Cardinality(fubc) = With(<<"started", "failed">>) + Cardinality(ubc)
      <4>1. Of(<<"started", "failed">>) \cap ubc = {} /\ ubc \in SUBSET Rows
        BY <3>1, <3>2, TracesDiffer
      <4> HIDE DEF ubc
      <4> QED
        BY <4>1, <3>1, <3>3, Disjoint
    <3>7. Cardinality(tray) = With(<<"started", "succeeded">>) + Cardinality(fubc)
      <4>1. /\ Of(<<"started", "succeeded">>) \cap fubc = {} /\ fubc \in SUBSET Rows
            /\ tray = Of(<<"started", "succeeded">>) \cup fubc
        BY <2>3, <3>1, <3>2, TracesDiffer
      <4> HIDE DEF fubc
      <4> QED
        BY <4>1, <3>1, <3>3, Disjoint
    <3> QED
      BY <3>4, <3>5, <3>6, <3>7
  <2>5. \A t : With(t) \in Nat
    BY SubsetFinite DEF With
  <2>6. finished[1] = finished[2] + finished[3] + finished[4]
    BY <2>0, <2>1, <2>4, <2>5 DEF CountInv
  <2>7. \A r \in tray : log[r] \in {<<>>, <<Entry(events[r])>>}
    BY <2>0 DEF LogInv, TypeOK
  <2> QED
    BY <2>0, <2>1, <2>2, <2>6, <2>7 DEF BatchReconciles, CountInv, Entry
<1>2. IInv /\ Ledger => BatchReconciles
  BY <1>1 DEF BatchReconciles
<1> QED
  BY <1>2, Invariance, LedgerHolds, PTL

=============================================================================
