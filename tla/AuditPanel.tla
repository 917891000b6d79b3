------------------------------ MODULE AuditPanel ------------------------------
(***************************************************************************)
(* The audit panel of tui/audit.go over the staging tray: scans and        *)
(* deletion batches run as commands of their own, and report by a message  *)
(* that app.go hands to whichever panel is open.  One action is one Update *)
(* or one step of a batch's goroutine.                                     *)
(*                                                                         *)
(* What Execute does with a batch is DeleteExecutor's subject; here it is  *)
(* the set of rows still to delete, all of them selected.                  *)
(***************************************************************************)
EXTENDS StagingTray

CONSTANTS
  Batches,     \* the batches the user may start
  MaxPanels,   \* bound: how often the panel is opened
  MaxLeaving,  \* bound: leaveAuditMsgs on their way at once
  MaxScans     \* bound: scans started

ASSUME PanelAssumption == {MaxPanels, MaxLeaving, MaxScans} \subseteq Nat \ {0}

VARIABLES
  mode,      \* app.mode: "down" while the program does not run
  opened,    \* panels opened so far
  leaving,   \* leaveAuditMsgs on their way
  scans,     \* scans in flight
  started,   \* scans started so far
  scanning,  \* auditModel.scanning
  snapshot,  \* auditModel.snapshot: the resources it lists, Missing for nil
  cursor,    \* auditModel.cursor
  confirm,   \* the typed-DELETE modal is up
  typed,     \* confirmBuf is ConfirmWord
  batch,     \* where each batch's goroutine is
  shown,     \* history: the tray on screen when Enter started the batch
  known,     \* history: the last row ID given out by then
  listed,    \* rows the batch read from the file
  todo,      \* rows it has still to call Delete* for
  logOpen,   \* OpenLog succeeded for it
  deleted,   \* rows whose Delete* succeeded
  failed,    \* rows whose Delete* returned an error
  report,    \* the counts and error of its auditDeleteDoneMsg
  left       \* history: its panel was left or the program went down

panelVars == <<scanning, snapshot, cursor, confirm, typed>>
batchVars == <<batch, shown, known, listed, todo, logOpen, deleted, failed,
               report, left>>
scanVars == <<scans, started>>
screenVars == <<mode, opened, leaving>>
vars == <<trayVars, screenVars, scanVars, panelVars, batchVars>>

Report == [err : BOOLEAN, deleted : Nat, failed : Nat]
NoReport == [err |-> FALSE, deleted |-> 0, failed |-> 0]

TypeOK ==
  /\ TrayTypeOK
  /\ mode \in {"launcher", "audit", "down"}
  /\ opened \in 0..MaxPanels
  /\ leaving \in 0..MaxLeaving
  /\ started \in 0..MaxScans
  /\ scans \in 0..started
  /\ scanning \in BOOLEAN
  /\ snapshot = Missing \/ snapshot \in SUBSET Resources
  /\ cursor \in 0..Cardinality(Resources)
  /\ confirm \in BOOLEAN
  /\ typed \in BOOLEAN
  /\ batch \in [Batches -> {"none", "started", "listed", "running", "refused",
                            "done", "reported", "dropped", "dead"}]
  /\ {shown, listed, todo, deleted, failed} \subseteq [Batches -> SUBSET Row]
  /\ known \in [Batches -> 0..MaxIds]
  /\ logOpen \in [Batches -> BOOLEAN]
  /\ report \in [Batches -> Report]
  /\ left \in [Batches -> BOOLEAN]
  /\ \A b \in Batches : deleted[b] \cap failed[b] = {}

\* newAuditModel
FreshPanel ==
  /\ scanning' = TRUE
  /\ snapshot' = Missing
  /\ cursor' = 0
  /\ confirm' = FALSE
  /\ typed' = FALSE

Init ==
  /\ TrayInit
  /\ mode = "launcher"
  /\ opened = 0
  /\ leaving = 0
  /\ scans = 0
  /\ started = 0
  /\ scanning = FALSE
  /\ snapshot = Missing
  /\ cursor = 0
  /\ confirm = FALSE
  /\ typed = FALSE
  /\ batch = [b \in Batches |-> "none"]
  /\ shown = [b \in Batches |-> {}]
  /\ known = [b \in Batches |-> 0]
  /\ listed = [b \in Batches |-> {}]
  /\ todo = [b \in Batches |-> {}]
  /\ logOpen = [b \in Batches |-> FALSE]
  /\ deleted = [b \in Batches |-> {}]
  /\ failed = [b \in Batches |-> {}]
  /\ report = [b \in Batches |-> NoReport]
  /\ left = [b \in Batches |-> FALSE]

InFlight(b) == batch[b] \in {"started", "listed", "running", "refused", "done"}

\* The user is on another screen, or nowhere.
Left == left' = [b \in Batches |-> left[b] \/ InFlight(b)]

-----------------------------------------------------------------------------
\* Update runs between two flushes; app.go routes keys and results to the
\* panel in mode audit only.
Updating == mode # "down" /\ flush = "idle"
InPanel == mode = "audit" /\ flush = "idle"
Browsing == InPanel /\ ~confirm

\* The palette picks /audit: a new panel, its tray unopened, its scan started.
OpenPanel ==
  /\ mode = "launcher"
  /\ opened < MaxPanels
  /\ started < MaxScans
  /\ mode' = "audit"
  /\ opened' = opened + 1
  /\ FreshPanel
  /\ scans' = scans + 1
  /\ started' = started + 1
  /\ open' = FALSE
  /\ rows' = {}
  /\ UNCHANGED <<leaving, file, tmp, saved, flush, nextId, batchVars>>

KeyEsc ==
  /\ Browsing
  /\ leaving < MaxLeaving
  /\ leaving' = leaving + 1
  /\ UNCHANGED <<mode, opened, trayVars, scanVars, panelVars, batchVars>>

DeliverLeave ==
  /\ Updating
  /\ leaving > 0
  /\ leaving' = leaving - 1
  /\ mode' = "launcher"
  /\ Left
  /\ UNCHANGED <<opened, trayVars, scanVars, panelVars, batch, shown, known,
                 listed, todo, logOpen, deleted, failed, report>>

KeyRefresh ==
  /\ Browsing
  /\ ~scanning
  /\ started < MaxScans
  /\ scanning' = TRUE
  /\ scans' = scans + 1
  /\ started' = started + 1
  /\ UNCHANGED <<screenVars, trayVars, snapshot, cursor, confirm, typed,
                 batchVars>>

\* auditDoneMsg: an error keeps the old snapshot, and no snapshot moves the
\* cursor. The panel it reaches need not be the one that asked.
DeliverScan ==
  /\ Updating
  /\ scans > 0
  /\ scans' = scans - 1
  /\ \/ /\ mode = "audit"
        /\ scanning' = FALSE
        /\ \/ UNCHANGED <<snapshot, trayVars>>
           \/ snapshot' \in SUBSET Resources /\ OpenTray
     \/ mode # "audit" /\ UNCHANGED <<scanning, snapshot, trayVars>>
  /\ UNCHANGED <<screenVars, started, cursor, confirm, typed, batchVars>>

KeyMove ==
  /\ Browsing
  /\ \/ cursor > 0 /\ cursor' = cursor - 1
     \/ /\ snapshot # Missing
        /\ cursor < Cardinality(snapshot) - 1
        /\ cursor' = cursor + 1
  /\ UNCHANGED <<screenVars, trayVars, scanVars, scanning, snapshot, confirm,
                 typed, batchVars>>

Die ==
  /\ mode' = "down"
  /\ leaving' = 0
  /\ scans' = 0
  /\ scanning' = FALSE
  /\ snapshot' = Missing
  /\ cursor' = 0
  /\ confirm' = FALSE
  /\ typed' = FALSE
  /\ batch' = [b \in Batches |-> IF InFlight(b) THEN "dead" ELSE batch[b]]
  /\ Left
  /\ UNCHANGED <<opened, started, shown, known>>

\* handleAddToTray: the row under the cursor, unless its kind cannot be deleted,
\* or a panic past the last one. A tray that is not open yet is opened first.
KeyStage ==
  /\ Browsing
  /\ snapshot \notin {Missing, {}}
  /\ IF cursor < Cardinality(snapshot)
     THEN /\ open \/ file # Torn
          /\ open' = TRUE
          /\ LET held == IF open THEN rows ELSE file IN
               \/ \E res \in snapshot : Add(held, res)
               \/ rows' = held /\ UNCHANGED <<file, tmp, saved, flush, nextId>>
          /\ UNCHANGED <<screenVars, scanVars, panelVars, batchVars>>
     ELSE /\ Die /\ TrayDies
          /\ UNCHANGED <<listed, todo, logOpen, deleted, failed, report>>

KeyClear ==
  /\ Browsing
  /\ open
  /\ Clear
  /\ UNCHANGED <<open, screenVars, scanVars, panelVars, batchVars>>

KeyDelete ==
  /\ Browsing
  /\ open
  /\ rows # {}
  /\ confirm' = TRUE
  /\ typed' = FALSE
  /\ UNCHANGED <<screenVars, trayVars, scanVars, scanning, snapshot, cursor,
                 batchVars>>

\* handleConfirmKey: letters and backspace make and unmake the word.
KeyType ==
  /\ InPanel
  /\ confirm
  /\ typed' = ~typed
  /\ UNCHANGED <<screenVars, trayVars, scanVars, scanning, snapshot, cursor,
                 confirm, batchVars>>

KeyCancel ==
  /\ InPanel
  /\ confirm
  /\ confirm' = FALSE
  /\ typed' = FALSE
  /\ UNCHANGED <<screenVars, trayVars, scanVars, scanning, snapshot, cursor,
                 batchVars>>

\* Enter starts the batch's command; the modal stays as it is.
KeyEnter ==
  /\ InPanel
  /\ confirm
  /\ typed
  /\ \E b \in Batches :
       /\ batch[b] = "none"
       /\ batch' = [batch EXCEPT ![b] = "started"]
       /\ shown' = [shown EXCEPT ![b] = rows]
       /\ known' = [known EXCEPT ![b] = nextId - 1]
  /\ UNCHANGED <<screenVars, trayVars, scanVars, panelVars, listed, todo,
                 logOpen, deleted, failed, report, left>>

-----------------------------------------------------------------------------
outside == <<trayVars, screenVars, scanVars, panelVars, shown, known, left>>

\* executeBatchCmd opens the tray anew and selects every row it lists.
BatchOpen(b) ==
  /\ batch[b] = "started"
  /\ \/ /\ file # Torn
        /\ listed' = [listed EXCEPT ![b] = file]
        /\ batch' = [batch EXCEPT ![b] = "listed"]
        /\ UNCHANGED report
     \/ /\ batch' = [batch EXCEPT ![b] = "done"]
        /\ report' = [report EXCEPT ![b].err = TRUE]
        /\ UNCHANGED listed
  /\ UNCHANGED <<outside, todo, logOpen, deleted, failed>>

\* The AWS clients fail; or a probe blocks a row and Execute refuses the
\* whole batch; or the calls begin, with an audit log or without.
BatchConnect(b) ==
  /\ batch[b] = "listed"
  /\ \/ /\ batch' = [batch EXCEPT ![b] = "done"]
        /\ report' = [report EXCEPT ![b].err = TRUE]
        /\ UNCHANGED <<todo, logOpen>>
     \/ /\ listed[b] # {}
        /\ batch' = [batch EXCEPT ![b] = "refused"]
        /\ UNCHANGED <<report, todo, logOpen>>
     \/ \E opens \in BOOLEAN :
          /\ batch' = [batch EXCEPT ![b] = "running"]
          /\ todo' = [todo EXCEPT ![b] = listed[b]]
          /\ logOpen' = [logOpen EXCEPT ![b] = opens]
          /\ UNCHANGED report
  /\ UNCHANGED <<outside, listed, deleted, failed>>

\* One row of Execute's loop. Without a log, Executor.Log holds a nil *FileLog
\* that is not a nil LogWriter: Write locks its mutex and panics.
BatchDelete(b) ==
  /\ batch[b] = "running"
  /\ \E r \in todo[b] :
       /\ todo' = [todo EXCEPT ![b] = @ \ {r}]
       /\ \/ deleted' = [deleted EXCEPT ![b] = @ \cup {r}] /\ UNCHANGED failed
          \/ failed' = [failed EXCEPT ![b] = @ \cup {r}] /\ UNCHANGED deleted
  /\ \/ logOpen[b] /\ UNCHANGED <<outside, batch>>
     \/ ~logOpen[b] /\ Die /\ TrayDies
  /\ UNCHANGED <<listed, logOpen, report>>

\* The five minutes are over: the rows left are skipped.
BatchTimeout(b) ==
  /\ batch[b] = "running"
  /\ todo[b] # {}
  /\ logOpen[b]
  /\ todo' = [todo EXCEPT ![b] = {}]
  /\ UNCHANGED <<outside, batch, listed, logOpen, deleted, failed, report>>

\* A row counts as failed when a second look at the tray still finds it.
BatchCount(b) ==
  /\ batch[b] = "refused" \/ (batch[b] = "running" /\ todo[b] = {})
  /\ batch' = [batch EXCEPT ![b] = "done"]
  /\ \/ /\ file # Torn
        /\ LET present == {r \in listed[b] : \E s \in file : s.id = r.id}
           IN report' = [report EXCEPT ![b] =
                [err |-> batch[b] = "refused",
                 deleted |-> Cardinality(listed[b] \ present),
                 failed |-> Cardinality(present)]]
     \/ report' = [report EXCEPT ![b].err = (batch[b] = "refused")]
  /\ UNCHANGED <<outside, listed, todo, logOpen, deleted, failed>>

\* MUTANT of DeliverBatch: only the modal takes the message.
DeliverBatchToModal(b) ==
  /\ Updating
  /\ batch[b] = "done"
  /\ mode = "audit" /\ confirm
  /\ batch' = [batch EXCEPT ![b] = "reported"]
  /\ confirm' = FALSE
  /\ typed' = FALSE
  /\ OpenTray
  /\ UNCHANGED <<screenVars, scanVars, scanning, snapshot, cursor, shown, known,
                 listed, todo, logOpen, deleted, failed, report, left>>

\* auditDeleteDoneMsg closes whatever modal the open panel has.
DeliverBatch(b) ==
  /\ Updating
  /\ batch[b] = "done"
  /\ \/ /\ mode = "audit"
        /\ batch' = [batch EXCEPT ![b] = "reported"]
        /\ confirm' = FALSE
        /\ typed' = FALSE
        /\ OpenTray
     \/ /\ mode # "audit"
        /\ batch' = [batch EXCEPT ![b] = "dropped"]
        /\ UNCHANGED <<confirm, typed, trayVars>>
  /\ UNCHANGED <<screenVars, scanVars, scanning, snapshot, cursor, shown, known,
                 listed, todo, logOpen, deleted, failed, report, left>>

BatchStep(b) ==
  BatchOpen(b) \/ BatchConnect(b) \/ BatchDelete(b) \/ BatchCount(b)

\* The program quits or is killed, and is started again.
Quit ==
  /\ mode # "down"
  /\ Die /\ TrayDies
  /\ UNCHANGED <<listed, todo, logOpen, deleted, failed, report>>

Restart ==
  /\ mode = "down"
  /\ mode' = "launcher"
  /\ UNCHANGED <<opened, leaving, trayVars, scanVars, panelVars, batchVars>>

Flush ==
  /\ Written \/ Renamed \/ FlushFails
  /\ UNCHANGED <<screenVars, scanVars, panelVars, batchVars>>

Key == \/ OpenPanel \/ KeyEsc \/ KeyRefresh \/ KeyMove \/ KeyStage \/ KeyClear
       \/ KeyDelete \/ KeyType \/ KeyCancel \/ KeyEnter

Next ==
  \/ Key \/ DeliverLeave \/ DeliverScan \/ Flush \/ Quit \/ Restart
  \/ \E b \in Batches : BatchStep(b) \/ BatchTimeout(b) \/ DeliverBatch(b)

Spec == Init /\ [][Next]_vars

\* Update returns and every AWS call of a batch has a deadline. A command's
\* message waits on Bubble Tea's channel, which serves blocked senders in their
\* order: busy as Update may be, it gets there. No key is ever fair.
FairSpec ==
  /\ Spec
  /\ WF_vars(Flush)
  /\ \A b \in Batches : WF_vars(BatchStep(b)) /\ SF_vars(DeliverBatch(b))

-----------------------------------------------------------------------------
\* A row staged before the Enter that started a batch is in the batch only if
\* it was on the tray then: what the user cleared stays cleared.
ClearedStaysCleared ==
  \A b \in Batches : \A r \in listed[b] : r.id <= known[b] => r \in shown[b]

\* A batch whose user stays in the panel is reported to him. (executeBatchCmd
\* always returns a message; app.go drops it when the panel is closed.)
PatientBatchIsReported ==
  \A b \in Batches : batch[b] = "started" ~> batch[b] = "reported" \/ left[b]

\* The totals the panel shows are the outcome of the calls: audit.go says the
\* command "reports the totals via auditDeleteDoneMsg".
ReportIsTrue ==
  \A b \in Batches :
    batch[b] = "reported" /\ ~report[b].err =>
      /\ report[b].deleted = Cardinality(deleted[b])
      /\ report[b].failed = Cardinality(failed[b])
================================================================================
