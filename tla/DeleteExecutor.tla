---------------------------- MODULE DeleteExecutor ----------------------------
(***************************************************************************)
(* One call of Executor.Execute (internal/audit/delete): the typed-DELETE  *)
(* preflight of Batch.Validate, Kahn's algorithm of Order, and the loop    *)
(* that issues one AWS Delete* per row, publishes its events and appends   *)
(* to deletions.jsonl, while its context may be cancelled at any moment.   *)
(*                                                                         *)
(* A Row's (Kind, Identifier) is its Rank; a row is its own ID.            *)
(***************************************************************************)
EXTENDS Integers, Sequences, FiniteSets, Functions

CONSTANTS
  Rows,      \* rows a caller may pass, and IDs DependsOn may name
  Rank,      \* where (Kind, Identifier) sorts
  MaxEdges   \* bound: DependsOn entries in one batch

ASSUME ConstantsAssumption ==
  /\ IsFiniteSet(Rows)
  /\ Rank \in [Rows -> Nat]
  /\ MaxEdges \in Nat

VARIABLES
  phase,      \* where Execute is
  err,        \* the error it returned
  tray,       \* argument tray
  dependsOn,  \* Row.DependsOn of each row
  blocked,    \* argument deps: rows the probe found blocked
  selected,   \* argument batch: rows whose box is checked
  indeg,      \* Order: in-batch dependencies not yet emitted
  ready,      \* Order: rows free of them
  out,        \* Order: rows emitted; the order of the calls
  at,         \* index of the loop over out
  inCall,     \* DeleteStarted is published, DeleteResource not yet called
  ctxDone,    \* the context is done
  cancelled,  \* Execute saw that it is
  succeeded, failed, skipped,
  finished,   \* the counts of BatchFinished, <<>> before it
  events,     \* events published for each row
  log,        \* outcomes logged for each row
  late        \* history: calls issued after the context was done

args == <<tray, dependsOn, blocked, selected>>
ordering == <<indeg, ready, out>>
counts == <<succeeded, failed, skipped>>
effects == <<at, inCall, cancelled, counts, events, log, late>>
vars == <<phase, err, args, ordering, effects, ctxDone, finished>>

Errors == {"none", "no_clients", "not_confirmed", "unknown_row",
           "blocked_row", "cyclic"}
Reasons == {"unselected", "blocked", "cancelled"}
Outcomes == {"deleted", "failed", "skipped"}

TypeOK ==
  /\ phase \in {"idle", "ordering", "skipping", "deleting", "returned"}
  /\ err \in Errors
  /\ tray \in SUBSET Rows
  /\ dependsOn \in [Rows -> SUBSET Rows]
  /\ blocked \in SUBSET Rows
  /\ selected \in SUBSET Rows
  /\ indeg \in [Rows -> Nat]
  /\ ready \in SUBSET Rows
  /\ out \in Seq(Rows)
  /\ at \in 1..Len(out) + 1
  /\ inCall \in BOOLEAN
  /\ ctxDone \in BOOLEAN
  /\ cancelled \in BOOLEAN
  /\ {succeeded, failed, skipped, late} \subseteq Nat
  /\ finished \in Seq(Nat)
  /\ events \in [Rows -> Seq({"started", "succeeded", "failed"} \cup Reasons)]
  /\ log \in [Rows -> Seq(Outcomes)]

\* DependsOn names rows of the tray; nothing checks that they are OTHER rows.
Dependencies ==
  LET Edges(g) == {e \in Rows \X Rows : e[2] \in g[e[1]]}
  IN {g \in [Rows -> SUBSET Rows] : Cardinality(Edges(g)) <= MaxEdges}

Init ==
  /\ phase = "idle"
  /\ err = "none"
  /\ tray = {}
  /\ dependsOn = [r \in Rows |-> {}]
  /\ blocked = {}
  /\ selected = {}
  /\ indeg = [r \in Rows |-> 0]
  /\ ready = {}
  /\ out = <<>>
  /\ at = 1
  /\ inCall = FALSE
  /\ ctxDone = FALSE
  /\ cancelled = FALSE
  /\ succeeded = 0
  /\ failed = 0
  /\ skipped = 0
  /\ finished = <<>>
  /\ events = [r \in Rows |-> <<>>]
  /\ log = [r \in Rows |-> <<>>]
  /\ late = 0

-----------------------------------------------------------------------------
\* Batch.Validate; decided are the rows its Decisions name.
Refusal(typed, rows, decided, sel, blk) ==
  IF ~typed THEN "not_confirmed"
  ELSE IF ~(decided \subseteq rows) THEN "unknown_row"
  ELSE IF sel \cap blk # {} THEN "blocked_row"
  ELSE "none"

\* Predecessors of r that are in the batch, and a batch Order does not look at.
InBatch(r) == dependsOn[r] \cap selected
Single == \A r, s \in selected : r = s

\* The preflight passed: Order counts predecessors and collects the rows that
\* have none. It returns a batch of at most one row as it is.
Accept(rows, g, blk, sel) ==
  /\ phase' = "ordering"
  /\ tray' = rows
  /\ dependsOn' = g
  /\ blocked' = blk
  /\ selected' = sel
  /\ indeg' = [r \in Rows |-> Cardinality(g[r] \cap sel)]
  /\ IF Single'
     THEN /\ ready' = {}
          /\ out' = IF sel = {} THEN <<>> ELSE <<CHOOSE r \in sel : TRUE>>
     ELSE /\ ready' = {r \in sel : indeg'[r] = 0}
          /\ out' = <<>>

\* Execute up to the loop of Order.
Call ==
  /\ phase = "idle"
  /\ \E clients, typed \in BOOLEAN, rows, blk, decided, sel \in SUBSET Rows,
        g \in Dependencies :
       /\ sel \subseteq decided
       /\ err' = IF clients THEN Refusal(typed, rows, decided, sel, blk)
                            ELSE "no_clients"
       /\ IF err' = "none" THEN Accept(rows, g, blk, sel)
          ELSE phase' = "returned" /\ UNCHANGED <<args, ordering>>
  /\ UNCHANGED <<effects, ctxDone, finished>>

\* MUTANT of Release: a row is ready as soon as one dependency is emitted.
ReleaseEarly(i) ==
  /\ indeg' = [r \in Rows |-> IF r \in selected /\ i \in dependsOn[r]
                              THEN indeg[r] - 1 ELSE indeg[r]]
  /\ ready' = (ready \ {i}) \cup {r \in selected : i \in dependsOn[r]}

\* Row i is emitted: the rows that waited for it wait for one less.
Release(i) ==
  /\ indeg' = [r \in Rows |-> IF r \in selected /\ i \in dependsOn[r]
                              THEN indeg[r] - 1 ELSE indeg[r]]
  /\ ready' = (ready \ {i})
                \cup {r \in selected : i \in dependsOn[r] /\ indeg[r] = 1}

\* One round of Order's loop: the least ready row by (Kind, Identifier).
Emit ==
  /\ phase = "ordering"
  /\ \E i \in ready :
       /\ \A r \in ready : Rank[i] <= Rank[r]
       /\ out' = Append(out, i)
       /\ Release(i)
  /\ UNCHANGED <<phase, err, args, effects, ctxDone, finished>>

\* MUTANT of Ordered: Order returns what it could sort.
OrderedPart ==
  /\ phase = "ordering"
  /\ ready = {}
  /\ phase' = "skipping"
  /\ UNCHANGED <<err, args, ordering, effects, ctxDone, finished>>

\* Order returns; some row left over means a cycle. Else BatchStarted.
Ordered ==
  /\ phase = "ordering"
  /\ ready = {}
  /\ IF selected \subseteq Range(out)
     THEN phase' = "skipping" /\ UNCHANGED err
     ELSE phase' = "returned" /\ err' = "cyclic"
  /\ UNCHANGED <<args, ordering, effects, ctxDone, finished>>

-----------------------------------------------------------------------------
\* writeEntry: a failed write of the audit log is only warned about.
Write(r, outcome) ==
  \/ log' = [log EXCEPT ![r] = Append(@, outcome)]
  \/ UNCHANGED log

\* DeleteSkipped, its log entry and its count.
SkipRow(r, reason) ==
  /\ events' = [events EXCEPT ![r] = Append(@, reason)]
  /\ Write(r, "skipped")
  /\ skipped' = skipped + 1
  /\ UNCHANGED <<succeeded, failed, late>>

\* The rows the first loop has still to report.
Unselected == {r \in tray \ selected : events[r] = <<>>}

SkipUnselected ==
  /\ phase = "skipping"
  /\ \E r \in Unselected :
       SkipRow(r, IF r \in blocked THEN "blocked" ELSE "unselected")
  /\ UNCHANGED <<phase, err, args, ordering, at, inCall, cancelled, ctxDone,
                 finished>>

StartDeleting ==
  /\ phase = "skipping"
  /\ Unselected = {}
  /\ phase' = "deleting"
  /\ UNCHANGED <<err, args, ordering, effects, ctxDone, finished>>

\* The context is done at the top of the loop.
CancelRow ==
  /\ phase = "deleting"
  /\ at <= Len(out)
  /\ ~inCall
  /\ ctxDone
  /\ cancelled' = TRUE
  /\ SkipRow(out[at], "cancelled")
  /\ at' = at + 1
  /\ UNCHANGED <<phase, err, args, ordering, inCall, ctxDone, finished>>

\* MUTANT of StartRow: the context is looked at before the first row only.
StartRowUnchecked ==
  /\ phase = "deleting"
  /\ at <= Len(out)
  /\ ~inCall
  /\ ~ctxDone \/ at > 1
  /\ events' = [events EXCEPT ![out[at]] = Append(@, "started")]
  /\ inCall' = TRUE
  /\ UNCHANGED <<phase, err, args, ordering, at, cancelled, ctxDone, counts,
                 finished, log, late>>

\* It is not: DeleteStarted is published and the call is next.
StartRow ==
  /\ phase = "deleting"
  /\ at <= Len(out)
  /\ ~inCall
  /\ ~ctxDone
  /\ events' = [events EXCEPT ![out[at]] = Append(@, "started")]
  /\ inCall' = TRUE
  /\ UNCHANGED <<phase, err, args, ordering, at, cancelled, ctxDone, counts,
                 finished, log, late>>

\* MUTANT of DeleteRow: a failed call ends the round before it is counted.
DeleteRowUncounted ==
  /\ inCall
  /\ \E ok \in BOOLEAN :
       /\ succeeded' = succeeded + (IF ok THEN 1 ELSE 0)
       /\ events' = [events EXCEPT ![out[at]] =
                        Append(@, IF ok THEN "succeeded" ELSE "failed")]
       /\ Write(out[at], IF ok THEN "deleted" ELSE "failed")
  /\ late' = late + (IF ctxDone THEN 1 ELSE 0)
  /\ inCall' = FALSE
  /\ at' = at + 1
  /\ UNCHANGED <<phase, err, args, ordering, cancelled, ctxDone, failed,
                 skipped, finished>>

\* DeleteResource returns; a failure is reported and the loop goes on.
DeleteRow ==
  /\ inCall
  /\ \/ /\ succeeded' = succeeded + 1
        /\ events' = [events EXCEPT ![out[at]] = Append(@, "succeeded")]
        /\ Write(out[at], "deleted")
        /\ UNCHANGED failed
     \/ /\ failed' = failed + 1
        /\ events' = [events EXCEPT ![out[at]] = Append(@, "failed")]
        /\ Write(out[at], "failed")
        /\ UNCHANGED succeeded
  /\ late' = late + (IF ctxDone THEN 1 ELSE 0)
  /\ inCall' = FALSE
  /\ at' = at + 1
  /\ UNCHANGED <<phase, err, args, ordering, cancelled, ctxDone, skipped,
                 finished>>

\* BatchFinished, and nil for the caller.
Finish ==
  /\ phase = "deleting"
  /\ at > Len(out)
  /\ finished' = <<Cardinality(tray), succeeded, failed, skipped>>
  /\ phase' = "returned"
  /\ UNCHANGED <<err, args, ordering, effects, ctxDone>>

\* The caller cancels the context, or its five minutes are over.
Cancel ==
  /\ ~ctxDone
  /\ ctxDone' = TRUE
  /\ UNCHANGED <<phase, err, args, ordering, effects, finished>>

Step == \/ Call \/ Emit \/ Ordered \/ SkipUnselected \/ StartDeleting
        \/ CancelRow \/ StartRow \/ DeleteRow \/ Finish

\* The system stops here, and nowhere else.
Returned == phase = "returned" /\ UNCHANGED vars

Next == Step \/ Cancel \/ Returned

Spec == Init /\ [][Next]_vars

-----------------------------------------------------------------------------
Started(r) == \E i \in 1..Len(events[r]) : events[r][i] = "started"
Settled(r) == events[r] # <<>> /\ events[r][Len(events[r])] # "started"

\* Nothing is done about a row before every other row of the batch it depends on
\* has been deleted, has failed or was skipped, whatever relation DependsOn is.
\* (Order's promise, and that Execute's loop keeps to it.)
DependenciesFirst ==
  \A r \in selected : events[r] # <<>> => \A d \in InBatch(r) \ {r} : Settled(d)

Cyclic(S) == \E C \in SUBSET S : C # {} /\ \A r \in C : dependsOn[r] \cap C # {}

\* ErrCyclicDependency refuses a batch that has a cycle among its selected
\* rows, be it of one row, and no other; a batch of one row is not looked at.
\* (Order counts what it could emit.)
OnlyCyclesAreRefused == err = "cyclic" => Cyclic(selected)
ExactlyCyclesAreRefused ==
  /\ OnlyCyclesAreRefused
  /\ phase \in {"skipping", "deleting"} /\ ~Single => ~Cyclic(selected)

\* A row's Delete* is started only if its box was checked and the probe did
\* not find it blocked; a refused batch starts nothing and reports nothing.
OnlyConsentedRows ==
  /\ \A r \in Rows : Started(r) => r \in (tray \cap selected) \ blocked
  /\ err # "none" => \A r \in Rows : events[r] = <<>> /\ log[r] = <<>>

With(trace) == Cardinality({r \in Rows : events[r] = trace})

\* When Execute returns nil, BatchFinished's counts add up to the rows that
\* BatchStarted announced, and every one of them has exactly one terminal
\* event of the counted kind; no log entry contradicts it.
BatchReconciles ==
  phase = "returned" /\ err = "none" =>
    /\ finished[1] = finished[2] + finished[3] + finished[4]
    /\ finished[2] = With(<<"started", "succeeded">>)
    /\ finished[3] = With(<<"started", "failed">>)
    /\ finished[4] = With(<<"unselected">>) + With(<<"blocked">>)
                       + With(<<"cancelled">>)
    /\ {r \in Rows : events[r] # <<>>} = tray
    /\ \A r \in tray : log[r] \in {<<>>,
         <<CASE events[r][Len(events[r])] = "succeeded" -> "deleted"
             [] events[r][Len(events[r])] = "failed"    -> "failed"
             [] OTHER                                    -> "skipped">>}

\* Once the context is done at most one more call goes out, the one between
\* the check and the call. (The check at the top of the loop.)
CancelStopsBatch == late <= 1

=============================================================================
