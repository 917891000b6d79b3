------------------------------- MODULE AuditScan -------------------------------
(***************************************************************************)
(* One scan of the account: the pool of internal/audit/pool.go runs every  *)
(* scanner under a cap, the scanners pace themselves through the token     *)
(* bucket of their service, the caller drains the events and takes the     *)
(* one Result, and postprocess.Apply enriches its rows side by side before *)
(* they become a snapshot.  The audit panel puts a deadline on all of it,  *)
(* the command line none.                                                  *)
(*                                                                         *)
(* A scanner is a member of Kinds: its row of the Scanners catalogue and   *)
(* the pages AWS would answer it with.  An outbox holds the events a       *)
(* scanner has to send before its next step.                               *)
(***************************************************************************)
EXTENDS Integers, Sequences, SequencesExt, FiniteSets

CONSTANTS
  Order,      \* the scanners in the order they were registered
  Service,    \* the token bucket of each
  Pages,      \* the rows AWS holds for each, page by page
  PerRow,     \* the scanners that make calls for each row
  Caps,       \* the values RunOptions.Concurrency may have
  ChanCap,    \* capacity of the events channel
  Burst,      \* tokens a bucket holds
  Concurrency \* rows enriched at once

Kinds == Range(Order)
Services == {Service[k] : k \in Kinds}
RowsOf(k) == UNION {Range(Pages[k][p]) : p \in DOMAIN Pages[k]}
Rows == UNION {RowsOf(k) : k \in Kinds}

ASSUME ScanAssumption ==
  /\ Order \in Seq(Range(Order)) /\ IsInjective(Order)
  /\ Caps \cup {ChanCap, Burst, Concurrency} \subseteq Nat \ {0}
  /\ \A k \in Kinds : Pages[k] \in Seq(Seq(RowsOf(k))) /\ Len(Pages[k]) > 0
  /\ \A k \in PerRow : Len(Pages[k]) = 1
  /\ \A k, l \in Kinds : k # l => RowsOf(k) \cap RowsOf(l) = {}  \* Resource.Kind

VARIABLES
  cap,        \* Concurrency
  ctx,        \* "live" or "done"
  next,       \* the scanner the pool's loop is at
  checked,    \* the loop saw ctx live for it
  pc,         \* where each scanner is
  page,       \* its page
  item,       \* its row, for the calls made for each row
  out,        \* the rows it has collected
  outbox,     \* events it is about to send
  tokens,     \* the token buckets
  events,     \* the events channel
  reader,     \* the caller: "draining", "gone", "applying", "saved"
  heard,      \* history: the last event of each scanner the caller got
  resources,  \* Result.Resources
  errs,       \* Result.Errors
  result,     \* the Result was sent and both channels closed
  unsure,     \* history: rows whose own calls did not all succeed
  warned,     \* history: rows such a failure was reported of
  enriching,  \* rows being enriched
  enriched    \* rows that were

poolVars == <<cap, next, checked, resources, errs, result>>
scannerVars == <<pc, page, item, out, unsure, warned>>
readerVars == <<reader, heard, enriching, enriched>>
vars == <<ctx, poolVars, scannerVars, outbox, tokens, events, readerVars>>

Types == {"started", "progress", "warn", "done", "error"}

TypeOK ==
  /\ cap \in Caps
  /\ ctx \in {"live", "done"}
  /\ next \in 1..Len(Order) + 1
  /\ checked \in BOOLEAN
  /\ pc \in [Kinds -> {"idle", "skipped", "wait", "call", "rowwait", "rowcall",
                       "closing", "failing", "ended"}]
  /\ \A k \in Kinds : page[k] \in DOMAIN Pages[k] /\ out[k] \subseteq RowsOf(k)
  /\ item \in [Kinds -> [row : 1..Cardinality(Rows) + 1, call : 1..2]]
  /\ \A k \in Kinds : outbox[k] \in Seq(Types) /\ heard[k] \in Types \cup {"nothing"}
  /\ tokens \in [Services -> 0..Burst]
  /\ events \in Seq(Kinds \X Types) /\ Len(events) <= ChanCap
  /\ reader \in {"draining", "gone", "applying", "saved"}
  /\ {resources, unsure, warned, enriching, enriched} \subseteq SUBSET Rows
  /\ errs \subseteq Kinds
  /\ result \in BOOLEAN

Init ==
  /\ cap \in Caps
  /\ ctx = "live"
  /\ next = 1
  /\ checked = FALSE
  /\ pc = [k \in Kinds |-> "idle"]
  /\ page = [k \in Kinds |-> 1]
  /\ item = [k \in Kinds |-> [row |-> 1, call |-> 1]]
  /\ out = [k \in Kinds |-> {}]
  /\ outbox = [k \in Kinds |-> <<>>]
  /\ tokens = [s \in Services |-> Burst]
  /\ events = <<>>
  /\ reader = "draining"
  /\ heard = [k \in Kinds |-> "nothing"]
  /\ resources = {}
  /\ errs = {}
  /\ result = FALSE
  /\ unsure = {}
  /\ warned = {}
  /\ enriching = {}
  /\ enriched = {}

Running == {k \in Kinds : pc[k] \notin {"idle", "skipped", "ended"}}

-----------------------------------------------------------------------------
\* The deadline, or whoever else holds the context.
Cancel ==
  /\ ctx = "live"
  /\ ctx' = "done"
  /\ UNCHANGED <<poolVars, scannerVars, outbox, tokens, events, readerVars>>

\* The buckets fill as time passes.
Refill(s) ==
  /\ tokens[s] < Burst
  /\ tokens' = [tokens EXCEPT ![s] = @ + 1]
  /\ UNCHANGED <<ctx, poolVars, scannerVars, outbox, events, readerVars>>

\* sendOrDrop: a full channel blocks, unless the context is done.
Send(k) ==
  /\ outbox[k] # <<>>
  /\ Len(events) < ChanCap
  /\ events' = Append(events, <<k, Head(outbox[k])>>)
  /\ outbox' = [outbox EXCEPT ![k] = Tail(@)]
  /\ UNCHANGED <<ctx, poolVars, scannerVars, tokens, readerVars>>

\* Mutant: a send that does not watch the context.
DropNever(k) ==
  /\ outbox[k] = <<>> /\ outbox[k] # <<>>
  /\ UNCHANGED vars

Drop(k) ==
  /\ outbox[k] # <<>>
  /\ ctx = "done"
  /\ outbox' = [outbox EXCEPT ![k] = Tail(@)]
  /\ UNCHANGED <<ctx, poolVars, scannerVars, tokens, events, readerVars>>

-----------------------------------------------------------------------------
\* Run's loop: it waits for its own send of a skipped scanner's error.
AtScanner ==
  /\ next <= Len(Order)
  /\ next > 1 /\ pc[Order[next - 1]] = "skipped" => outbox[Order[next - 1]] = <<>>

CheckContext ==
  /\ AtScanner
  /\ ~checked
  /\ ctx = "live"
  /\ checked' = TRUE
  /\ UNCHANGED <<cap, ctx, next, resources, errs, result, scannerVars, outbox, tokens,
                 events, readerVars>>

Skip ==
  /\ AtScanner
  /\ ctx = "done"
  /\ LET k == Order[next] IN
       /\ pc' = [pc EXCEPT ![k] = "skipped"]
       /\ outbox' = [outbox EXCEPT ![k] = <<"error">>]
       /\ errs' = errs \cup {k}
  /\ next' = next + 1
  /\ checked' = FALSE
  /\ UNCHANGED <<cap, ctx, resources, result, page, item, out, unsure, warned, tokens,
                 events, readerVars>>

Start ==
  /\ AtScanner
  /\ checked
  /\ Cardinality(Running) < cap
  /\ LET k == Order[next] IN
       /\ pc' = [pc EXCEPT ![k] = "wait"]
       /\ outbox' = [outbox EXCEPT ![k] = <<"started">>]
  /\ next' = next + 1
  /\ checked' = FALSE
  /\ UNCHANGED <<cap, ctx, resources, errs, result, page, item, out, unsure, warned,
                 tokens, events, readerVars>>

\* wg.Wait, the Result, and both channels closed.
Collect ==
  /\ next > Len(Order)
  /\ ~result
  /\ \A k \in Kinds : pc[k] \in {"skipped", "ended"} /\ outbox[k] = <<>>
  /\ result' = TRUE
  /\ UNCHANGED <<cap, ctx, next, checked, resources, errs, scannerVars, outbox, tokens,
                 events, readerVars>>

-----------------------------------------------------------------------------
At(k, where) == pc[k] = where /\ outbox[k] = <<>>
GoTo(k, where) == pc' = [pc EXCEPT ![k] = where]
Tell(k, said) == outbox' = [outbox EXCEPT ![k] = said]

\* Bucket.Wait: a token first, the context only when there is none.
TakeToken(k) == /\ tokens[Service[k]] > 0
                /\ tokens' = [tokens EXCEPT ![Service[k]] = @ - 1]
GiveUp(k) == /\ tokens[Service[k]] = 0
             /\ ctx = "done"
             /\ UNCHANGED tokens

Throttle(k) ==
  /\ At(k, "wait")
  /\ \/ TakeToken(k) /\ GoTo(k, "call")
     \/ GiveUp(k) /\ GoTo(k, "failing")
  /\ Tell(k, IF pc'[k] = "failing" THEN <<"error">> ELSE <<>>)
  /\ UNCHANGED <<ctx, poolVars, page, item, out, unsure, warned, events, readerVars>>

\* A page arrives: its rows are collected and counted, or are still to be
\* completed one by one.
PageArrives(k) ==
  /\ At(k, "call")
  /\ IF k \in PerRow /\ RowsOf(k) # {}
     THEN GoTo(k, "rowwait") /\ UNCHANGED <<page, out, outbox>>
     ELSE /\ out' = [out EXCEPT ![k] = @ \cup Range(Pages[k][page[k]])]
          /\ IF page[k] < Len(Pages[k])
             THEN /\ page' = [page EXCEPT ![k] = @ + 1]
                  /\ GoTo(k, "wait")
                  /\ Tell(k, <<"progress">>)
             ELSE /\ GoTo(k, "closing")
                  /\ Tell(k, IF k \in PerRow THEN <<"done">> ELSE <<"progress", "done">>)
                  /\ UNCHANGED page
  /\ UNCHANGED <<ctx, poolVars, item, unsure, warned, tokens, events, readerVars>>

\* AWS refuses, or the context is done: what was collected is given up.
PageFails(k) ==
  /\ At(k, "call")
  /\ GoTo(k, "failing")
  /\ Tell(k, <<"error">>)
  /\ UNCHANGED <<ctx, poolVars, page, item, out, unsure, warned, tokens, events,
                 readerVars>>

\* getBucketTags, getBucketRegion: a wait that is given up is silent.
RowOf(k) == Pages[k][1][item[k].row]
LastRow(k) == item[k].row = Len(Pages[k][1])

RowSettled(k, said) ==
  IF item[k].call = 1
  THEN /\ item' = [item EXCEPT ![k].call = 2]
       /\ GoTo(k, "rowwait")
       /\ Tell(k, said)
       /\ UNCHANGED out
  ELSE /\ out' = [out EXCEPT ![k] = @ \cup {RowOf(k)}]
       /\ item' = [item EXCEPT ![k] = [row |-> @.row + 1, call |-> 1]]
       /\ GoTo(k, IF LastRow(k) THEN "closing" ELSE "rowwait")
       /\ Tell(k, said \o (IF LastRow(k) THEN <<"progress", "done">>
                           ELSE <<"progress">>))

RowThrottle(k) ==
  /\ At(k, "rowwait")
  /\ \/ TakeToken(k) /\ GoTo(k, "rowcall") /\ UNCHANGED <<item, out, outbox, unsure>>
     \/ GiveUp(k) /\ RowSettled(k, <<>>) /\ unsure' = unsure \cup {RowOf(k)}
  /\ UNCHANGED <<ctx, poolVars, page, warned, events, readerVars>>

RowAnswered(k) ==
  /\ At(k, "rowcall")
  /\ RowSettled(k, <<>>)
  /\ UNCHANGED <<ctx, poolVars, page, unsure, warned, tokens, events, readerVars>>

RowFails(k) ==
  /\ At(k, "rowcall")
  /\ RowSettled(k, <<"warn">>)
  /\ unsure' = unsure \cup {RowOf(k)}
  /\ warned' = warned \cup {RowOf(k)}
  /\ UNCHANGED <<ctx, poolVars, page, tokens, events, readerVars>>

\* The scanner is over: its rows or its error are recorded, its slot is free.
Finish(k) ==
  /\ At(k, "closing")
  /\ resources' = resources \cup out[k]
  /\ GoTo(k, "ended")
  /\ UNCHANGED <<cap, ctx, next, checked, errs, result, page, item, out, unsure, warned,
                 outbox, tokens, events, readerVars>>

\* Mutant: the error is told and not recorded.
FailUnrecorded(k) ==
  /\ At(k, "failing")
  /\ GoTo(k, "ended")
  /\ UNCHANGED <<cap, ctx, next, checked, resources, errs, result, page, item, out,
                 unsure, warned, outbox, tokens, events, readerVars>>

Fail(k) ==
  /\ At(k, "failing")
  /\ errs' = errs \cup {k}
  /\ GoTo(k, "ended")
  /\ UNCHANGED <<cap, ctx, next, checked, resources, result, page, item, out, unsure,
                 warned, outbox, tokens, events, readerVars>>

-----------------------------------------------------------------------------
\* The caller: drainAudit of the command, startScanCmd of the panel.
Drain ==
  /\ reader = "draining"
  /\ events # <<>>
  /\ LET e == Head(events) IN heard' = [heard EXCEPT ![e[1]] = e[2]]
  /\ events' = Tail(events)
  /\ UNCHANGED <<ctx, poolVars, scannerVars, outbox, tokens, reader, enriching,
                 enriched>>

\* A caller that cancelled may stop reading.
Leave ==
  /\ reader = "draining"
  /\ ctx = "done"
  /\ reader' = "gone"
  /\ UNCHANGED <<ctx, poolVars, scannerVars, outbox, tokens, events, heard,
                 enriching, enriched>>

TakeResult ==
  /\ reader = "draining"
  /\ result
  /\ events = <<>>
  /\ reader' = "applying"
  /\ UNCHANGED <<ctx, poolVars, scannerVars, outbox, tokens, events, heard,
                 enriching, enriched>>

\* Apply: enough slots, no order.
Enrich(r) ==
  /\ reader = "applying"
  /\ r \in resources \ (enriching \cup enriched)
  /\ Cardinality(enriching) < Concurrency
  /\ enriching' = enriching \cup {r}
  /\ UNCHANGED <<ctx, poolVars, scannerVars, outbox, tokens, events, reader, heard,
                 enriched>>

Enriched(r) ==
  /\ r \in enriching
  /\ enriching' = enriching \ {r}
  /\ enriched' = enriched \cup {r}
  /\ UNCHANGED <<ctx, poolVars, scannerVars, outbox, tokens, events, reader, heard>>

\* Apply returns when every row is done, or at once when the context is done
\* while a row is still to be started.
ApplyReturns ==
  \/ enriched = resources
  \/ ctx = "done" /\ enriching \cup enriched # resources

Save ==
  /\ reader = "applying"
  /\ ApplyReturns
  /\ reader' = "saved"
  /\ UNCHANGED <<ctx, poolVars, scannerVars, outbox, tokens, events, heard,
                 enriching, enriched>>

-----------------------------------------------------------------------------
Pool == CheckContext \/ Skip \/ Start \/ Collect
Scan(k) ==
  \/ Throttle(k) \/ PageArrives(k) \/ PageFails(k)
  \/ RowThrottle(k) \/ RowAnswered(k) \/ RowFails(k)
  \/ Finish(k) \/ Fail(k)
Deliver(k) == Send(k) \/ Drop(k)
Reader == Drain \/ TakeResult \/ Save
Enrichment(r) == Enrich(r) \/ Enriched(r)

Next ==
  \/ Cancel
  \/ Pool
  \/ \E s \in Services : Refill(s)
  \/ \E k \in Kinds : Scan(k) \/ Deliver(k)
  \/ Reader
  \/ Leave
  \/ \E r \in Rows : Enrichment(r)

\* Goroutines are scheduled, AWS answers or refuses, time fills the buckets.
\* The deadline is not promised: the command line sets none.
Fairness ==
  /\ WF_vars(Pool)
  /\ \A s \in Services : WF_vars(Refill(s))
  /\ \A k \in Kinds : SF_vars(Throttle(k) \/ RowThrottle(k))
  /\ \A k \in Kinds : WF_vars(Scan(k)) /\ WF_vars(Deliver(k))
  /\ WF_vars(Reader)
  /\ \A r \in Rows : WF_vars(Enrichment(r))

Spec == Init /\ [][Next]_vars /\ Fairness

-----------------------------------------------------------------------------
\* The last thing a caller hears of a scanner is how it ended, and it has heard
\* it of every one when it takes the Result (sendOrDrop, pool.go:120-140).
HeardToTheEnd ==
  reader \in {"applying", "saved"} =>
    \A k \in Kinds : heard[k] = IF k \in errs THEN "error" ELSE "done"

\* The Result accounts for every kind exactly once: with its error, or with
\* all the rows AWS holds. While the time is not up a warning was given of each
\* row whose own calls failed, and the caller has heard of every scanner what
\* the Result says (pool.go:78-140, s3_bucket.go:82-115).
ResultIsComplete ==
  result => /\ \A k \in Kinds : RowsOf(k) \cap resources =
                                  IF k \in errs THEN {} ELSE RowsOf(k)
            /\ ctx = "live" => unsure \cap resources \subseteq warned /\ HeardToTheEnd

\* The pool sends its Result and closes its channels, whatever AWS answers,
\* whenever the time is up and though a caller that cancelled reads no more;
\* one that reads on comes to its snapshot (pool.go:36-43, 121-131).
ScanEnds == <>(result /\ reader \in {"gone", "saved"})
=============================================================================
