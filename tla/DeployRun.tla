------------------------------ MODULE DeployRun ------------------------------
(***************************************************************************)
(* One resource deployment, from the moment its script runs: Execute of    *)
(* action/resource/runtime.go, Renderer.Deploy and Poller of render/cfn.   *)
(* Eight goroutines share three channels: a pump per pipe of the script,   *)
(* the poller, a fan-in for lines and one for stack events, the one that   *)
(* reaps the script, the one that signals it, and the one that closes the  *)
(* merged channel.  One action is one channel operation, one signal or one *)
(* system call.                                                            *)
(*                                                                         *)
(* A line or a stack event is its number in its source.  Everything before *)
(* the script starts (validation, parameters.json) is sequential and left  *)
(* out; the awsx client, the script and CloudFormation are the environment.*)
(***************************************************************************)
EXTENDS Integers, Sequences, FiniteSets

CONSTANTS
  MergedCap,  \* capacity of the merged channel
  PipeCap,    \* lines a pipe of the operating system holds
  MaxLines,   \* bound: lines written to each pipe
  MaxEvents   \* bound: events of the stack

ASSUME DeployAssumption ==
  /\ {MergedCap, PipeCap} \subseteq Nat \ {0}
  /\ MaxLines \in [{"stdout", "stderr"} -> Nat]
  /\ MaxEvents \in Nat

Pipes == {"stdout", "stderr"}
Sources == Pipes \cup {"cfn"}
Fans == {"lines", "events"}

\* An event ends the run if it is one of a stack resource in a final status;
\* a nested stack's, or one of an earlier deployment, is such an event too.
Kinds == {"progress", "terminal"}

VARIABLES
  ctxDone,  \* the context is cancelled
  proc,     \* the script: "running", "exited" or "reaped"
  child,    \* a process of the script's own holds the pipes too
  written,  \* lines written to each pipe
  read,     \* lines each pump has scanned
  pump,     \* where each pump is
  cut,      \* a pump gave up on a line too long for its scanner
  log,      \* the stack's events, oldest first
  poll,     \* where the poller is; "off" when none is configured
  upto,     \* how far DescribeStackEvents has answered
  seen,     \* events the poller has handed on
  fan,      \* where each fan-in is
  held,     \* the item it has in hand
  dropping, \* its cancelled flag
  merged,   \* the channel behind Result.Events
  closer,   \* "fanIn", "wait" or "done": the goroutine that closes it
  reaper,   \* "pumps", "wait" or "done": the goroutine in Deploy
  handler,  \* where handleCancel is
  user,     \* the reader of Result.Events, then of Wait
  got       \* items of each source the user has received

procVars == <<proc, child, written>>
pumpVars == <<read, pump, cut>>
pollVars == <<log, poll, upto, seen>>
fanVars == <<fan, held, dropping>>
vars == <<ctxDone, procVars, pumpVars, pollVars, fanVars, merged, closer,
          reaper, handler, user, got>>

Item == [src : Sources, n : Nat \ {0}]
Nothing == [src |-> "none"]

TypeOK ==
  /\ ctxDone \in BOOLEAN
  /\ proc \in {"running", "exited", "reaped"}
  /\ child \in BOOLEAN
  /\ written \in [Pipes -> Nat]
  /\ read \in [Pipes -> Nat]
  /\ \A p \in Pipes : read[p] <= written[p]
  /\ pump \in [Pipes -> {"scan", "send", "done"}]
  /\ cut \in [Pipes -> BOOLEAN]
  /\ log \in Seq(Kinds)
  /\ poll \in {"off", "call", "emit", "done"}
  /\ upto \in 0..MaxEvents
  /\ seen \in 0..upto
  /\ fan \in [Fans -> {"recv", "send", "done"}]
  /\ held \in [Fans -> Item \cup {Nothing}]
  /\ dropping \in [Fans -> BOOLEAN]
  /\ merged \in Seq(Item)
  /\ Len(merged) <= MergedCap
  /\ closer \in {"fanIn", "wait", "done"}
  /\ reaper \in {"pumps", "wait", "done"}
  /\ handler \in {"watch", "grace", "done"}
  /\ user \in {"drain", "wedged", "wait", "returned"}
  /\ got \in [Sources -> Nat]

\* A stack may have been deployed before, or not exist yet; a script may leave
\* its pipes to a process in the background, or to none.
Init ==
  /\ ctxDone = FALSE
  /\ proc = "running"
  /\ child \in BOOLEAN
  /\ written = [p \in Pipes |-> 0]
  /\ read = [p \in Pipes |-> 0]
  /\ pump = [p \in Pipes |-> "scan"]
  /\ cut = [p \in Pipes |-> FALSE]
  /\ log \in {<<>>, <<"terminal">>}
  /\ Len(log) <= MaxEvents
  /\ poll \in {"off", "call"}
  /\ upto = 0
  /\ seen = 0
  /\ fan = [f \in Fans |-> "recv"]
  /\ held = [f \in Fans |-> Nothing]
  /\ dropping = [f \in Fans |-> FALSE]
  /\ merged = <<>>
  /\ closer = "fanIn"
  /\ reaper = "pumps"
  /\ handler = "watch"
  /\ user = "drain"
  /\ got = [s \in Sources |-> 0]

-----------------------------------------------------------------------------
(* The environment: the user, the script, CloudFormation *)

Cancel ==
  /\ ~ctxDone
  /\ ctxDone' = TRUE
  /\ UNCHANGED <<procVars, pumpVars, pollVars, fanVars, merged, closer, reaper,
                 handler, user, got>>

others == <<ctxDone, pumpVars, pollVars, fanVars, merged, closer, reaper, user,
            got>>

\* The write ends of the pipes are closed once nobody holds them.
AtEOF == proc # "running" /\ ~child

ScriptWrite(p) ==
  /\ ~AtEOF
  /\ pump[p] # "done"
  /\ written[p] < MaxLines[p]
  /\ written[p] - read[p] < PipeCap
  /\ written' = [written EXCEPT ![p] = @ + 1]
  /\ UNCHANGED <<others, handler, proc, child>>

ScriptExit ==
  /\ proc = "running"
  /\ proc' = "exited"
  /\ UNCHANGED <<others, handler, child, written>>

ChildExit ==
  /\ child
  /\ child' = FALSE
  /\ UNCHANGED <<others, handler, proc, written>>

\* Events after the poller's end reach nobody.
StackEvent ==
  /\ poll \in {"call", "emit"}
  /\ Len(log) < MaxEvents
  /\ \E k \in Kinds : log' = Append(log, k)
  /\ UNCHANGED <<ctxDone, procVars, pumpVars, poll, upto, seen, fanVars, merged,
                 closer, reaper, handler, user, got>>

-----------------------------------------------------------------------------
(* handleCancel: SIGTERM when the context is done, SIGKILL after the delay. *)
(* A script may take SIGTERM as it likes, ScriptExit says how.              *)

Terminate ==
  /\ handler = "watch"
  /\ ctxDone
  /\ handler' = "grace"
  /\ UNCHANGED <<others, procVars>>

\* MUTANT of Kill: SIGTERM again.
KillAsked ==
  /\ handler = "grace"
  /\ handler' = "done"
  /\ UNCHANGED <<others, procVars>>

\* SIGKILL reaches the script, not the processes it started.
Kill ==
  /\ handler = "grace"
  /\ handler' = "done"
  /\ proc' = IF proc = "running" THEN "exited" ELSE proc
  /\ UNCHANGED <<others, child, written>>

HandlerStops ==
  /\ handler # "done"
  /\ reaper = "done"
  /\ handler' = "done"
  /\ UNCHANGED <<others, procVars>>

-----------------------------------------------------------------------------
(* The pumps *)

pumpFrame == <<ctxDone, procVars, pollVars, merged, closer, reaper, handler,
               user, got>>

PumpScan(p) ==
  /\ pump[p] = "scan"
  /\ \/ /\ read[p] < written[p]
        /\ read' = [read EXCEPT ![p] = @ + 1]
        /\ pump' = [pump EXCEPT ![p] = "send"]
        /\ UNCHANGED cut
     \/ /\ read[p] < written[p]
        /\ cut' = [cut EXCEPT ![p] = TRUE]
        /\ pump' = [pump EXCEPT ![p] = "done"]
        /\ UNCHANGED read
     \/ /\ read[p] = written[p]
        /\ AtEOF
        /\ pump' = [pump EXCEPT ![p] = "done"]
        /\ UNCHANGED <<read, cut>>
  /\ UNCHANGED <<pumpFrame, fanVars>>

\* The fan-in of an unbuffered channel takes an item: it has it in hand, or
\* throws it away once the run is cancelled.
Take(f, item) ==
  /\ fan[f] = "recv"
  /\ fan' = IF dropping[f] THEN fan ELSE [fan EXCEPT ![f] = "send"]
  /\ held' = IF dropping[f] THEN held ELSE [held EXCEPT ![f] = item]
  /\ UNCHANGED dropping

PumpSend(p) ==
  /\ pump[p] = "send"
  /\ Take("lines", [src |-> p, n |-> read[p]])
  /\ pump' = [pump EXCEPT ![p] = "scan"]
  /\ UNCHANGED <<pumpFrame, read, cut>>

PumpQuit(p) ==
  /\ pump[p] = "send"
  /\ ctxDone
  /\ pump' = [pump EXCEPT ![p] = "done"]
  /\ UNCHANGED <<pumpFrame, fanVars, read, cut>>

-----------------------------------------------------------------------------
(* The poller *)

pollFrame == <<ctxDone, procVars, pumpVars, merged, closer, reaper, handler,
               user, got>>

\* The first tick is at once. DescribeStackEvents answers with everything up to
\* now ...
PollAnswered ==
  /\ poll = "call"
  /\ upto' = Len(log)
  /\ poll' = "emit"
  /\ UNCHANGED <<pollFrame, fanVars, log, seen>>

\* ... or fails, which ends the poller if the context is done, as does waiting
\* for the next tick; otherwise it is called again.
PollStopped ==
  /\ poll = "call"
  /\ ctxDone
  /\ poll' = "done"
  /\ UNCHANGED <<pollFrame, fanVars, log, upto, seen>>

PollEmit ==
  /\ poll = "emit"
  /\ seen < upto
  /\ Take("events", [src |-> "cfn", n |-> seen + 1])
  /\ seen' = seen + 1
  /\ UNCHANGED <<pollFrame, log, poll, upto>>

Terminal(k) == k = "terminal"

\* The answer is emitted. A final event of an earlier answer would have ended
\* the poller then.
PollSleep ==
  /\ poll = "emit"
  /\ seen = upto
  /\ poll' = IF \E i \in 1..upto : Terminal(log[i]) THEN "done" ELSE "call"
  /\ UNCHANGED <<pollFrame, fanVars, log, upto, seen>>

PollQuit ==
  /\ poll = "emit"
  /\ seen < upto
  /\ ctxDone
  /\ poll' = "done"
  /\ UNCHANGED <<pollFrame, fanVars, log, upto, seen>>

-----------------------------------------------------------------------------
(* The fan-ins and the merged channel *)

fanFrame == <<ctxDone, procVars, pumpVars, pollVars, closer, reaper, handler,
              user, got>>

FanSend(f) ==
  /\ fan[f] = "send"
  /\ Len(merged) < MergedCap
  /\ merged' = Append(merged, held[f])
  /\ fan' = [fan EXCEPT ![f] = "recv"]
  /\ held' = [held EXCEPT ![f] = Nothing]
  /\ UNCHANGED <<fanFrame, dropping>>

\* MUTANT of FanDrop: one item is dropped, the next may be sent.
FanDropOne(f) ==
  /\ fan[f] = "send"
  /\ ctxDone
  /\ fan' = [fan EXCEPT ![f] = "recv"]
  /\ held' = [held EXCEPT ![f] = Nothing]
  /\ UNCHANGED <<fanFrame, dropping, merged>>

FanDrop(f) ==
  /\ fan[f] = "send"
  /\ ctxDone
  /\ dropping' = [dropping EXCEPT ![f] = TRUE]
  /\ fan' = [fan EXCEPT ![f] = "recv"]
  /\ held' = [held EXCEPT ![f] = Nothing]
  /\ UNCHANGED <<fanFrame, merged>>

UpstreamClosed(f) ==
  IF f = "lines" THEN reaper # "pumps" ELSE poll \in {"off", "done"}

FanEnd(f) ==
  /\ fan[f] = "recv"
  /\ UpstreamClosed(f)
  /\ fan' = [fan EXCEPT ![f] = "done"]
  /\ UNCHANGED <<fanFrame, held, dropping, merged>>

CloseMerged ==
  /\ closer = "fanIn"
  /\ \A f \in Fans : fan[f] = "done"
  /\ closer' = "wait"
  /\ UNCHANGED <<ctxDone, procVars, pumpVars, pollVars, fanVars, merged, reaper,
                 handler, user, got>>

\* waitDeploy has answered, deployErr has room for it.
PostResult ==
  /\ closer = "wait"
  /\ reaper = "done"
  /\ closer' = "done"
  /\ UNCHANGED <<ctxDone, procVars, pumpVars, pollVars, fanVars, merged, reaper,
                 handler, user, got>>

\* MUTANT of CloseLines: stdout alone is waited for.
CloseLinesEarly ==
  /\ reaper = "pumps"
  /\ pump["stdout"] = "done"
  /\ reaper' = "wait"
  /\ UNCHANGED <<ctxDone, procVars, pumpVars, pollVars, fanVars, merged, closer,
                 handler, user, got>>

CloseLines ==
  /\ reaper = "pumps"
  /\ \A p \in Pipes : pump[p] = "done"
  /\ reaper' = "wait"
  /\ UNCHANGED <<ctxDone, procVars, pumpVars, pollVars, fanVars, merged, closer,
                 handler, user, got>>

\* cmd.Wait; then signalDone is closed and the exit error posted.
Reap ==
  /\ reaper = "wait"
  /\ proc = "exited"
  /\ proc' = "reaped"
  /\ reaper' = "done"
  /\ UNCHANGED <<ctxDone, child, written, pumpVars, pollVars, fanVars, merged,
                 closer, handler, user, got>>

-----------------------------------------------------------------------------
(* The caller of Execute *)

userFrame == <<ctxDone, procVars, pumpVars, pollVars, fanVars, closer, reaper,
               handler>>

Receive ==
  /\ user = "drain"
  /\ merged # <<>>
  /\ merged' = Tail(merged)
  /\ got' = [got EXCEPT ![Head(merged).src] = Head(merged).n]
  /\ UNCHANGED <<userFrame, user>>

SeeClosed ==
  /\ user = "drain"
  /\ merged = <<>>
  /\ closer # "fanIn"
  /\ user' = "wait"
  /\ UNCHANGED <<userFrame, merged, got>>

WaitReturns ==
  /\ user = "wait"
  /\ closer = "done"
  /\ user' = "returned"
  /\ UNCHANGED <<userFrame, merged, got>>

\* The caller stops reading.
Wedge ==
  /\ user = "drain"
  /\ user' = "wedged"
  /\ UNCHANGED <<userFrame, merged, got>>

Pump(p) == PumpScan(p) \/ PumpSend(p) \/ PumpQuit(p)
Poll == PollAnswered \/ PollStopped \/ PollEmit \/ PollSleep \/ PollQuit
FanIn(f) == FanSend(f) \/ FanDrop(f) \/ FanEnd(f)
Closer == CloseMerged \/ PostResult
Reaper == CloseLines \/ Reap
Handler == Terminate \/ Kill \/ HandlerStops
User == Receive \/ SeeClosed \/ WaitReturns

Next ==
  \/ Cancel \/ ScriptExit \/ ChildExit \/ StackEvent \/ Wedge
  \/ Poll \/ Closer \/ Reaper \/ Handler \/ User
  \/ \E p \in Pipes : ScriptWrite(p) \/ Pump(p)
  \/ \E f \in Fans : FanIn(f)

Spec == Init /\ [][Next]_vars

\* Every goroutine is scheduled, and a process the script leaves behind ends by
\* itself, for nothing in the code ends it. DescribeStackEvents fails transiently,
\* and a select never prefers the tick to a context that is done for ever.
\* Nothing makes the script exit, the user cancel or the stack move.
Fairness ==
  /\ \A p \in Pipes : WF_vars(Pump(p))
  /\ \A f \in Fans : WF_vars(FanIn(f))
  /\ WF_vars(Poll) /\ SF_vars(PollStopped)
  /\ WF_vars(Closer) /\ WF_vars(Reaper) /\ WF_vars(Handler)
  /\ WF_vars(User) /\ WF_vars(ChildExit)

FairSpec == Spec /\ Fairness

-----------------------------------------------------------------------------
\* Of each source the user receives every item up to the last one he receives,
\* in order, whether and wherever the run is cancelled. (The cancelled flags.)
NoGaps == [][\A s \in Sources : got'[s] \in {got[s], got[s] + 1}]_vars

Queued(s) == {i \in 1..Len(merged) : merged[i].src = s}

\* The merged channel of a run that was not cancelled closes with everything in
\* it: what both pipes held, but for a line no scanner takes, and what the poller
\* was told. (runtime.go: it closes "once both sources are done".)
ClosedMeansComplete ==
  closer # "fanIn" /\ ~ctxDone =>
    /\ AtEOF \/ \E p \in Pipes : cut[p]
    /\ \A p \in Pipes : ~cut[p] => got[p] + Cardinality(Queued(p)) = written[p]
    /\ got["cfn"] + Cardinality(Queued("cfn")) = upto

\* "Wait blocks until both the deploy subprocess and the event poller have
\* exited", and nobody is left to send on a closed channel. (runtime.go:66)
WaitMeansOver ==
  user = "returned" =>
    /\ proc = "reaped"
    /\ poll \in {"off", "done"}
    /\ \A p \in Pipes : pump[p] = "done"

\* A cancelled run ends, even if the caller has stopped reading its events.
\* (TestExecute_CancelUnblocksWedgedConsumer, for every schedule.)
CancelEndsRun == ctxDone ~> closer = "done"

\* A run whose script is gone, and whose stack is final where it is polled, is
\* reported to a caller who reads on.
EndedRunIsReported ==
  AtEOF /\ (poll = "off" \/ \E i \in 1..Len(log) : log[i] = "terminal")
    ~> user \in {"returned", "wedged"}

\* The two together: no run of either kind hangs.
EveryRunEnds == CancelEndsRun /\ EndedRunIsReported
==============================================================================
