------------------------------ MODULE CancelStream ------------------------------
(***************************************************************************)
(* internal/stream: SafeCancel of one stack, which reports on the bus what *)
(* it does, the bus, and those who listen.  CloudFormation goes its own    *)
(* way meanwhile.                                                          *)
(***************************************************************************)
EXTENDS Naturals, Sequences, FiniteSets, SequencesExt

CONSTANTS Subscribers,  \* those who listen, in the order they may subscribe
          BufferSize    \* capacity of the channel of each

VARIABLES
  stack,   \* the status of the stack
  at,      \* where the producer is
  saw,     \* the status DescribeStackStatus answered
  called,  \* the cancelling call: none, accepted or refused
  report,  \* the event being published
  waiting, \* the subscribers of the snapshot it has not been sent to
  streams, \* the subscribers on the bus
  chan,    \* their channels: the events and whether it is closed
  got,     \* what each has received
  early    \* history: those on the bus before the first Publish

vars == <<stack, at, saw, called, report, waiting, streams, chan, got, early>>

Status == {"CREATE_IN_PROGRESS", "UPDATE_IN_PROGRESS", "terminal", "missing"}
Answers == Status \cup {"error"}

Started(status) == [kind |-> "started", status |-> status, action |-> "", err |-> FALSE]
Done(action, err) == [kind |-> "done", status |-> "", action |-> action, err |-> err]
NoEvent == Started("")

Init ==
  /\ stack \in Status
  /\ at = "describe"
  /\ saw = ""
  /\ called = [action |-> "noop", err |-> FALSE]
  /\ report = NoEvent
  /\ waiting = <<>>
  /\ streams = <<>>
  /\ chan = [s \in Subscribers |-> [events |-> <<>>, closed |-> FALSE]]
  /\ got = [s \in Subscribers |-> <<>>]
  /\ early = {}

producer == <<at, saw, called, report, waiting>>

\* What is in progress ends by itself.
StackSettles ==
  /\ stack \in {"CREATE_IN_PROGRESS", "UPDATE_IN_PROGRESS"}
  /\ stack' = "terminal"
  /\ UNCHANGED <<producer, streams, chan, got, early>>

Subscribe(s) ==
  /\ s \notin Range(streams) /\ ~chan[s].closed
  /\ streams' = Append(streams, s)
  /\ early' = IF at = "describe" THEN early \cup {s} ELSE early
  /\ UNCHANGED <<stack, producer, chan, got>>

Receive(s) ==
  /\ chan[s].events # <<>>
  /\ got' = [got EXCEPT ![s] = Append(@, Head(chan[s].events))]
  /\ chan' = [chan EXCEPT ![s].events = Tail(@)]
  /\ UNCHANGED <<stack, producer, streams, early>>

\* Publish takes a snapshot of the subscribers.
Publish(event, next) ==
  /\ report' = event
  /\ waiting' = streams
  /\ at' = next

\* SafeCancel asks first and says so afterwards.
Describe ==
  /\ at = "describe"
  /\ \E answer \in {stack, "error"} :
       /\ saw' = answer
       /\ Publish(Started(IF answer \in {"missing", "error"} THEN "" ELSE answer), "started")
  /\ UNCHANGED <<stack, called, streams, chan, got, early>>

\* Publish sends to one after the other and waits for each.
Deliver ==
  /\ waiting # <<>>
  /\ LET s == Head(waiting)
     IN /\ Len(chan[s].events) < BufferSize
        /\ chan' = [chan EXCEPT ![s].events = Append(@, report)]
  /\ waiting' = Tail(waiting)
  /\ UNCHANGED <<stack, at, saw, called, report, streams, got, early>>

\* As Action, but an update that rolls back is deleted, too.
ActionDeletes(status) ==
  IF status \in {"CREATE_IN_PROGRESS", "UPDATE_IN_PROGRESS"} THEN "delete_stack" ELSE "noop"

\* dispatchCancel.
Action(status) ==
  CASE status = "CREATE_IN_PROGRESS" -> "delete_stack"
    [] status = "UPDATE_IN_PROGRESS" -> "cancel_update_stack"
    [] OTHER -> "noop"

\* AWS refuses to cancel an update that is over, and deletes any stack.
Call ==
  /\ at = "started" /\ waiting = <<>>
  /\ LET action == Action(saw)
     IN \E refused \in BOOLEAN :
          LET err == \/ saw = "error"
                     \/ action # "noop" /\ refused
                     \/ action = "cancel_update_stack" /\ stack # "UPDATE_IN_PROGRESS"
          IN /\ called' = [action |-> action, err |-> err]
             /\ stack' = IF action = "delete_stack" /\ ~err THEN "missing" ELSE stack
             /\ Publish(Done(action, err), "done")
  /\ UNCHANGED <<saw, streams, chan, got, early>>

Close ==
  /\ at = "done" /\ waiting = <<>>
  /\ at' = "closed"
  /\ chan' = [s \in Subscribers |-> IF s \in Range(streams)
                                    THEN [chan[s] EXCEPT !.closed = TRUE] ELSE chan[s]]
  /\ streams' = <<>>
  /\ UNCHANGED <<stack, saw, called, report, waiting, got, early>>

Next ==
  \/ StackSettles \/ Describe \/ Deliver \/ Call \/ Close
  \/ \E s \in Subscribers : Subscribe(s) \/ Receive(s)

Spec == Init /\ [][Next]_vars

-----------------------------------------------------------------------------
\* Who listened from the start hears, when the stream has been closed and he
\* has read it, that it started and how it ended, once each, as it was: what
\* was done and with which result; a later one hears the rest of it. And an
\* update is never answered with a deletion (cancel.go:69-116).
CancelIsReported ==
  \A s \in Subscribers :
    LET heard == got[s] \o chan[s].events
        truth == <<Started(IF saw \in {"missing", "error"} THEN "" ELSE saw),
                   Done(called.action, called.err)>>
    IN /\ chan[s].closed => heard = IF s \in early THEN truth
                                    ELSE IF heard = <<>> THEN <<>> ELSE <<truth[2]>>
       /\ called.action = "delete_stack" => saw = "CREATE_IN_PROGRESS"
=============================================================================
