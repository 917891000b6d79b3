------------------------------ MODULE MCChatReply ------------------------------
(***************************************************************************)
(* One turn and its reader, and apart from them the reply of a provider to *)
(* one request, frame by frame: a behaviour is about one of them, the      *)
(* other is over from the start.                                           *)
(***************************************************************************)
EXTENDS Chat, TLC

StreamIsOver ==
  /\ provider = "ollama"
  /\ asked = <<>> /\ said = FALSE /\ ended = "done" /\ counted = FALSE
  /\ ctx = "done" /\ at = "closed"
  /\ headers = [i \in 1..2 |-> 0]
  /\ stop = Reply!StopError /\ pending = <<>> /\ deltas = <<>>
  /\ acc = [i \in 1..2 |-> [id |-> 0, input |-> <<>>]]
  /\ text = FALSE /\ final = Reply!StopError /\ request = "none"

TurnsAreOver ==
  /\ pc = [t \in Turns |-> "closed"]
  /\ iter = [t \in Turns |-> 0] /\ uses = iter /\ texts = iter /\ left = iter
  /\ failed = [t \in Turns |-> FALSE]
  /\ chan = [t \in Turns |-> <<>>]
  /\ reader = [t \in Turns |-> "finished"]
  /\ cancelled = [t \in Turns |-> FALSE]
  /\ history = <<>>
  /\ lastBy = "none" /\ overlapped = FALSE
  /\ over = [t \in Turns |-> TRUE]

MCInit ==
  /\ NoPanel
  /\ (Init /\ StreamIsOver) \/ (TurnsAreOver /\ Reply!Init)

MCNext ==
  /\ UNCHANGED screenVars
  /\ \/ Next /\ UNCHANGED replyVars
     \/ Reply!Next /\ UNCHANGED vars

MCSpec ==
  /\ MCInit /\ [][MCNext]_<<vars, replyVars, screenVars>>
  /\ \A t \in Turns : WF_vars(Step(t)) /\ WF_vars(Receive(t) \/ SeeClose(t))
================================================================================
