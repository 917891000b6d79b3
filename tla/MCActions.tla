------------------------------- MODULE MCActions -------------------------------
(***************************************************************************)
(* The actions that are no deployment: a behaviour is about one of them,   *)
(* the others are over from the start.                                     *)
(***************************************************************************)
EXTENDS Actions, TLC

\* Every chain of up to three of these steps.
Run(from, onFailure, form) ==
  [kind |-> "run", from |-> from, onFailure |-> onFailure, form |-> form]
Steps ==
  {[kind |-> "confirm", from |-> "none", onFailure |-> "abort", form |-> {}],
   Run("static", "abort", {}), Run("shared", "continue", Fields), Run("previous", "continue", {"f"})}
    \cup {Run(from, onFailure, Fields) : from \in {"prompt", "previous"},
                                         onFailure \in {"abort", "continue"}}
Plans3 == UNION {[1..n -> Steps] : n \in 1..3}

NoLines == [p \in Pipes |-> 0]

ChainIsOver ==
  /\ plan = <<Chain!Confirm>> /\ cur = 1 /\ at = "ended" /\ stopped = TRUE
  /\ given = Chain!NoInputs /\ prev = Chain!NoInputs /\ results = <<>> /\ final = "cancelled"
  /\ script = "none" /\ offspring = FALSE /\ watcher = "off" /\ killed = FALSE
  /\ usage = <<"cancelled">>

MonitorIsOver ==
  /\ scheduled = {} /\ ctx = "done" /\ tick = MaxTicks /\ expired = MaxTicks
  /\ refresh = [p \in Panels, t \in 1..MaxTicks |-> "none"]
  /\ updates = <<>> /\ loop = "closed"

BusIsOver ==
  /\ stack = "missing" /\ stage = "closed" /\ saw = "missing"
  /\ called = [action |-> "noop", err |-> FALSE]
  /\ report = Bus!NoEvent /\ waiting = <<>> /\ streams = <<>>
  /\ chan = [s \in Subscribers |-> [events |-> <<>>, closed |-> TRUE]]
  /\ received = [s \in Subscribers |-> <<>>]
  /\ early = {}

MCInit ==
  /\ NoDeploy
  /\ \/ Chain!Init /\ MonitorIsOver /\ BusIsOver
     \/ ChainIsOver /\ Monitor!Init /\ BusIsOver
     \/ ChainIsOver /\ MonitorIsOver /\ Bus!Init

MCNext ==
  /\ UNCHANGED vars
  /\ \/ Chain!Next /\ UNCHANGED <<monitorVars, busVars>>
     \/ Monitor!Next /\ UNCHANGED <<chainVars, busVars>>
     \/ Bus!Next /\ UNCHANGED <<chainVars, monitorVars>>

MCSpec ==
  /\ MCInit /\ [][MCNext]_<<vars, chainVars, monitorVars, busVars>>
  /\ Chain!Fairness /\ Monitor!Fairness
================================================================================
