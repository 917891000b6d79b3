-------------------------------- MODULE Actions --------------------------------
(***************************************************************************)
(* What runs when the user starts an action: the deployment of a resource, *)
(* a composite of shell commands, a dashboard, or the cancelling of a      *)
(* stack.  They share no variable.                                         *)
(***************************************************************************)
EXTENDS DeployRun

CONSTANTS
  Plans, Fields,            \* see ActionRun
  Panels, MaxTicks,         \* see MonitorLoop
  Subscribers, BufferSize   \* see CancelStream

VARIABLES
  plan, cur, at, stopped, given, prev, results, final, script, offspring, watcher,
  killed, usage,
  scheduled, ctx, tick, expired, refresh, updates, loop,
  stack, stage, saw, called, report, waiting, streams, chan, received, early

chainVars == <<plan, cur, at, stopped, given, prev, results, final, script, offspring,
               watcher, killed, usage>>
monitorVars == <<scheduled, ctx, tick, expired, refresh, updates, loop>>
busVars == <<stack, stage, saw, called, report, waiting, streams, chan, received, early>>

Chain == INSTANCE ActionRun WITH ctxDone <- stopped, proc <- script, child <- offspring
Monitor == INSTANCE MonitorLoop
Bus == INSTANCE CancelStream WITH at <- stage, got <- received

ASSUME ActionsAssumption == Chain!PlansAssumption /\ Monitor!MonitorAssumption

NoDeploy ==
  /\ ctxDone = "off" /\ proc = "off" /\ child = "off" /\ written = "off" /\ read = "off"
  /\ pump = "off" /\ cut = "off" /\ log = "off" /\ poll = "off" /\ upto = "off"
  /\ seen = "off" /\ fan = "off" /\ held = "off" /\ dropping = "off" /\ merged = "off"
  /\ closer = "off" /\ reaper = "off" /\ handler = "off" /\ user = "off" /\ got = "off"
NoChain ==
  /\ plan = "off" /\ cur = "off" /\ at = "off" /\ stopped = "off" /\ given = "off"
  /\ prev = "off" /\ results = "off" /\ final = "off" /\ script = "off"
  /\ offspring = "off" /\ watcher = "off" /\ killed = "off" /\ usage = "off"
NoMonitor ==
  /\ scheduled = "off" /\ ctx = "off" /\ tick = "off" /\ expired = "off"
  /\ refresh = "off" /\ updates = "off" /\ loop = "off"
NoBus ==
  /\ stack = "off" /\ stage = "off" /\ saw = "off" /\ called = "off" /\ report = "off"
  /\ waiting = "off" /\ streams = "off" /\ chan = "off" /\ received = "off" /\ early = "off"

\* See ChainKeepsItsPolicy of ActionRun (internal/action/composite/runner.go:304-361).
ChainKeepsItsPolicy == Chain!ChainKeepsItsPolicy

\* See SignalledIsCancelled of ActionRun (internal/action/shell/runner.go:247-261).
SignalledIsCancelled == Chain!SignalledIsCancelled

\* See CancelEndsChain of ActionRun (internal/action/shell/runner.go:282-306).
CancelEndsChain == Chain!CancelEndsChain

\* See StoppedMonitorEnds of MonitorLoop (internal/action/monitor/refresh.go:52-54).
StoppedMonitorEnds == Monitor!StoppedMonitorEnds

\* See CancelIsReported of CancelStream (internal/stream/cancel.go:69-116).
CancelIsReported == Bus!CancelIsReported
================================================================================
