------------------------------ MODULE MonitorLoop ------------------------------
(***************************************************************************)
(* internal/action/monitor: a dashboard.  Every tick starts one goroutine  *)
(* for each panel, which asks AWS within the budget of the tick and sends  *)
(* one update; a tick waits for none before it.  Stop cancels them all,    *)
(* and the loop closes the channel when the last one has gone.             *)
(***************************************************************************)
EXTENDS Naturals, Sequences, FiniteSets

CONSTANTS Panels,   \* the panels of the manifest
          MaxTicks  \* bound of the ticks

MonitorAssumption == IsFiniteSet(Panels) /\ MaxTicks \in Nat \ {0}

VARIABLES
  scheduled, \* the panels that could be built
  ctx,       \* of the dashboard: "live" or "done"
  tick,      \* ticks fired
  expired,   \* ticks whose budget has run out, which they do in order
  refresh,   \* the goroutine of each panel and tick
  updates,   \* Result.Updates
  loop       \* "tick", "drain" or "closed"

vars == <<scheduled, ctx, tick, expired, refresh, updates, loop>>

Ticks == 1..MaxTicks
Capacity == 2 * Cardinality(Panels)
Update(p, t) == [panel |-> p, tick |-> t]

\* A panel that cannot be built has one update, its error, before any tick.
Init ==
  /\ scheduled \in SUBSET Panels
  /\ ctx = "live"
  /\ tick = 0
  /\ expired = 0
  /\ refresh = [p \in Panels, t \in Ticks |-> "none"]
  /\ \E order \in [1..Cardinality(Panels \ scheduled) -> Panels \ scheduled] :
       /\ {order[i] : i \in DOMAIN order} = Panels \ scheduled
       /\ updates = [i \in DOMAIN order |-> Update(order[i], 0)]
  /\ loop = "tick"

Stop ==
  /\ ctx = "live"
  /\ ctx' = "done"
  /\ UNCHANGED <<scheduled, tick, expired, refresh, updates, loop>>

\* fanOut.  The first tick is at once; a select that finds both a tick and the
\* end of the context may take either.
FanOut ==
  /\ loop = "tick"
  /\ tick < MaxTicks
  /\ tick' = tick + 1
  /\ refresh' = [p \in Panels, t \in Ticks |->
                   IF t = tick' /\ p \in scheduled THEN "asks" ELSE refresh[p, t]]
  /\ UNCHANGED <<scheduled, ctx, expired, updates, loop>>

\* The budget of a tick, its RefreshEvery, ends about when the next one fires.
Expire ==
  /\ expired < tick
  /\ expired' = expired + 1
  /\ UNCHANGED <<scheduled, ctx, tick, refresh, updates, loop>>

Moves(p, t, from, to) ==
  /\ refresh[p, t] = from
  /\ refresh' = [refresh EXCEPT ![<<p, t>>] = to]
  /\ UNCHANGED <<scheduled, ctx, tick, expired, loop>>

\* Refresh returns data, an error, or what its context says.
Refreshed(p, t) == Moves(p, t, "asks", "sends") /\ UNCHANGED updates

Interrupted(p, t) ==
  /\ ctx = "done" \/ t <= expired
  /\ Moves(p, t, "asks", "sends") /\ UNCHANGED updates

Send(p, t) ==
  /\ Len(updates) < Capacity
  /\ Moves(p, t, "sends", "ended")
  /\ updates' = Append(updates, Update(p, t))

\* As Abandon, but for the budget of the tick, as if it were the dashboard's.
AbandonLate(p, t) ==
  /\ ctx = "live" /\ t <= expired
  /\ Moves(p, t, "sends", "ended")
  /\ UNCHANGED updates

Abandon(p, t) ==
  /\ ctx = "done"
  /\ Moves(p, t, "sends", "ended")
  /\ UNCHANGED updates

Drain ==
  /\ loop = "tick"
  /\ tick > 0
  /\ ctx = "done"
  /\ loop' = "drain"
  /\ UNCHANGED <<scheduled, ctx, tick, expired, refresh, updates>>

Close ==
  /\ loop = "drain"
  /\ \A p \in Panels, t \in Ticks : refresh[p, t] \in {"none", "ended"}
  /\ loop' = "closed"
  /\ UNCHANGED <<scheduled, ctx, tick, expired, refresh, updates>>

Receive ==
  /\ updates # <<>>
  /\ updates' = Tail(updates)
  /\ UNCHANGED <<scheduled, ctx, tick, expired, refresh, loop>>

Refresher(p, t) == Interrupted(p, t) \/ Send(p, t) \/ Abandon(p, t)

Next ==
  \/ Stop \/ FanOut \/ Expire \/ Drain \/ Close \/ Receive
  \/ \E p \in Panels, t \in Ticks : Refreshed(p, t) \/ Refresher(p, t)

\* The loop runs, AWS calls end with their context, nobody has to read or stop.
\* A select that finds the context done again and again takes it at last.
Fairness ==
  /\ WF_vars(FanOut) /\ SF_vars(Drain) /\ WF_vars(Close)
  /\ WF_vars(Expire)
  /\ \A p \in Panels, t \in Ticks : WF_vars(Refresher(p, t))

Spec == Init /\ [][Next]_vars /\ Fairness

-----------------------------------------------------------------------------
\* A stopped dashboard ends, although nobody reads what its panels have to say,
\* and whichever ticks they are of (refresh.go:52-54, 128-149).
StoppedMonitorEnds == ctx = "done" ~> loop = "closed"
=============================================================================
