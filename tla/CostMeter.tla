------------------------------ MODULE CostMeter ------------------------------
(***************************************************************************)
(* The cost meter of the AI panel: internal/ai/cost (meter.go, recorder.go)*)
(* and the part of chat.New that builds it (internal/ai/chat/chat.go).     *)
(*                                                                         *)
(* Each member of Callers is a goroutine that asks PreCall, talks to the   *)
(* provider and Records what the call really cost.  PreCall and Record     *)
(* each take the meter's lock once; nothing is reserved in between.  Money *)
(* is counted in whole units.  usage.jsonl is kept as its total per day,   *)
(* which is all LoadTotals takes from it.                                  *)
(***************************************************************************)
EXTENDS Integers, FiniteSets, Functions

CONSTANTS
  Callers,     \* the concurrent callers of the provider
  SessionCap,  \* Caps.SessionUSD, 0 when there is none
  DayHardCap,  \* Caps.DayHardUSD, 0 when there is none
  MaxCost,     \* the most one call can cost
  MaxDate,     \* bound: the last day
  MaxAdmitted  \* bound: the calls admitted over all

ASSUME MeterAssumption ==
  /\ IsFiniteSet(Callers)
  /\ SessionCap \in Nat
  /\ DayHardCap \in Nat
  /\ MaxCost \in Nat \ {0}
  /\ MaxDate \in Nat
  /\ MaxAdmitted \in Nat

Costs == 1..MaxCost
Days == 0..MaxDate

VARIABLES
  date,         \* the local date
  alive,        \* the process runs and chat.New has returned a session
  defaultRec,   \* the package recorder: it discards until InitRecorder
  recorder,     \* the recorder NewMeter captured
  sessionUSD, todayUSD, lifetimeUSD,
  today,        \* the day todayUSD is about
  file,         \* usage.jsonl: file[d] is the sum of the rows dated d
  stage,        \* where each caller is
  cost,         \* what its call cost
  stamp,        \* the timestamp Record took
  admitted,     \* calls PreCall let through so far (bounded by MaxAdmitted)
  unsaved,      \* history: counted by this meter, never written to the file
  spent,        \* history: what Record has counted today, over all sessions
  missed,       \* history: the part of spent with no row dated today
  blind         \* history: missed when this meter was seeded

meterVars == <<sessionUSD, todayUSD, lifetimeUSD, today>>
setupVars == <<alive, defaultRec, recorder>>
callVars == <<stage, cost, stamp>>
dayVars == <<spent, missed, blind>>
spendVars == <<date, meterVars, setupVars, file, callVars, admitted, unsaved, dayVars>>

MeterTypeOK ==
  /\ date \in Days
  /\ alive \in BOOLEAN
  /\ {defaultRec, recorder} \subseteq {"discard", "file"}
  /\ sessionUSD \in Nat
  /\ todayUSD \in Nat
  /\ lifetimeUSD \in Nat
  /\ today \in Days
  /\ file \in [Days -> Nat]
  /\ stage \in [Callers -> {"idle", "inflight", "stamped", "counted"}]
  /\ cost \in [Callers -> Costs]
  /\ stamp \in [Callers -> Days]
  /\ admitted \in Nat
  /\ unsaved \in Nat
  /\ spent \in Nat
  /\ missed \in Nat
  /\ blind \in Nat

SumOf(f) == FoldFunction(+, 0, f)

MeterInit ==
  /\ date = 0
  /\ alive = FALSE
  /\ defaultRec = "discard"
  /\ recorder = "discard"
  /\ sessionUSD = 0
  /\ todayUSD = 0
  /\ lifetimeUSD = 0
  /\ today = 0
  /\ file = [d \in Days |-> 0]
  /\ stage = [c \in Callers |-> "idle"]
  /\ cost = [c \in Callers |-> 1]
  /\ stamp = [c \in Callers |-> 0]
  /\ admitted = 0
  /\ unsaved = 0
  /\ spent = 0
  /\ missed = 0
  /\ blind = 0

-----------------------------------------------------------------------------
(* chat.New and the life of the process *)

\* NewMeter captures the package recorder, LoadTotals replays the file, and
\* only then does chat.New call InitRecorder.
NewSession ==
  /\ \A c \in Callers : stage[c] = "idle"
  /\ alive' = TRUE
  /\ recorder' = defaultRec
  /\ defaultRec' = "file"
  /\ sessionUSD' = 0
  /\ today' = date
  /\ todayUSD' = file[date]
  /\ lifetimeUSD' = SumOf(file)
  /\ unsaved' = 0
  /\ blind' = missed
  /\ UNCHANGED <<date, file, callVars, admitted, spent, missed>>

\* Rows counted and not written yet, all of them and those dated d.
Unwritten == [c \in Callers |-> IF stage[c] = "counted" THEN cost[c] ELSE 0]
RowsOf(d) == [c \in Callers |-> IF stage[c] = "counted" /\ stamp[c] = d
                              THEN cost[c] ELSE 0]

\* The process ends at any point: calls under way are forgotten.
Exit ==
  /\ alive
  /\ alive' = FALSE
  /\ defaultRec' = "discard"
  /\ stage' = [c \in Callers |-> "idle"]
  /\ unsaved' = unsaved + SumOf(Unwritten)
  /\ missed' = missed + SumOf(RowsOf(date))
  /\ UNCHANGED <<date, meterVars, recorder, file, cost, stamp, admitted, spent, blind>>

Midnight ==
  /\ date < MaxDate
  /\ date' = date + 1
  /\ spent' = 0
  /\ missed' = 0
  /\ blind' = 0
  /\ UNCHANGED <<meterVars, setupVars, file, callVars, admitted, unsaved>>

-----------------------------------------------------------------------------
(* The meter *)

\* rolloverDayLocked: what todayUSD stands at once the stamp is checked.
RolledOver == IF today = date THEN todayUSD ELSE 0

\* MUTANT of WithinCaps: only the day cap blocks.
WithinDayCapOnly(projected) ==
  DayHardCap > 0 => RolledOver + projected <= DayHardCap

\* MUTANT of WithinCaps: only the session cap blocks.
WithinSessionCapOnly(projected) ==
  SessionCap > 0 => sessionUSD + projected <= SessionCap

\* PreCall's two blocking caps; the soft cap only publishes an event.
WithinCaps(projected) ==
  /\ SessionCap > 0 => sessionUSD + projected <= SessionCap
  /\ DayHardCap > 0 => RolledOver + projected <= DayHardCap

PreCall(c, projected) ==
  /\ alive
  /\ stage[c] = "idle"
  /\ today' = date
  /\ todayUSD' = RolledOver
  /\ IF WithinCaps(projected)
     THEN /\ admitted < MaxAdmitted
          /\ admitted' = admitted + 1
          /\ stage' = [stage EXCEPT ![c] = "inflight"]
     ELSE UNCHANGED <<admitted, stage>>
  /\ UNCHANGED <<date, sessionUSD, lifetimeUSD, setupVars, file, cost, stamp,
                 unsaved, dayVars>>

\* The stream ends without usage, or Record's pricing lookup misses.
NoUsage(c) ==
  /\ stage[c] = "inflight"
  /\ stage' = [stage EXCEPT ![c] = "idle"]
  /\ UNCHANGED <<date, meterVars, setupVars, file, cost, stamp, admitted,
                 unsaved, dayVars>>

\* Record takes its timestamp before the lock.
TakeStamp(c, usd) ==
  /\ stage[c] = "inflight"
  /\ stage' = [stage EXCEPT ![c] = "stamped"]
  /\ cost' = [cost EXCEPT ![c] = usd]
  /\ stamp' = [stamp EXCEPT ![c] = date]
  /\ UNCHANGED <<date, meterVars, setupVars, file, admitted, unsaved, dayVars>>

\* The history of the day: a call counted after the midnight that follows its
\* stamp leaves a row dated the day before.
BookToday(c) ==
  /\ spent' = spent + cost[c]
  /\ missed' = IF stamp[c] = date THEN missed ELSE missed + cost[c]
  /\ UNCHANGED blind

\* MUTANT of CountUsage: the lifetime total is left to the next LoadTotals.
CountTodayOnly(c) ==
  /\ stage[c] = "stamped"
  /\ stage' = [stage EXCEPT ![c] = "counted"]
  /\ sessionUSD' = sessionUSD + cost[c]
  /\ today' = date
  /\ todayUSD' = RolledOver + cost[c]
  /\ BookToday(c)
  /\ UNCHANGED <<date, lifetimeUSD, setupVars, file, cost, stamp, admitted,
                 unsaved>>

\* Record under the lock.
CountUsage(c) ==
  /\ stage[c] = "stamped"
  /\ stage' = [stage EXCEPT ![c] = "counted"]
  /\ sessionUSD' = sessionUSD + cost[c]
  /\ today' = date
  /\ todayUSD' = RolledOver + cost[c]
  /\ lifetimeUSD' = lifetimeUSD + cost[c]
  /\ BookToday(c)
  /\ UNCHANGED <<date, setupVars, file, cost, stamp, admitted, unsaved>>

\* recorder.Record after the unlock: a row, nothing (the discarding
\* recorder), or an error the totals are not rolled back for.
WriteRow(c) ==
  /\ stage[c] = "counted"
  /\ stage' = [stage EXCEPT ![c] = "idle"]
  /\ \/ /\ recorder = "file"
        /\ file' = [file EXCEPT ![stamp[c]] = @ + cost[c]]
        /\ UNCHANGED <<unsaved, missed>>
     \/ /\ unsaved' = unsaved + cost[c]
        /\ missed' = IF stamp[c] = date THEN missed + cost[c] ELSE missed
        /\ UNCHANGED file
  /\ UNCHANGED <<date, meterVars, setupVars, cost, stamp, admitted, spent, blind>>

\* Snapshot, the header's readout, rolls the day over too.
Snapshot ==
  /\ alive
  /\ today' = date
  /\ todayUSD' = RolledOver
  /\ UNCHANGED <<date, sessionUSD, lifetimeUSD, setupVars, file, callVars,
                 admitted, unsaved, dayVars>>

ResetSession ==
  /\ alive
  /\ sessionUSD' = 0
  /\ UNCHANGED <<date, todayUSD, lifetimeUSD, today, setupVars, file,
                 callVars, admitted, unsaved, dayVars>>

MeterNext ==
  \/ NewSession
  \/ Exit
  \/ Midnight
  \/ \E c \in Callers, projected \in Costs : PreCall(c, projected)
  \/ \E c \in Callers : NoUsage(c)
  \/ \E c \in Callers, usd \in Costs : TakeStamp(c, usd)
  \/ \E c \in Callers : CountUsage(c)
  \/ \E c \in Callers : WriteRow(c)
  \/ Snapshot
  \/ ResetSession

MeterSpec == MeterInit /\ [][MeterNext]_spendVars

-----------------------------------------------------------------------------
(* Properties *)

\* Calls PreCall has admitted whose cost is not in the totals yet.
InFlight == {c \in Callers : stage[c] \in {"inflight", "stamped"}}

\* PreCall checks, Record adds, and nothing is reserved in between, so the
\* session cap can be overshot; but by no more than what the concurrent
\* callers have under way, whatever order they check and record in.
SessionOvershootBounded ==
  SessionCap > 0 =>
    sessionUSD + Cardinality(InFlight) * MaxCost
      <= SessionCap + Cardinality(Callers) * MaxCost

\* The day's hard cap is about what all sessions of the day spend, and a meter
\* knows of the earlier ones only through the rows dated today. Whatever the
\* order of calls, restarts and midnight, the day's real spend passes the cap by
\* no more than the concurrent callers have under way, and by what had no row
\* dated today when the meter was seeded: rows a discarding recorder dropped,
\* failed to write or never reached, or dated the day before. The comment on
\* rolloverDayLocked (meter.go:270-271) has the cap without that exception.
DayOvershootBounded ==
  DayHardCap > 0 =>
    spent + Cardinality(InFlight) * MaxCost
      <= DayHardCap + Cardinality(Callers) * MaxCost + blind

\* No money is invented or forgotten: what the meter calls lifetime is what
\* the file holds, plus the rows about to be written, plus those that never
\* reached the file.
LifetimeIsAccountedFor ==
  lifetimeUSD = SumOf(file) + SumOf(Unwritten) + unsaved

==============================================================================
