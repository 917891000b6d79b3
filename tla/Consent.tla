------------------------------- MODULE Consent -------------------------------
(***************************************************************************)
(* Registry.Call and the consent gate behind it: internal/ai/tools         *)
(* (registry.go, gate.go, forbidden.go), internal/ai/chat/gate.go and      *)
(* internal/ai/consent (consent.go, modal.go, audit.go).                   *)
(*                                                                         *)
(* Each member of Calls is one Registry.Call, on a goroutine of its own;   *)
(* the registry does not serialise them (tools/gate.go, type Gate).  One   *)
(* action is one critical section of sessionMu, one atomic load of the     *)
(* auto-approve list, or one step between them.                            *)
(***************************************************************************)
EXTENDS Integers, Sequences, FiniteSets

CONSTANTS
  Calls,        \* the Registry.Call invocations
  WriteTools,   \* registered tools with PermissionWrite
  ReadTools,    \* registered tools with PermissionRead
  Refused,      \* names on the forbidden list
  Unknown,      \* names nothing is registered under
  AutoLists,    \* the auto-approve lists configurations may carry
  IdleTimeout,  \* sessionIdleTimeout, in clock ticks
  MaxClock,     \* bound: the clock stops here
  MaxSession    \* bound: ResetSession is called at most this often

Names == WriteTools \cup ReadTools \cup Refused \cup Unknown

ASSUME GateAssumption ==
  /\ IdleTimeout \in Nat \ {0}
  /\ MaxClock \in Nat
  /\ MaxSession \in Nat
  /\ AutoLists \subseteq SUBSET WriteTools
  /\ WriteTools \cap (ReadTools \cup Refused \cup Unknown) = {}
  /\ ReadTools \cap (Refused \cup Unknown) = {}
  /\ Refused \cap Unknown = {}

Approvals == {"approve_once", "approve_session"}
Decisions == Approvals \cup {"deny"}
Never == -1     \* the tool has no entry in sessionApprovals

VARIABLES
  clock,        \* consent.Now
  approvals,    \* sessionApprovals: tool -> time of the last consult, or Never
  autoApprove,  \* the atomic auto-approve list
  sessionID,    \* the audit session identifier (the n-th one generated)
  resetting,    \* ResetSession has cleared the map and not yet rotated the id
  place,        \* where each call is
  req,          \* what each call asked for
  verdict,      \* the gate's Decision, "none" before there is one
  basis,        \* history: why the gate decided so
  audit,        \* the lines handed to audit.jsonl, grouped by call
  outcome       \* what Registry.Call returned

gateVars == <<clock, approvals, autoApprove, sessionID, resetting, place, req,
          verdict, basis, audit, outcome>>

packageVars == <<clock, approvals, autoApprove, sessionID, resetting>>

Places == {"idle", "gate", "consume", "modal", "remember", "record", "resolve",
        "execute", "done"}
Bases == {"none", "no_reason", "auto", "session", "modal"}
Outcomes == {"none", "forbidden", "unknown", "consent_denied", "ok", "error"}
AuditRecord == [tool : Names, decision : Decisions, session : Nat]

GateTypeOK ==
  /\ clock \in Nat
  /\ approvals \in [WriteTools -> Nat \cup {Never}]
  /\ autoApprove \in SUBSET WriteTools
  /\ sessionID \in Nat
  /\ resetting \in BOOLEAN
  /\ place \in [Calls -> Places]
  /\ req \in [Calls -> [tool : Names \cup {"none"}, reason : BOOLEAN]]
  /\ \A c \in Calls : place[c] # "idle" => req[c].tool \in Names
  /\ verdict \in [Calls -> Decisions \cup {"none"}]
  /\ basis \in [Calls -> Bases]
  /\ audit \in [Calls -> Seq(AuditRecord)]
  /\ outcome \in [Calls -> Outcomes]

GateInit ==
  /\ clock = 0
  /\ approvals = [t \in WriteTools |-> Never]
  /\ autoApprove = {}
  /\ sessionID = 0
  /\ resetting = FALSE
  /\ place = [c \in Calls |-> "idle"]
  /\ req = [c \in Calls |-> [tool |-> "none", reason |-> FALSE]]
  /\ verdict = [c \in Calls |-> "none"]
  /\ basis = [c \in Calls |-> "none"]
  /\ audit = [c \in Calls |-> <<>>]
  /\ outcome = [c \in Calls |-> "none"]

-----------------------------------------------------------------------------
(* Registry.Call *)

MoveTo(c, label) == place' = [place EXCEPT ![c] = label]

Return(c, o) ==
  /\ MoveTo(c, "done")
  /\ outcome' = [outcome EXCEPT ![c] = o]

\* The forbidden list is consulted first, then the registry; only a write
\* tool goes through the gate.
Call(c, n, r) ==
  /\ place[c] = "idle"
  /\ req' = [req EXCEPT ![c] = [tool |-> n, reason |-> r]]
  /\ \/ n \in Refused /\ Return(c, "forbidden")
     \/ n \in Unknown /\ Return(c, "unknown")
     \/ n \in ReadTools /\ MoveTo(c, "execute") /\ UNCHANGED outcome
     \/ n \in WriteTools /\ MoveTo(c, "gate") /\ UNCHANGED outcome
  /\ UNCHANGED <<packageVars, verdict, basis, audit>>

\* MUTANT of Resolve: the gate's answer is not looked at.
ResolveUnread(c) ==
  /\ place[c] = "resolve"
  /\ MoveTo(c, "execute")
  /\ UNCHANGED <<packageVars, req, verdict, basis, audit, outcome>>

\* consentGate.Allow's mapping and the deny branch of Registry.Call.
Resolve(c) ==
  /\ place[c] = "resolve"
  /\ \/ verdict[c] \in Approvals /\ MoveTo(c, "execute") /\ UNCHANGED outcome
     \/ verdict[c] = "deny" /\ Return(c, "consent_denied")
  /\ UNCHANGED <<packageVars, req, verdict, basis, audit>>

Execute(c) ==
  /\ place[c] = "execute"
  /\ \E o \in {"ok", "error"} : Return(c, o)
  /\ UNCHANGED <<packageVars, req, verdict, basis, audit>>

-----------------------------------------------------------------------------
(* consent.Gate *)

Decide(c, d, why) ==
  /\ verdict' = [verdict EXCEPT ![c] = d]
  /\ basis' = [basis EXCEPT ![c] = why]

\* The reason is trimmed and checked, then the auto-approve list is loaded.
GateCheck(c) ==
  /\ place[c] = "gate"
  /\ \/ /\ ~req[c].reason
        /\ Decide(c, "deny", "no_reason")
        /\ MoveTo(c, "record")
     \/ /\ req[c].reason
        /\ req[c].tool \in autoApprove
        /\ Decide(c, "approve_once", "auto")
        /\ MoveTo(c, "record")
     \/ /\ req[c].reason
        /\ req[c].tool \notin autoApprove
        /\ MoveTo(c, "consume")
        /\ UNCHANGED <<verdict, basis>>
  /\ UNCHANGED <<packageVars, req, audit, outcome>>

\* MUTANT of Live: the idle timeout is forgotten.
LiveForever(t) == approvals[t] # Never

Live(t) == approvals[t] # Never /\ clock - approvals[t] < IdleTimeout

\* consumeSession: a hit slides the window, an expired entry is deleted.
ConsumeSession(c) ==
  LET t == req[c].tool IN
  /\ place[c] = "consume"
  /\ \/ /\ Live(t)
        /\ approvals' = [approvals EXCEPT ![t] = clock]
        /\ Decide(c, "approve_session", "session")
        /\ MoveTo(c, "record")
     \/ /\ ~Live(t)
        /\ approvals' = [approvals EXCEPT ![t] = Never]
        /\ MoveTo(c, "modal")
        /\ UNCHANGED <<verdict, basis>>
  /\ UNCHANGED <<clock, autoApprove, sessionID, resetting, req, audit, outcome>>

Remembered(d) == d = "approve_session"

\* ShowModal returns what the user chose.
AnswerModal(c, d) ==
  /\ place[c] = "modal"
  /\ Decide(c, d, "modal")
  /\ MoveTo(c, IF Remembered(d) THEN "remember" ELSE "record")
  /\ UNCHANGED <<packageVars, req, audit, outcome>>

\* MUTANT of RememberSession: the remembered branch returns at once.
RememberAndReturn(c) ==
  /\ place[c] = "remember"
  /\ approvals' = [approvals EXCEPT ![req[c].tool] = clock]
  /\ MoveTo(c, "resolve")
  /\ UNCHANGED <<clock, autoApprove, sessionID, resetting, req, verdict,
                 basis, audit, outcome>>

RememberedAt == clock

RememberSession(c) ==
  /\ place[c] = "remember"
  /\ approvals' = [approvals EXCEPT ![req[c].tool] = RememberedAt]
  /\ MoveTo(c, "record")
  /\ UNCHANGED <<clock, autoApprove, sessionID, resetting, req, verdict,
                 basis, audit, outcome>>

\* The line recordAudit writes.
AuditLine(c) ==
  [tool |-> req[c].tool, decision |-> verdict[c], session |-> sessionID]

\* MUTANT of RecordAudit: only approvals are worth a line.
RecordApprovals(c) ==
  /\ place[c] = "record"
  /\ audit' = IF verdict[c] = "deny" THEN audit
              ELSE [audit EXCEPT ![c] = Append(@, AuditLine(c))]
  /\ MoveTo(c, "resolve")
  /\ UNCHANGED <<packageVars, req, verdict, basis, outcome>>

\* recordAudit: one line per decision.  A write that fails is only logged,
\* so it changes nothing here.
RecordAudit(c) ==
  /\ place[c] = "record"
  /\ audit' = [audit EXCEPT ![c] = Append(@, AuditLine(c))]
  /\ MoveTo(c, "resolve")
  /\ UNCHANGED <<packageVars, req, verdict, basis, outcome>>

-----------------------------------------------------------------------------
(* The rest of the consent package's surface, and time *)

\* Every chat.New stores the list of the configuration it was given.
SetAutoApprove(list) ==
  /\ autoApprove' = list
  /\ UNCHANGED <<clock, approvals, sessionID, resetting, place, req,
                 verdict, basis, audit, outcome>>

\* ResetSession clears the map under sessionMu ...
ResetClear ==
  /\ ~resetting
  /\ sessionID < MaxSession
  /\ approvals' = [t \in WriteTools |-> Never]
  /\ resetting' = TRUE
  /\ UNCHANGED <<clock, autoApprove, sessionID, place, req, verdict,
                 basis, audit, outcome>>

\* ... and rotates the session identifier after the unlock.
ResetRotate ==
  /\ resetting
  /\ resetting' = FALSE
  /\ sessionID' = sessionID + 1
  /\ UNCHANGED <<clock, approvals, autoApprove, place, req, verdict,
                 basis, audit, outcome>>

Tick ==
  /\ clock < MaxClock
  /\ clock' = clock + 1
  /\ UNCHANGED <<approvals, autoApprove, sessionID, resetting, place,
                 req, verdict, basis, audit, outcome>>

CallStep(c) ==
  \/ GateCheck(c)
  \/ ConsumeSession(c)
  \/ \E d \in Decisions : AnswerModal(c, d)
  \/ RememberSession(c)
  \/ RecordAudit(c)
  \/ Resolve(c)
  \/ Execute(c)

GateNext ==
  \/ \E c \in Calls, n \in Names, r \in BOOLEAN : Call(c, n, r)
  \/ \E c \in Calls : CallStep(c)
  \/ \E list \in AutoLists : SetAutoApprove(list)
  \/ ResetClear
  \/ ResetRotate
  \/ Tick

GateSpec == GateInit /\ [][GateNext]_gateVars

-----------------------------------------------------------------------------
(* Properties *)

Executed(c) == outcome[c] \in {"ok", "error"}
IsWrite(c) == place[c] # "idle" /\ req[c].tool \in WriteTools

\* The user said yes to this very call.
SaidYes(c) == basis[c] = "modal" /\ verdict[c] \in Approvals

\* Some call of tool t was answered "approve session" by the user.
UserGranted(t) ==
  \E c \in Calls : /\ req[c].tool = t
                   /\ basis[c] = "modal"
                   /\ verdict[c] = "approve_session"

\* No state change without an explicit yes: a write tool that is running or
\* has run was approved in its own modal, was on the auto-approve list, or
\* rides on an "approve session" answer the user gave for that same tool.
\* Registry.Call and consent.Gate, whatever the interleaving.
NoWriteWithoutConsent ==
  \A c \in Calls :
    IsWrite(c) /\ (place[c] = "execute" \/ Executed(c)) =>
      /\ req[c].reason
      /\ \/ SaidYes(c)
         \/ basis[c] = "auto" /\ req[c].tool \in UNION AutoLists
         \/ basis[c] = "session" /\ UserGranted(req[c].tool)

\* A live entry of sessionApprovals was put there by the user: some call of
\* that tool was answered "approve session".
ApprovalsComeFromUser ==
  \A t \in WriteTools : approvals[t] # Never => UserGranted(t)

\* Every decision of the gate is handed to audit.jsonl exactly once, with the
\* tool and the decision Registry.Call goes on to act upon, before the tool
\* runs or the refusal is returned; reads and unknown names leave no line.
AuditedOnceBeforeActing ==
  \A c \in Calls :
    IF IsWrite(c) /\ place[c] \in {"resolve", "execute", "done"}
    THEN /\ Len(audit[c]) = 1
         /\ audit[c][1].tool = req[c].tool
         /\ audit[c][1].decision = verdict[c]
         /\ Executed(c) => audit[c][1].decision \in Approvals
    ELSE audit[c] = <<>>

\* An approval left alone for IdleTimeout never comes back by being
\* consulted: its time moves forward only while it is live, or because a
\* user has just answered "approve session" for that tool.
IdleApprovalLapses ==
  [][\A t \in WriteTools :
       approvals'[t] # approvals[t] /\ approvals'[t] # Never =>
         \/ approvals[t] # Never /\ clock - approvals[t] < IdleTimeout
         \/ \E c \in Calls : place[c] = "remember" /\ place'[c] = "record"
                             /\ req[c].tool = t]_gateVars

\* The gate implements the abstract promise of ConsentedWrites.
AbstractDecided ==
  [c \in Calls |-> IF verdict[c] = "none" THEN "none"
                   ELSE IF verdict[c] = "deny" THEN "deny" ELSE "approve"]

Abstract == INSTANCE ConsentedWrites WITH
  decided <- AbstractDecided,
  onRecord <- {c \in Calls : Len(audit[c]) > 0},
  ran <- {c \in Calls : IsWrite(c) /\ Executed(c)},
  refused <- {c \in Calls : outcome[c] = "consent_denied"}

\* Read as the four variables of ConsentedWrites, every behaviour of the
\* gate decides, records, and then runs or refuses, in that order.
ImplementsConsentedWrites == Abstract!Spec
==============================================================================
