---------------------------- MODULE ConsentProofs ----------------------------
(***************************************************************************)
(* Proofs about Consent, for any set of calls, tools and auto-approve      *)
(* lists.  The inductive invariant IInv ties the program counter of a call *)
(* to what has been decided and recorded for it (CallOK), and each live    *)
(* entry of sessionApprovals to a user's answer (ApprovalsComeFromUser).   *)
(***************************************************************************)
EXTENDS Consent, TLAPS

\* Why a decided call of a write tool may go ahead.
Justified(c) ==
  verdict[c] \in Approvals =>
    /\ req[c].reason
    /\ \/ basis[c] = "modal"
       \/ basis[c] = "auto" /\ req[c].tool \in UNION AutoLists
       \/ basis[c] = "session" /\ UserGranted(req[c].tool)

Logged(c) ==
  /\ Len(audit[c]) = 1
  /\ audit[c][1].tool = req[c].tool
  /\ audit[c][1].decision = verdict[c]

Undecided(c) == verdict[c] = "none" /\ basis[c] = "none" /\ audit[c] = <<>>

Decided(c) ==
  /\ req[c].tool \in WriteTools
  /\ verdict[c] # "none"
  /\ basis[c] # "none"

CallOK(c) ==
  /\ place[c] # "done" => outcome[c] = "none"
  /\ place[c] \in {"idle", "gate", "consume", "modal"} => Undecided(c)
  /\ place[c] \in {"gate", "consume", "modal"} => req[c].tool \in WriteTools
  /\ place[c] \in {"consume", "modal"} => req[c].reason
  /\ place[c] = "remember" => /\ Decided(c) /\ audit[c] = <<>> /\ req[c].reason
                              /\ basis[c] = "modal"
                              /\ verdict[c] = "approve_session"
  /\ place[c] = "record" => Decided(c) /\ audit[c] = <<>>
  /\ place[c] = "resolve" => Decided(c) /\ Logged(c)
  /\ place[c] = "execute" => \/ Undecided(c) /\ req[c].tool \in ReadTools
                             \/ /\ Decided(c) /\ Logged(c)
                                /\ verdict[c] \in Approvals
  /\ place[c] = "done" => \/ Undecided(c) /\ req[c].tool \notin WriteTools
                                          /\ outcome[c] # "consent_denied"
                          \/ /\ Decided(c) /\ Logged(c)
                             /\ \/ verdict[c] = "deny"
                                   /\ outcome[c] = "consent_denied"
                                \/ verdict[c] \in Approvals /\ Executed(c)

IInv ==
  /\ GateTypeOK
  /\ autoApprove \in AutoLists \cup {{}}
  /\ \A c \in Calls : CallOK(c)
  /\ \A c \in Calls : Justified(c)
  /\ ApprovalsComeFromUser

\* What no step undoes: a user's "approve session" answer stays on record.
LEMMA GrantsPersist ==
  ASSUME IInv, [GateNext]_gateVars, NEW t \in WriteTools, UserGranted(t)
  PROVE  UserGranted(t)'
<1>1. PICK c \in Calls : /\ req[c].tool = t
                         /\ basis[c] = "modal"
                         /\ verdict[c] = "approve_session"
  BY DEF UserGranted
<1>2. place[c] \notin {"idle", "gate", "consume", "modal"}
  BY <1>1 DEF IInv, CallOK, Undecided
<1> DEFINE Kept == /\ req'[c] = req[c]
                   /\ basis'[c] = basis[c]
                   /\ verdict'[c] = verdict[c]
<1>3. Kept
  <2>1. ASSUME NEW d \in Calls, NEW n \in Names, NEW r \in BOOLEAN,
               Call(d, n, r)
        PROVE  Kept
    BY <1>2, <2>1 DEF Call, IInv, GateTypeOK
  <2>2. ASSUME NEW d \in Calls, CallStep(d)
        PROVE  Kept
    BY <1>2, <2>2 DEF CallStep, GateCheck, ConsumeSession, AnswerModal,
       RememberSession, RecordAudit, Resolve, Execute, Decide, IInv, GateTypeOK
  <2>3. ASSUME \/ \E list \in AutoLists : SetAutoApprove(list)
               \/ ResetClear \/ ResetRotate \/ Tick \/ UNCHANGED gateVars
        PROVE  Kept
    BY <2>3 DEF SetAutoApprove, ResetClear, ResetRotate, Tick, gateVars
  <2> HIDE DEF Kept
  <2> QED
    BY <2>1, <2>2, <2>3 DEF GateNext, gateVars
<1> QED
  BY <1>1, <1>3 DEF UserGranted

LEMMA InitIInv == GateInit => IInv
<1> SUFFICES ASSUME GateInit
             PROVE  IInv
  OBVIOUS
<1>1. GateTypeOK
  <2>1. /\ req \in [Calls -> [tool : Names \cup {"none"}, reason : BOOLEAN]]
        /\ audit \in [Calls -> Seq(AuditRecord)]
        /\ approvals \in [WriteTools -> Nat \cup {Never}]
    BY DEF GateInit
  <2> QED
    BY <2>1 DEF GateInit, GateTypeOK, Places, Bases, Outcomes, Decisions
<1>2. autoApprove \in AutoLists \cup {{}}
  BY DEF GateInit
<1>3. \A c \in Calls : CallOK(c)
  BY DEF GateInit, CallOK, Undecided
<1>4. \A c \in Calls : Justified(c)
  BY DEF GateInit, Justified, Approvals
<1>5. ApprovalsComeFromUser
  BY DEF GateInit, ApprovalsComeFromUser
<1> QED
  BY <1>1, <1>2, <1>3, <1>4, <1>5 DEF IInv

\* Every step keeps the types.
LEMMA StepTypeOK == IInv /\ [GateNext]_gateVars => GateTypeOK'
<1> SUFFICES ASSUME IInv, [GateNext]_gateVars
             PROVE  GateTypeOK'
  OBVIOUS
<1>1. ASSUME NEW d \in Calls, NEW n \in Names, NEW r \in BOOLEAN,
             Call(d, n, r)
      PROVE  GateTypeOK'
  BY <1>1 DEF Call, MoveTo, Return, packageVars,
     IInv, GateTypeOK, Places, Bases, Outcomes, Approvals, Decisions
<1>2. ASSUME NEW d \in Calls, CallStep(d)
      PROVE  GateTypeOK'
  <2>1. CASE GateCheck(d)
    BY <2>1 DEF GateCheck, Decide, MoveTo, packageVars,
       IInv, GateTypeOK, Places, Bases, Outcomes, Approvals, Decisions
  <2>2. CASE ConsumeSession(d)
    <3>1. req[d].tool \in WriteTools
      BY <2>2 DEF ConsumeSession, IInv, CallOK
    <3>2. approvals' \in [WriteTools -> Nat \cup {Never}]
      BY <2>2, <3>1 DEF ConsumeSession, IInv, GateTypeOK
    <3>3. /\ place' \in [Calls -> Places]
          /\ verdict' \in [Calls -> Decisions \cup {"none"}]
          /\ basis' \in [Calls -> Bases]
      BY <2>2 DEF ConsumeSession, Decide, MoveTo, IInv, GateTypeOK, Places, Bases,
         Approvals, Decisions
    <3>4. \A c \in Calls : place'[c] # "idle" => req'[c].tool \in Names
      BY <2>2, <3>1 DEF ConsumeSession, MoveTo, IInv, GateTypeOK, Names
    <3> QED
      BY <2>2, <3>2, <3>3, <3>4 DEF ConsumeSession, IInv, GateTypeOK
  <2>3. ASSUME NEW a \in Decisions, AnswerModal(d, a)
        PROVE  GateTypeOK'
    BY <2>3 DEF AnswerModal, Decide, MoveTo, packageVars,
       IInv, GateTypeOK, Places, Bases, Outcomes, Approvals, Decisions
  <2>4. CASE RememberSession(d)
    BY <2>4 DEF RememberSession, RememberedAt, MoveTo, CallOK, Decided,
       IInv, GateTypeOK, Places, Bases, Outcomes, Approvals, Decisions
  <2>5. CASE RecordAudit(d)
    <3>1. AuditLine(d) \in AuditRecord
      BY <2>5 DEF RecordAudit, CallOK, Decided, AuditLine, AuditRecord,
         IInv, GateTypeOK
    <3> QED
      BY <2>5, <3>1 DEF RecordAudit, MoveTo, packageVars,
         IInv, GateTypeOK, Places, Bases, Outcomes, Approvals, Decisions
  <2>6. CASE Resolve(d)
    BY <2>6 DEF Resolve, MoveTo, Return, packageVars,
       IInv, GateTypeOK, Places, Bases, Outcomes, Approvals, Decisions
  <2>7. CASE Execute(d)
    BY <2>7 DEF Execute, MoveTo, Return, packageVars,
       IInv, GateTypeOK, Places, Bases, Outcomes, Approvals, Decisions
  <2> QED
    BY <1>2, <2>1, <2>2, <2>3, <2>4, <2>5, <2>6, <2>7 DEF CallStep
<1>3. ASSUME NEW list \in AutoLists, SetAutoApprove(list)
      PROVE  GateTypeOK'
  BY <1>3, GateAssumption DEF SetAutoApprove,
     IInv, GateTypeOK, Places, Bases, Outcomes, Approvals, Decisions
<1>4. CASE ResetClear
  <2>1. approvals' \in [WriteTools -> Nat \cup {Never}]
    BY <1>4 DEF ResetClear
  <2>2. resetting' \in BOOLEAN
    BY <1>4 DEF ResetClear
  <2> QED
    BY <1>4, <2>1, <2>2 DEF ResetClear, IInv, GateTypeOK
<1>5. CASE ResetRotate
  <2>1. sessionID' \in Nat
    BY <1>5 DEF ResetRotate, IInv, GateTypeOK
  <2>2. resetting' \in BOOLEAN
    BY <1>5 DEF ResetRotate
  <2> QED
    BY <1>5, <2>1, <2>2 DEF ResetRotate, IInv, GateTypeOK
<1>6. CASE Tick
  <2>1. clock' \in Nat
    BY <1>6 DEF Tick, IInv, GateTypeOK
  <2> QED
    BY <1>6, <2>1 DEF Tick, IInv, GateTypeOK
<1>7. CASE UNCHANGED gateVars
  BY <1>7 DEF gateVars, IInv, GateTypeOK
<1> QED
  BY <1>1, <1>2, <1>3, <1>4, <1>5, <1>6, <1>7 DEF GateNext, gateVars

\* Every step keeps each call's program counter in line with what has been
\* decided and recorded for it.
LEMMA StepCallOK ==
  ASSUME IInv, [GateNext]_gateVars, NEW c \in Calls
  PROVE  CallOK(c)'
<1> USE DEF IInv, GateTypeOK, CallOK
<1>1. ASSUME NEW d \in Calls, NEW n \in Names, NEW r \in BOOLEAN,
             Call(d, n, r)
      PROVE  CallOK(c)'
  BY <1>1, GateAssumption
     DEF Call, MoveTo, Return, packageVars, Undecided, Decided, Logged, Executed,
         Names
<1>2. ASSUME NEW d \in Calls, CallStep(d)
      PROVE  CallOK(c)'
  <2> USE DEF Undecided, Decided, Logged, Executed
  <2>1. CASE GateCheck(d)
    BY <2>1 DEF GateCheck, Decide, MoveTo, packageVars, Approvals
  <2>2. CASE ConsumeSession(d)
    BY <2>2 DEF ConsumeSession, Decide, MoveTo
  <2>3. ASSUME NEW a \in Decisions, AnswerModal(d, a)
        PROVE  CallOK(c)'
    BY <2>3 DEF AnswerModal, Remembered, Decide, MoveTo, packageVars, Decisions,
       Approvals
  <2>4. CASE RememberSession(d)
    BY <2>4 DEF RememberSession, MoveTo
  <2>5. CASE RecordAudit(d)
    <3>1. CASE c = d
      <4>1. audit'[d] = Append(<<>>, AuditLine(d))
        BY <2>5 DEF RecordAudit
      <4>2. Len(audit'[d]) = 1 /\ audit'[d][1] = AuditLine(d)
        BY <4>1
      <4> QED
        BY <2>5, <3>1, <4>2 DEF RecordAudit, MoveTo, AuditLine
    <3>2. CASE c # d
      BY <2>5, <3>2 DEF RecordAudit, MoveTo
    <3> QED BY <3>1, <3>2
  <2>6. CASE Resolve(d)
    BY <2>6 DEF Resolve, MoveTo, Return, packageVars, Approvals
  <2>7. CASE Execute(d)
    BY <2>7, GateAssumption
       DEF Execute, MoveTo, Return, packageVars, Approvals
  <2> QED
    BY <1>2, <2>1, <2>2, <2>3, <2>4, <2>5, <2>6, <2>7 DEF CallStep
<1>3. CASE \/ \E list \in AutoLists : SetAutoApprove(list)
           \/ ResetClear \/ ResetRotate \/ Tick \/ UNCHANGED gateVars
  BY <1>3 DEF SetAutoApprove, ResetClear, ResetRotate, Tick, gateVars,
     Undecided, Decided, Logged, Executed
<1> QED
  BY <1>1, <1>2, <1>3 DEF GateNext, gateVars

\* Every approval stays justified, and a new one is when it is given.
LEMMA StepJustified ==
  ASSUME IInv, [GateNext]_gateVars, NEW c \in Calls
  PROVE  Justified(c)'
<1> USE DEF IInv, GateTypeOK, Approvals
<1>0. ASSUME NEW t \in WriteTools, UserGranted(t)
      PROVE  UserGranted(t)'
  BY <1>0, GrantsPersist
<1>1. ASSUME /\ req'[c].tool = req[c].tool /\ req'[c].reason = req[c].reason
             /\ basis'[c] = basis[c] /\ verdict'[c] = verdict[c]
      PROVE  Justified(c)'
  <2>1. CASE verdict[c] = "none"
    BY <1>1, <2>1 DEF Justified
  <2>2. CASE verdict[c] # "none"
    <3>1. req[c].tool \in WriteTools
      BY <2>2 DEF CallOK, Undecided, Decided, Places
    <3> QED
      BY <1>0, <1>1, <3>1 DEF Justified
  <2> QED BY <2>1, <2>2
<1>2. ASSUME NEW d \in Calls, NEW n \in Names, NEW r \in BOOLEAN,
             Call(d, n, r)
      PROVE  Justified(c)'
  <2>1. CASE c = d
    BY <1>2, <2>1 DEF Call, CallOK, Undecided, Justified
  <2>2. CASE c # d
    BY <1>1, <1>2, <2>2 DEF Call
  <2> QED BY <2>1, <2>2
<1>3. ASSUME NEW d \in Calls, CallStep(d)
      PROVE  Justified(c)'
  <2>1. CASE c # d
    BY <1>1, <1>3, <2>1 DEF CallStep, GateCheck, ConsumeSession, AnswerModal,
       RememberSession, RecordAudit, Resolve, Execute, Decide
  <2>2. CASE c = d /\ GateCheck(c)
    <3>1. req[c].tool \in WriteTools /\ verdict[c] = "none"
      BY <2>2 DEF GateCheck, CallOK, Undecided
    <3> QED
      BY <2>2, <3>1 DEF GateCheck, Decide, Justified
  <2>3. CASE c = d /\ ConsumeSession(c)
    <3>1. req[c].tool \in WriteTools /\ req[c].reason /\ verdict[c] = "none"
      BY <2>3 DEF ConsumeSession, CallOK, Undecided
    <3>2. CASE Live(req[c].tool)
      <4>1. PICK t \in WriteTools : t = req[c].tool
        BY <3>1
      <4>2. req'[c] = req[c]
        BY <2>3 DEF ConsumeSession
      <4>3. UserGranted(t)'
        BY <1>0, <3>2, <4>1 DEF Live, ApprovalsComeFromUser
      <4> QED
        BY <2>3, <3>1, <3>2, <4>1, <4>2, <4>3
           DEF ConsumeSession, Decide, Justified
    <3>3. CASE ~Live(req[c].tool)
      BY <1>1, <2>3, <3>3 DEF ConsumeSession
    <3> QED BY <3>2, <3>3
  <2>4. ASSUME NEW a \in Decisions, c = d, AnswerModal(c, a)
        PROVE  Justified(c)'
    <3>1. req[c].reason
      BY <2>4 DEF AnswerModal, CallOK
    <3> QED
      BY <2>4, <3>1 DEF AnswerModal, Decide, Justified
  <2>5. CASE c = d /\ (RememberSession(c) \/ RecordAudit(c) \/ Resolve(c)
                      \/ Execute(c))
    BY <1>1, <2>5 DEF RememberSession, RecordAudit, Resolve, Execute
  <2> QED
    BY <1>3, <2>1, <2>2, <2>3, <2>4, <2>5 DEF CallStep
<1>4. CASE \/ \E list \in AutoLists : SetAutoApprove(list)
           \/ ResetClear \/ ResetRotate \/ Tick \/ UNCHANGED gateVars
  BY <1>1, <1>4 DEF SetAutoApprove, ResetClear, ResetRotate, Tick, gateVars
<1> QED
  BY <1>2, <1>3, <1>4 DEF GateNext, gateVars

\* Only a user's answer creates an entry of sessionApprovals.
LEMMA StepApprovals == IInv /\ [GateNext]_gateVars => ApprovalsComeFromUser'
<1> SUFFICES ASSUME IInv, [GateNext]_gateVars, NEW t \in WriteTools,
                    approvals'[t] # Never
             PROVE  UserGranted(t)'
  BY DEF ApprovalsComeFromUser
<1> USE DEF IInv, GateTypeOK
<1>1. CASE approvals[t] # Never
  BY <1>1, GrantsPersist DEF ApprovalsComeFromUser
<1>2. CASE approvals[t] = Never
  <2>1. ASSUME NEW d \in Calls, CallStep(d)
        PROVE  UserGranted(t)'
    <3>1. CASE RememberSession(d)
      <4>1. req[d].tool = t
        BY <1>2, <3>1 DEF RememberSession
      <4>2. basis[d] = "modal" /\ verdict[d] = "approve_session"
        BY <3>1 DEF RememberSession, CallOK
      <4> QED
        BY <3>1, <4>1, <4>2 DEF RememberSession, UserGranted
    <3>2. CASE ~RememberSession(d)
      <4>1. approvals'[t] = approvals[t]
        BY <1>2, <2>1, <3>2 DEF CallStep, GateCheck, ConsumeSession, AnswerModal,
           RecordAudit, Resolve, Execute, packageVars, Live
      <4> QED BY <1>2, <4>1
    <3> QED BY <3>1, <3>2
  <2>2. ASSUME NEW d \in Calls, NEW n \in Names, NEW r \in BOOLEAN,
               Call(d, n, r)
        PROVE  FALSE
    BY <1>2, <2>2 DEF Call, packageVars
  <2>3. CASE \/ \E list \in AutoLists : SetAutoApprove(list)
             \/ ResetClear \/ ResetRotate \/ Tick \/ UNCHANGED gateVars
    BY <1>2, <2>3 DEF SetAutoApprove, ResetClear, ResetRotate, Tick, gateVars
  <2> QED
    BY <2>1, <2>2, <2>3 DEF GateNext, gateVars
<1> QED
  BY <1>1, <1>2

LEMMA StepIInv == IInv /\ [GateNext]_gateVars => IInv'
<1> SUFFICES ASSUME IInv, [GateNext]_gateVars
             PROVE  IInv'
  OBVIOUS
<1>1. GateTypeOK'
  BY StepTypeOK
<1>2. autoApprove' \in AutoLists \cup {{}}
  <2>1. autoApprove \in AutoLists \cup {{}}
    BY DEF IInv
  <2> QED
    BY <2>1 DEF GateNext, CallStep, Call, GateCheck, ConsumeSession, AnswerModal,
       RememberSession, RecordAudit, Resolve, Execute, SetAutoApprove,
       ResetClear, ResetRotate, Tick, packageVars, gateVars
<1>3. \A c \in Calls : CallOK(c)'
  BY StepCallOK
<1>4. \A c \in Calls : Justified(c)'
  BY StepJustified
<1>5. ApprovalsComeFromUser'
  BY StepApprovals
<1> QED
  BY <1>1, <1>2, <1>3, <1>4, <1>5 DEF IInv

THEOREM Invariance == GateSpec => []IInv
BY InitIInv, StepIInv, PTL DEF GateSpec

\* Every variable of the gate keeps its type, for any constants.
THEOREM TypeCorrect == GateSpec => []GateTypeOK
<1>1. IInv => GateTypeOK
  BY DEF IInv
<1> QED
  BY <1>1, Invariance, PTL

\* No write tool runs without the user's yes, a configured auto-approval or
\* an "approve session" answer for that tool, however the calls interleave.
THEOREM WritesAreConsented == GateSpec => []NoWriteWithoutConsent
<1>1. IInv => NoWriteWithoutConsent
  <2> SUFFICES ASSUME IInv, NEW c \in Calls, IsWrite(c),
                      place[c] = "execute" \/ Executed(c)
               PROVE  /\ req[c].reason
                      /\ \/ SaidYes(c)
                         \/ basis[c] = "auto"
                            /\ req[c].tool \in UNION AutoLists
                         \/ basis[c] = "session" /\ UserGranted(req[c].tool)
    BY DEF NoWriteWithoutConsent
  <2>1. place[c] \in {"execute", "done"}
    BY DEF IInv, CallOK, Executed
  <2>2. verdict[c] \in Approvals
    BY <2>1, GateAssumption
       DEF IInv, CallOK, IsWrite, Executed
  <2> QED
    BY <2>2 DEF IInv, Justified, SaidYes
<1> QED
  BY <1>1, Invariance, PTL

\* The audit log gets each decision exactly once, before it is acted upon.
THEOREM DecisionsAreAudited == GateSpec => []AuditedOnceBeforeActing
<1>1. IInv => AuditedOnceBeforeActing
  <2> SUFFICES ASSUME IInv, NEW c \in Calls
               PROVE  IF IsWrite(c) /\ place[c] \in {"resolve", "execute", "done"}
                      THEN /\ Len(audit[c]) = 1
                           /\ audit[c][1].tool = req[c].tool
                           /\ audit[c][1].decision = verdict[c]
                           /\ Executed(c) => audit[c][1].decision \in Approvals
                      ELSE audit[c] = <<>>
    BY DEF AuditedOnceBeforeActing
  <2>1. place[c] \in Places
    BY DEF IInv, GateTypeOK
  <2>2. CASE IsWrite(c) /\ place[c] \in {"resolve", "execute", "done"}
    BY <2>2, GateAssumption
       DEF IInv, CallOK, IsWrite, Executed, Logged, Undecided, Approvals
  <2>3. CASE ~(IsWrite(c) /\ place[c] \in {"resolve", "execute", "done"})
    BY <2>1, <2>3
       DEF IInv, CallOK, IsWrite, Logged, Undecided, Decided, Places
  <2> QED BY <2>2, <2>3
<1> QED
  BY <1>1, Invariance, PTL

THEOREM GrantsAreUserMade == GateSpec => []ApprovalsComeFromUser
<1>1. IInv => ApprovalsComeFromUser
  BY DEF IInv
<1> QED
  BY <1>1, Invariance, PTL

\* No step of any call brings an approval that has lapsed back: its time moves
\* only while it is live, or when a user's "approve session" is remembered
\* (consumeSession, rememberSession).
THEOREM LapsedStaysLapsed == GateSpec => IdleApprovalLapses
<1> DEFINE Renewed(t) == \E c \in Calls : place[c] = "remember" /\ place'[c] = "record"
                                          /\ req[c].tool = t
           Lawful(t) == approvals'[t] # approvals[t] /\ approvals'[t] # Never =>
                          \/ approvals[t] # Never /\ clock - approvals[t] < IdleTimeout
                          \/ Renewed(t)
<1>1. ASSUME IInv, [GateNext]_gateVars, NEW t \in WriteTools
      PROVE  Lawful(t)
  <2> USE <1>1
  <2>1. ASSUME NEW d \in Calls, CallStep(d)
        PROVE  Lawful(t)
    <3>1. CASE ConsumeSession(d)
      <4>1. CASE req[d].tool = t
        BY <3>1, <4>1 DEF ConsumeSession, Live, IInv, GateTypeOK
      <4>2. CASE req[d].tool # t
        BY <3>1, <4>2 DEF ConsumeSession, IInv, GateTypeOK
      <4> QED
        BY <4>1, <4>2
    <3>2. CASE RememberSession(d)
      <4>1. CASE req[d].tool = t
        BY <3>2, <4>1 DEF RememberSession, MoveTo, IInv, GateTypeOK
      <4>2. CASE req[d].tool # t
        BY <3>2, <4>2 DEF RememberSession, IInv, GateTypeOK
      <4> QED
        BY <4>1, <4>2
    <3>3. CASE ~ConsumeSession(d) /\ ~RememberSession(d)
      BY <2>1, <3>3 DEF CallStep, GateCheck, AnswerModal, RecordAudit, Resolve,
         Execute, packageVars
    <3> QED
      BY <3>1, <3>2, <3>3
  <2>2. CASE ~ResetClear /\ ~\E d \in Calls : CallStep(d)
    BY <2>2 DEF GateNext, Call, SetAutoApprove, ResetRotate, Tick, packageVars, gateVars
  <2>3. CASE ResetClear
    BY <2>3 DEF ResetClear
  <2> QED
    BY <2>1, <2>2, <2>3
<1>2. IInv /\ [GateNext]_gateVars => \A t \in WriteTools : Lawful(t)
  BY <1>1
<1>3. IInv /\ [GateNext]_gateVars =>
        [\A t \in WriteTools :
           approvals'[t] # approvals[t] /\ approvals'[t] # Never =>
             \/ approvals[t] # Never /\ clock - approvals[t] < IdleTimeout
             \/ \E c \in Calls : place[c] = "remember" /\ place'[c] = "record"
                                 /\ req[c].tool = t]_gateVars
  BY <1>2
<1> QED
  BY <1>3, Invariance, PTL DEF GateSpec, IdleApprovalLapses

-----------------------------------------------------------------------------
(* The gate implements ConsentedWrites *)

onRecordBar == {c \in Calls : Len(audit[c]) > 0}
ranBar == {c \in Calls : IsWrite(c) /\ Executed(c)}
refusedBar == {c \in Calls : outcome[c] = "consent_denied"}

\* A step that leaves the four mapped variables alone is a stutter.
Stutters ==
  /\ AbstractDecided' = AbstractDecided
  /\ onRecordBar' = onRecordBar
  /\ ranBar' = ranBar
  /\ refusedBar' = refusedBar

LEMMA InitRefines == GateInit => Abstract!Init
BY DEF GateInit, Abstract!Init, AbstractDecided, IsWrite, Executed

LEMMA CallStutters ==
  ASSUME IInv, NEW d \in Calls, NEW n \in Names, NEW r \in BOOLEAN,
         Call(d, n, r)
  PROVE  Stutters
<1>1. AbstractDecided' = AbstractDecided /\ onRecordBar' = onRecordBar
  BY DEF Call, AbstractDecided, onRecordBar
<1>2. ranBar' = ranBar /\ refusedBar' = refusedBar
  <2>1. outcome[d] = "none" /\ place[d] = "idle"
    BY DEF Call, IInv, CallOK
  <2>2. \A c \in Calls : c # d =>
          place'[c] = place[c] /\ req'[c] = req[c] /\ outcome'[c] = outcome[c]
    BY DEF Call, MoveTo, Return, IInv, GateTypeOK
  <2>3. outcome'[d] \in {"none", "forbidden", "unknown"}
    BY <2>1 DEF Call, Return, IInv, GateTypeOK
  <2> QED
    BY <2>1, <2>2, <2>3 DEF ranBar, refusedBar, IsWrite, Executed
<1> QED
  BY <1>1, <1>2 DEF Stutters

LEMMA LoggedIsOnRecord ==
  ASSUME NEW c \in Calls, Logged(c)
  PROVE  c \in onRecordBar
<1>1. Len(audit[c]) = 1
  BY DEF Logged
<1>2. Len(audit[c]) > 0
  BY <1>1
<1> QED
  BY <1>2 DEF onRecordBar

LEMMA StepRefines ==
  ASSUME IInv, NEW d \in Calls, CallStep(d)
  PROVE  Stutters \/ Abstract!Decide(d) \/ Abstract!Record(d)
                  \/ Abstract!Run(d) \/ Abstract!Refuse(d)
<1> USE DEF IInv, GateTypeOK
<1>1. ASSUME UNCHANGED <<audit, place, outcome, req>> \/
             (UNCHANGED <<audit, outcome, req>> /\ place[d] # "idle"
               /\ \E l \in Places \ {"idle"} : MoveTo(d, l))
      PROVE  onRecordBar' = onRecordBar /\ ranBar' = ranBar
             /\ refusedBar' = refusedBar
  BY <1>1 DEF onRecordBar, ranBar, refusedBar, IsWrite, Executed, MoveTo
<1>2. ASSUME NEW v \in Decisions, NEW b \in Bases \ {"none"}, Decide(d, v, b),
             verdict[d] = "none"
      PROVE  /\ AbstractDecided[d] = "none"
             /\ \E a \in {"approve", "deny"} :
                  AbstractDecided' = [AbstractDecided EXCEPT ![d] = a]
  BY <1>2 DEF Decide, AbstractDecided, Decisions, Approvals
<1>3. ASSUME UNCHANGED verdict
      PROVE  AbstractDecided' = AbstractDecided
  BY <1>3 DEF AbstractDecided
<1>4. CASE GateCheck(d)
  <2>1. onRecordBar' = onRecordBar /\ ranBar' = ranBar
        /\ refusedBar' = refusedBar
    BY <1>1, <1>4 DEF GateCheck, Places
  <2>2. verdict[d] = "none"
    BY <1>4 DEF GateCheck, CallOK, Undecided
  <2> QED
    BY <1>2, <1>3, <1>4, <2>1, <2>2 DEF GateCheck, Stutters, Abstract!Decide,
       onRecordBar, ranBar, refusedBar, Decisions, Approvals, Bases
<1>5. CASE ConsumeSession(d)
  <2>1. onRecordBar' = onRecordBar /\ ranBar' = ranBar
        /\ refusedBar' = refusedBar
    BY <1>1, <1>5 DEF ConsumeSession, Places
  <2>2. verdict[d] = "none"
    BY <1>5 DEF ConsumeSession, CallOK, Undecided
  <2> QED
    BY <1>2, <1>3, <1>5, <2>1, <2>2 DEF ConsumeSession, Stutters,
       Abstract!Decide, onRecordBar, ranBar, refusedBar, Decisions, Approvals,
       Bases
<1>6. ASSUME NEW a \in Decisions, AnswerModal(d, a)
      PROVE  Abstract!Decide(d)
  <2>1. onRecordBar' = onRecordBar /\ ranBar' = ranBar
        /\ refusedBar' = refusedBar
    BY <1>1, <1>6 DEF AnswerModal, Places
  <2>2. verdict[d] = "none"
    BY <1>6 DEF AnswerModal, CallOK, Undecided
  <2> QED
    BY <1>2, <1>6, <2>1, <2>2 DEF AnswerModal, Abstract!Decide,
       onRecordBar, ranBar, refusedBar, Bases
<1>7. CASE RememberSession(d)
  BY <1>1, <1>3, <1>7 DEF RememberSession, Stutters, Places
<1>8. CASE RecordAudit(d)
  <2>1. audit[d] = <<>> /\ verdict[d] # "none"
    BY <1>8 DEF RecordAudit, CallOK, Decided
  <2>2. onRecordBar' = onRecordBar \cup {d} /\ d \notin onRecordBar
    <3>1. audit'[d] = Append(<<>>, AuditLine(d))
      BY <1>8, <2>1 DEF RecordAudit
    <3>2. Len(audit'[d]) = 1 /\ Len(audit[d]) = 0
      BY <2>1, <3>1
    <3>3. \A c \in Calls : c # d => audit'[c] = audit[c]
      BY <1>8 DEF RecordAudit
    <3>4. \A c \in Calls : c \in onRecordBar' <=> Len(audit'[c]) > 0
      BY DEF onRecordBar
    <3>5. \A c \in Calls : c \in onRecordBar <=> Len(audit[c]) > 0
      BY DEF onRecordBar
    <3>6. onRecordBar \subseteq Calls /\ onRecordBar' \subseteq Calls
      BY DEF onRecordBar
    <3>7. Len(audit'[d]) > 0 /\ ~(Len(audit[d]) > 0)
      BY <3>2
    <3>8. d \in onRecordBar' /\ d \notin onRecordBar
      BY <3>4, <3>5, <3>7
    <3> QED
      BY <3>3, <3>4, <3>5, <3>6, <3>8
  <2>3. ranBar' = ranBar /\ refusedBar' = refusedBar
    BY <1>8 DEF RecordAudit, MoveTo, ranBar, refusedBar, IsWrite, Executed
  <2>4. AbstractDecided' = AbstractDecided /\ AbstractDecided[d] # "none"
    BY <1>8, <2>1 DEF RecordAudit, AbstractDecided
  <2> QED
    BY <2>2, <2>3, <2>4 DEF Abstract!Record, onRecordBar, ranBar, refusedBar
<1>9. CASE Resolve(d)
  <2>1. onRecordBar' = onRecordBar /\ AbstractDecided' = AbstractDecided
    BY <1>9 DEF Resolve, onRecordBar, AbstractDecided
  <2>2. Decided(d) /\ Logged(d) /\ outcome[d] = "none"
    BY <1>9 DEF Resolve, CallOK
  <2>3. ranBar' = ranBar
    BY <1>9, <2>2 DEF Resolve, MoveTo, Return, ranBar, IsWrite, Executed
  <2>4. CASE verdict[d] = "deny"
    <3>1. refusedBar' = refusedBar \cup {d} /\ d \notin refusedBar
      BY <1>9, <2>2, <2>4 DEF Resolve, MoveTo, Return, refusedBar, Approvals
    <3>2. AbstractDecided[d] = "deny"
      BY <2>4 DEF AbstractDecided
    <3>3. d \in onRecordBar
      BY <2>2, LoggedIsOnRecord
    <3> QED
      BY <2>1, <2>3, <3>1, <3>2, <3>3
         DEF Abstract!Refuse, onRecordBar, ranBar, refusedBar
  <2>5. CASE verdict[d] # "deny"
    BY <1>9, <2>1, <2>3, <2>5 DEF Resolve, Stutters, refusedBar
  <2> QED BY <2>4, <2>5
<1>10. CASE Execute(d)
  <2>1. onRecordBar' = onRecordBar /\ AbstractDecided' = AbstractDecided
    BY <1>10 DEF Execute, onRecordBar, AbstractDecided
  <2>2. outcome[d] = "none"
    BY <1>10 DEF Execute, CallOK
  <2>3. refusedBar' = refusedBar
    BY <1>10, <2>2 DEF Execute, MoveTo, Return, refusedBar
  <2>4. CASE req[d].tool \in WriteTools
    <3>1. ranBar' = ranBar \cup {d} /\ d \notin ranBar
      BY <1>10, <2>2, <2>4 DEF Execute, MoveTo, Return, ranBar, IsWrite, Executed
    <3>2. Logged(d) /\ verdict[d] \in Approvals
      BY <1>10, <2>4, GateAssumption DEF Execute, CallOK
    <3>3. AbstractDecided[d] = "approve"
      BY <3>2 DEF AbstractDecided, Approvals
    <3>4. d \in onRecordBar
      BY <3>2, LoggedIsOnRecord
    <3> QED
      BY <2>1, <2>3, <3>1, <3>3, <3>4
         DEF Abstract!Run, onRecordBar, ranBar, refusedBar
  <2>5. CASE req[d].tool \notin WriteTools
    <3>1. ranBar' = ranBar
      BY <1>10, <2>5 DEF Execute, MoveTo, Return, ranBar, IsWrite, Executed
    <3> QED
      BY <2>1, <2>3, <3>1 DEF Stutters
  <2> QED BY <2>4, <2>5
<1> QED
  BY <1>4, <1>5, <1>6, <1>7, <1>8, <1>9, <1>10 DEF CallStep

\* Every behaviour of the gate, read through the mapping, is a behaviour of
\* the abstract promise: decide, record, then run or refuse.
THEOREM ConsentRefines == GateSpec => ImplementsConsentedWrites
<1>1. IInv /\ [GateNext]_gateVars => [Abstract!Next]_(Abstract!vars)
  <2> SUFFICES ASSUME IInv, [GateNext]_gateVars
               PROVE  \/ Stutters
                      \/ \E c \in Calls :
                           \/ Abstract!Decide(c) \/ Abstract!Record(c)
                           \/ Abstract!Run(c) \/ Abstract!Refuse(c)
    BY DEF Abstract!Next, Abstract!vars, Stutters, onRecordBar, ranBar,
       refusedBar
  <2>1. ASSUME NEW d \in Calls, NEW n \in Names, NEW r \in BOOLEAN,
               Call(d, n, r)
        PROVE  Stutters
    BY <2>1, CallStutters
  <2>2. ASSUME NEW d \in Calls, CallStep(d)
        PROVE  Stutters \/ Abstract!Decide(d) \/ Abstract!Record(d)
                        \/ Abstract!Run(d) \/ Abstract!Refuse(d)
    BY <2>2, StepRefines
  <2>3. CASE \/ \E list \in AutoLists : SetAutoApprove(list)
             \/ ResetClear \/ ResetRotate \/ Tick \/ UNCHANGED gateVars
    BY <2>3 DEF SetAutoApprove, ResetClear, ResetRotate, Tick, gateVars, Stutters,
       AbstractDecided, onRecordBar, ranBar, refusedBar, IsWrite, Executed
  <2> QED
    BY <2>1, <2>2, <2>3 DEF GateNext, gateVars
<1> QED
  BY <1>1, InitRefines, Invariance, PTL
     DEF GateSpec, ImplementsConsentedWrites, Abstract!Spec
==============================================================================
