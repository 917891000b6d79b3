------------------------------- MODULE LastUsed -------------------------------
(***************************************************************************)
(* When was a resource last used?  The composers of internal/audit/        *)
(* lastused: each gathers the time signals of its kind, states a           *)
(* confidence by a rule of its own, and Compose lowers it when the signals *)
(* disagree.                                                               *)
(*                                                                         *)
(* A time is its age in days.  in holds what the row says, q what the AWS  *)
(* clients answer; a client that is nil or fails gives no value, like one  *)
(* that found nothing.  Source names, notes and call costs are left out.   *)
(***************************************************************************)
EXTENDS Integers, FiniteSetsExt

NoValue == -1

Unknown == 0
Low     == 1
Medium  == 2
High    == 3

DefaultLookbackDays       == 30
DisagreementThresholdDays == 30

\* The ages of the sources that have a value.
Values(srcs) == {srcs[s] : s \in DOMAIN srcs} \ {NoValue}

\* bestTime: the most recent value.
Best(srcs) == IF Values(srcs) = {} THEN NoValue ELSE Min(Values(srcs))

\* Mutant: a signal without a value counts as fresh.
WithinOrMissing(age, days) == age <= days

Within(age, days) == age # NoValue /\ age <= days

\* Two values are needed; two equal ones agree.
Divergent(srcs) ==
  /\ Values(srcs) # {}
  /\ Max(Values(srcs)) - Min(Values(srcs)) > DisagreementThresholdDays

Compose(srcs, confidence) ==
  [best       |-> Best(srcs),
   confidence |-> IF Divergent(srcs) /\ confidence > Unknown
                  THEN confidence - 1 ELSE confidence]

-----------------------------------------------------------------------------
EC2Instance(in, q) ==
  LET srcs == [launch |-> in.created, cpu |-> q.cpu,
               eni |-> IF in.eniIds THEN q.eni ELSE NoValue]
  IN Compose(srcs, IF Within(q.cpu, in.lookback)        THEN High
                   ELSE IF Best(srcs) = NoValue         THEN Unknown
                   ELSE IF ~Within(Best(srcs), 90)      THEN Low
                   ELSE Medium)

EC2Volume(in, q) ==
  LET srcs     == [attach |-> in.attach, created |-> in.created,
                   write |-> q.write, read |-> q.read]
      recent   == Within(q.write, in.lookback) \/ Within(q.read, in.lookback)
      attached == in.state = "in-use"
  IN Compose(srcs, IF attached /\ recent THEN High
                   ELSE IF attached      THEN Medium
                   ELSE Low)

EC2Snapshot(in, q) ==
  LET srcs == [start |-> in.created, ami |-> q.ami]
  IN Compose(srcs, IF Within(q.ami, 90)            THEN High
                   ELSE IF Best(srcs) = NoValue    THEN Unknown
                   ELSE IF ~Within(Best(srcs), 90) THEN Low
                   ELSE Medium)

\* An associated address counts as used now; no client is asked.
EC2EIP(in, q) ==
  Compose([allocated  |-> in.created,
           associated |-> IF in.associated THEN 0 ELSE NoValue],
          IF in.associated THEN High ELSE Low)

EC2NATGateway(in, q) ==
  LET srcs == [created |-> in.created, bytes |-> q.bytes]
  IN Compose(srcs, IF Within(q.bytes, 7)     THEN High
                   ELSE IF q.bytes = NoValue THEN Low
                   ELSE Medium)

\* elbAccessLogsAdapter never finds a log.
ELBv2LoadBalancer(in, q) ==
  LET srcs == [requests |-> q.requests,
               accessLog |-> IF in.accessLogs THEN q.accessLog ELSE NoValue]
  IN Compose(srcs, IF Within(q.requests, in.lookback) THEN High
                   ELSE IF Best(srcs) = NoValue       THEN Low
                   ELSE Medium)

ELBv2TargetGroup(in, q) ==
  Compose([requests |-> q.requests],
          IF Within(q.requests, in.lookback) THEN High
          ELSE IF in.healthy                 THEN Medium
          ELSE Low)

RDSDBInstance(in, q) ==
  LET srcs == [restorable |-> in.restorable, conns |-> q.conns, cpu |-> q.cpu]
  IN Compose(srcs, IF Within(q.conns, in.lookback) THEN High
                   ELSE IF q.conns = NoValue /\ ~Within(q.cpu, in.lookback)
                        THEN Low
                   ELSE IF Best(srcs) = NoValue    THEN Unknown
                   ELSE Medium)

\* exists stays false when the source is not named or the call fails.
RDSDBSnapshot(in, q) ==
  LET srcs == [created |-> in.created]
  IN Compose(srcs, IF Best(srcs) = NoValue         THEN Unknown
                   ELSE IF ~Within(Best(srcs), 90) THEN Low
                   ELSE Medium)

EFSFileSystem(in, q) ==
  LET srcs == [modified |-> in.modified, io |-> q.io, conns |-> q.conns]
  IN Compose(srcs, IF Within(q.io, in.lookback) \/ Within(q.conns, in.lookback)
                                                              THEN High
                   ELSE IF Best(srcs) = NoValue               THEN Unknown
                   ELSE IF q.io = NoValue /\ q.conns = NoValue THEN Low
                   ELSE Medium)

LogsLogGroup(in, q) ==
  LET srcs == [event |-> q.event, created |-> in.created]
  IN Compose(srcs, IF Within(q.event, 30)                          THEN High
                   ELSE IF ~in.retention                           THEN Low
                   ELSE IF q.event = NoValue /\ Best(srcs) = NoValue THEN Unknown
                   ELSE IF q.event = NoValue                       THEN Low
                   ELSE Medium)

ECRRepository(in, q) ==
  LET srcs == [pushed |-> q.pushed, pulled |-> q.pulled]
  IN Compose(srcs, IF Within(q.pulled, 90)      THEN High
                   ELSE IF Values(srcs) = {}    THEN Unknown
                   ELSE Low)

S3Bucket(in, q) ==
  LET srcs == [object |-> q.object, size |-> q.size]
  IN Compose(srcs, IF Best(srcs) = NoValue THEN Unknown
                   ELSE IF Within(q.object, 30) \/ Within(q.size, 30) THEN Medium
                   ELSE Low)

Pipeline(in, q) ==
  LET srcs == [execution |-> q.execution]
  IN Compose(srcs, IF Within(q.execution, 60)   THEN High
                   ELSE IF Best(srcs) = NoValue THEN Unknown
                   ELSE Low)
=============================================================================
