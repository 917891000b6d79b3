-------------------------------- MODULE Enrich --------------------------------
(***************************************************************************)
(* internal/audit/postprocess: one row of a scan gets its idleness verdict *)
(* and its monthly cost.                                                   *)
(*                                                                         *)
(* What AWS knows of the resource is facts; the row is what the scanner    *)
(* kept of it.  newClients builds its adapters only when the audit client  *)
(* tells its aws.Config, which the one of this repository does not; the    *)
(* rows and clients of the package's tests do.  wired says which of the    *)
(* two a behaviour is about: FALSE is a scan of the program, TRUE a row    *)
(* with its Raw fields and working clients.                                *)
(***************************************************************************)
EXTENDS Integers, Sequences, FiniteSets

L == INSTANCE LastUsed
C == INSTANCE CostEstimate
S == INSTANCE Scanners

CONSTANTS Ages,     \* days a fact may lie back
          Snap      \* the price list, see CostEstimate

\* An age is a number of days; a price list has its region's hourly price of an
\* idle address, as each of the embedded ones does.
EnrichAssumption ==
  /\ Ages \subseteq Nat
  /\ <<"eip", "">> \in DOMAIN Snap
  /\ Snap[<<"eip", "">>].hour \in Nat /\ Snap[<<"eip", "">>].hour > 0

NoValue == L!NoValue

\* What the dispatchers of lastused.go and cost.go read, kind by kind: from
\* the row itself, from Raw, and from the clients.
OwnFields(kind) ==
  CASE kind = "ec2/volume" -> {"created", "state"}
    [] kind = "rds/db-instance" -> {"state"}
    [] kind = "ec2/instance" -> {"created", "state"}
    [] kind \in {"ec2/snapshot", "ec2/eip", "ec2/nat-gateway", "rds/db-snapshot",
                 "logs/log-group"} -> {"created"}
    [] OTHER -> {}

RawFields(kind) ==
  CASE kind = "ec2/instance" -> {"eniIds", "type"}
    [] kind = "ec2/volume" -> {"attach", "gb"}
    [] kind = "ec2/eip" -> {"associated"}
    [] kind = "elbv2/load-balancer" -> {"accessLogs"}
    [] kind = "elbv2/target-group" -> {"healthy"}
    [] kind = "rds/db-instance" -> {"restorable", "type", "gb"}
    [] kind = "efs/file-system" -> {"modified", "gb"}
    [] kind = "logs/log-group" -> {"retention", "gb"}
    [] kind = "codepipeline/artifacts" -> {"active"}
    [] kind = "ec2/nat-gateway" -> {}
    [] OTHER -> {"gb"}

Metrics == {"cpu", "write", "read", "bytes", "requests", "conns", "io", "size"}

Queries(kind) ==
  CASE kind = "ec2/instance" -> {"cpu", "eni"}
    [] kind = "ec2/volume" -> {"write", "read"}
    [] kind = "ec2/snapshot" -> {"ami"}
    [] kind = "ec2/nat-gateway" -> {"bytes"}
    [] kind \in {"elbv2/load-balancer", "elbv2/target-group"} -> {"requests"}
    [] kind = "rds/db-instance" -> {"conns", "cpu"}
    [] kind = "efs/file-system" -> {"io", "conns"}
    [] kind = "logs/log-group" -> {"event"}
    [] kind = "ecr/repository" -> {"pushed", "pulled"}
    [] kind = "s3/bucket" -> {"object", "size"}
    [] kind = "codepipeline/artifacts" -> {"execution"}
    [] OTHER -> {}

\* What a getter returns for a key that Raw lacks, a row that was not filled
\* and a query without an answer.
Missing ==
  [created |-> NoValue, state |-> "", eniIds |-> FALSE, type |-> "", attach |-> NoValue,
   gb |-> 0, associated |-> FALSE, accessLogs |-> FALSE, healthy |-> FALSE,
   restorable |-> NoValue, modified |-> NoValue, retention |-> FALSE,
   active |-> FALSE, cpu |-> NoValue, eni |-> NoValue, write |-> NoValue,
   read |-> NoValue, ami |-> NoValue, bytes |-> NoValue, requests |-> NoValue,
   accessLog |-> NoValue, conns |-> NoValue, io |-> NoValue, event |-> NoValue,
   pushed |-> NoValue, pulled |-> NoValue, object |-> NoValue, size |-> NoValue,
   execution |-> NoValue,
   lookback |-> L!DefaultLookbackDays, platform |-> "", multiAZ |-> FALSE,
   storage |-> "", class |-> "", iops |-> 0, mbps |-> 0, lcu |-> 0]

Fields(kind) == OwnFields(kind) \cup RawFields(kind) \cup Queries(kind)

Times == {"created", "attach", "restorable", "modified", "eni", "ami", "event",
          "pushed", "pulled", "object", "execution"} \cup Metrics
Flags == {"eniIds", "associated", "accessLogs", "healthy", "retention", "active"}
States(kind) == IF kind = "ec2/volume" THEN {"in-use", "available"}
                ELSE {"running", "stopped"}

\* What can be the case for a resource of a kind.  A metric is asked for the
\* lookback window only.
Facts(kind) ==
  {[x \in DOMAIN Missing |->
      IF x \notin Fields(kind) THEN Missing[x]
      ELSE IF x \in Times THEN t[x]
      ELSE IF x \in Flags THEN f[x]
      ELSE IF x = "state" THEN w[1]
      ELSE IF x = "type" THEN w[2] ELSE gb] :
     t \in {v \in [Fields(kind) \cap Times -> Ages \cup {NoValue}] :
              \A x \in DOMAIN v \cap Metrics : v[x] <= L!DefaultLookbackDays},
     f \in [Fields(kind) \cap Flags -> BOOLEAN],
     w \in States(kind) \X {"priced", "new"},
     gb \in {0, 10}}

VARIABLES
  step,     \* "idle", "found", "asking", "judged", "over"
  wired,
  kind,
  facts,    \* what is the case
  row,      \* what the scanner kept
  toAsk,    \* queries the composer has still to make
  failed,   \* queries that failed
  verdict,  \* LastUsed
  cost      \* CostEstimate

vars == <<step, wired, kind, facts, row, toAsk, failed, verdict, cost>>

NoVerdict == [best |-> NoValue, confidence |-> L!Unknown]

TypeOK ==
  /\ step \in {"idle", "found", "asking", "judged", "over"}
  /\ wired \in BOOLEAN
  /\ kind \in S!Kinds
  /\ DOMAIN facts = DOMAIN Missing /\ DOMAIN row = DOMAIN Missing
  /\ toAsk \cap failed = {} /\ toAsk \cup failed \subseteq Queries(kind)
  /\ verdict \in [best : Ages \cup {0, NoValue}, confidence : L!Unknown..L!High]
  /\ cost.confidence \in L!Unknown..L!High /\ cost.usd >= 0

Init ==
  /\ step = "idle"
  /\ wired \in BOOLEAN
  /\ kind = "ec2/eip"
  /\ facts = Missing
  /\ row = Missing
  /\ toAsk = {}
  /\ failed = {}
  /\ verdict = NoVerdict
  /\ cost = C!Unavailable

\* The scanner of kind k meets a resource.
Find(k) ==
  /\ step = "idle"
  /\ kind' = k
  /\ facts' \in Facts(k)
  /\ step' = "found"
  /\ UNCHANGED <<wired, row, toAsk, failed, verdict, cost>>

\* toResource: CreatedAt and State as the scanner fills them, Raw never.
Kept ==
  (IF S!Lookup(kind).created THEN {"created"} ELSE {})
  \cup (IF S!Lookup(kind).state = "aws" THEN {"state"} ELSE {})

ScanRow ==
  /\ step = "found"
  /\ LET known == IF wired THEN OwnFields(kind) \cup RawFields(kind) ELSE Kept
     IN row' = [x \in DOMAIN Missing |-> IF x \in known THEN facts[x] ELSE Missing[x]]
  /\ toAsk' = IF wired THEN Queries(kind) ELSE {}
  /\ step' = "asking"
  /\ UNCHANGED <<wired, kind, facts, failed, verdict, cost>>

\* An adapter swallows the error of its call: to a composer it is a query
\* that found nothing.
Answered(q) ==
  /\ q \in toAsk
  /\ row' = [row EXCEPT ![q] = facts[q]]
  /\ toAsk' = toAsk \ {q}
  /\ UNCHANGED <<step, wired, kind, facts, failed, verdict, cost>>

QueryFails(q) ==
  /\ q \in toAsk
  /\ toAsk' = toAsk \ {q}
  /\ failed' = failed \cup {q}
  /\ UNCHANGED <<step, wired, kind, facts, row, verdict, cost>>

\* computeLastUsed
LastUsedOf(k, r) ==
  CASE k = "ec2/instance"           -> L!EC2Instance(r, r)
    [] k = "ec2/volume"             -> L!EC2Volume(r, r)
    [] k = "ec2/snapshot"           -> L!EC2Snapshot(r, r)
    [] k = "ec2/eip"                -> L!EC2EIP(r, r)
    [] k = "ec2/nat-gateway"        -> L!EC2NATGateway(r, r)
    [] k = "elbv2/load-balancer"    -> L!ELBv2LoadBalancer(r, r)
    [] k = "elbv2/target-group"     -> L!ELBv2TargetGroup(r, r)
    [] k = "rds/db-instance"        -> L!RDSDBInstance(r, r)
    [] k = "rds/db-snapshot"        -> L!RDSDBSnapshot(r, r)
    [] k = "efs/file-system"        -> L!EFSFileSystem(r, r)
    [] k = "logs/log-group"         -> L!LogsLogGroup(r, r)
    [] k = "ecr/repository"         -> L!ECRRepository(r, r)
    [] k = "s3/bucket"              -> L!S3Bucket(r, r)
    [] k = "codepipeline/artifacts" -> L!Pipeline(r, r)

\* computeCost
CostOf(k, r) ==
  CASE k = "ec2/instance"           -> C!EC2Instance(Snap, r)
    [] k = "ec2/volume"             -> C!EBSVolume(Snap, r)
    [] k = "ec2/snapshot"           -> C!EBSSnapshot(Snap, r)
    [] k = "ec2/eip"                -> C!EIP(Snap, r)
    [] k = "ec2/nat-gateway"        -> C!NATGateway(Snap, r)
    [] k = "elbv2/load-balancer"    -> C!ELBv2LB(Snap, r)
    [] k = "elbv2/target-group"     -> C!Free(C!High)
    [] k = "rds/db-instance"        -> C!RDSDBInstance(Snap, r)
    [] k = "rds/db-snapshot"        -> C!RDSDBSnapshot(Snap, r)
    [] k = "efs/file-system"        -> C!EFS(Snap, r)
    [] k = "logs/log-group"         -> C!LogsLogGroup(Snap, r)
    [] k = "ecr/repository"         -> C!ECRRepository(Snap, r)
    [] k = "s3/bucket"              -> C!S3Bucket(Snap, r)
    [] k = "codepipeline/artifacts" -> C!CodePipeline(Snap, r)

\* enrich: the verdict, then the price.
Judge ==
  /\ step = "asking"
  /\ toAsk = {}
  /\ verdict' = LastUsedOf(kind, row)
  /\ step' = "judged"
  /\ UNCHANGED <<wired, kind, facts, row, toAsk, failed, cost>>

PriceRow ==
  /\ step = "judged"
  /\ cost' = CostOf(kind, row)
  /\ step' = "over"
  /\ UNCHANGED <<wired, kind, facts, row, toAsk, failed, verdict>>

Next ==
  \/ \E k \in S!Kinds : Find(k)
  \/ ScanRow \/ Judge \/ PriceRow
  \/ \E q \in toAsk : Answered(q) \/ QueryFails(q)

Spec == Init /\ [][Next]_vars

-----------------------------------------------------------------------------
\* Evidence that somebody used the resource itself, and how fresh it must be.
Evidence(k) ==
  CASE k = "ec2/instance" -> {<<"cpu", 30>>}
    [] k = "ec2/volume" -> {<<"write", 30>>, <<"read", 30>>}
    [] k = "ec2/snapshot" -> {<<"ami", 90>>}
    [] k = "ec2/nat-gateway" -> {<<"bytes", 7>>}
    [] k \in {"elbv2/load-balancer", "elbv2/target-group"} -> {<<"requests", 30>>}
    [] k = "rds/db-instance" -> {<<"conns", 30>>}
    [] k = "efs/file-system" -> {<<"io", 30>>, <<"conns", 30>>}
    [] k = "logs/log-group" -> {<<"event", 30>>}
    [] k = "ecr/repository" -> {<<"pulled", 90>>}
    [] k = "s3/bucket" -> {<<"object", 30>>}
    [] k = "codepipeline/artifacts" -> {<<"execution", 60>>}
    [] OTHER -> {}

InUse ==
  IF kind = "ec2/eip" THEN facts.associated
  ELSE /\ kind = "ec2/volume" => facts.state = "in-use"
       /\ \E e \in Evidence(kind) : L!Within(facts[e[1]], e[2])

\* The two layers read an address the same way: it is called idle when and
\* only when its idling is charged (lastused.go:41-46, cost.go:36-39).
LayersAgree ==
  step = "over" /\ kind = "ec2/eip" =>
    (verdict.confidence = L!Low <=> cost.usd > 0)

\* With working clients a verdict follows what is the case, through failed
\* queries too: High is only ever said of a resource in use, and the only way
\* for one in use to be called idle is that a query failed. With or without
\* clients, verdict and price agree (composer.go:18-49, per_kind/*.go,
\* clients.go:109-114).
VerdictFitsFacts ==
  /\ step \in {"judged", "over"} /\ wired =>
       /\ verdict.confidence = L!High => InUse
       /\ InUse /\ failed = {} => verdict.confidence >= L!Medium
  /\ LayersAgree

\* What per_kind/ec2_eip.go:27-30 says of an address that is attached.
AttachedAddressIsInUse ==
  step = "over" /\ kind = "ec2/eip" /\ facts.associated =>
    verdict.confidence = L!High
=============================================================================
