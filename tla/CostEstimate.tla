----------------------------- MODULE CostEstimate -----------------------------
(***************************************************************************)
(* What does a resource cost per month?  The computers of internal/audit/  *)
(* cost: each prices the parts of its kind from the price list of the      *)
(* region and sums them.                                                   *)
(*                                                                         *)
(* snap is the embedded price list: a function from a table's name and a   *)
(* key to a record of prices, NoSnapshot for a region without one.  Prices *)
(* are whole numbers of some small unit; notes and labels are left out.    *)
(***************************************************************************)
EXTENDS Integers, Sequences, SequencesExt

NoSnapshot == <<>>

Unknown == 0
Low     == 1
Medium  == 2
High    == 3

HoursPerMonth == 730

Estimate(usd, source, confidence, lines) ==
  [usd |-> usd, source |-> source, confidence |-> confidence, lines |-> lines]

Unavailable == Estimate(0, "unknown", Unknown, <<>>)

\* A price of nothing that is known.
Free(confidence) == Estimate(0, "snapshot", confidence, <<>>)

Sum(confidence, lines) ==
  Estimate(FoldSeq(LAMBDA line, total : line + total, 0, lines),
           "snapshot", confidence, lines)

\* confidenceFromSource
ConfidenceFromSource(source) ==
  CASE source \in {"pricing-api", "cost-explorer"} -> High
    [] source = "snapshot" -> Medium
    [] OTHER -> Low

FromSnapshot == ConfidenceFromSource("snapshot")

Priced(snap, table, key) == <<table, key>> \in DOMAIN snap
Price(snap, table, key) == snap[<<table, key>>]

\* A part without a quantity or a price has no line.
Part(quantity, price) ==
  IF quantity > 0 /\ price > 0 THEN <<quantity * price>> ELSE <<>>

OrDefault(name, default) == IF name = "" THEN default ELSE name

\* gp3 volumes come with 3000 IOPS and 125 MB/s.
Billable(type, quantity, included) ==
  IF type # "gp3" THEN quantity
  ELSE IF quantity > included THEN quantity - included ELSE 0

-----------------------------------------------------------------------------
EC2Instance(snap, in) ==
  IF in.state \notin {"", "running"} THEN Free(Medium)
  ELSE IF ~Priced(snap, "ec2", in.type) THEN Unavailable
  ELSE LET price == Price(snap, "ec2", in.type)
           hour  == IF in.platform = "windows" /\ price.windows > 0
                    THEN price.windows ELSE price.linux
       IN Sum(FromSnapshot, <<hour * HoursPerMonth>>)

EBSVolume(snap, in) ==
  LET type == OrDefault(in.type, "gp3") IN
  IF ~Priced(snap, "ebs", type) THEN Unavailable
  ELSE LET price == Price(snap, "ebs", type)
       IN Sum(FromSnapshot,
              <<in.gb * price.gb>>
              \o Part(Billable(type, in.iops, 3000), price.iops)
              \o Part(Billable(type, in.mbps, 125), price.mbps))

EBSSnapshot(snap, in) ==
  IF ~Priced(snap, "ebssnapshot", "") THEN Unavailable
  ELSE Sum(FromSnapshot, <<in.gb * Price(snap, "ebssnapshot", "").gb>>)

EIP(snap, in) ==
  IF ~Priced(snap, "eip", "") THEN Unavailable
  ELSE IF in.associated THEN Free(High)
  ELSE Sum(FromSnapshot, <<Price(snap, "eip", "").hour * HoursPerMonth>>)

NATGateway(snap, in) ==
  IF ~Priced(snap, "nat", "") THEN Unavailable
  ELSE LET price == Price(snap, "nat", "")
       IN Sum(Medium, <<price.hour * HoursPerMonth>> \o Part(in.gb, price.gb))

ELBv2LB(snap, in) ==
  LET type == OrDefault(in.type, "application") IN
  IF ~Priced(snap, "lb", type) THEN Unavailable
  ELSE LET price == Price(snap, "lb", type)
       IN Sum(Medium, <<price.hour * HoursPerMonth>> \o Part(in.lcu, price.lcu))

\* A stopped instance pays for its storage only; storage of a type that is
\* not priced is left out.
RDSDBInstance(snap, in) ==
  IF ~Priced(snap, "rds", in.type) THEN Unavailable
  ELSE LET price   == Price(snap, "rds", in.type)
           scale   == IF in.multiAZ /\ price.multiAZ > 0 THEN price.multiAZ ELSE 1
           hours   == IF in.state = "stopped" THEN <<>>
                      ELSE <<price.hour * scale * HoursPerMonth>>
           volume  == OrDefault(in.storage, "gp3")
           storage == IF in.gb > 0 /\ Priced(snap, "ebs", volume)
                      THEN <<in.gb * Price(snap, "ebs", volume).gb>> ELSE <<>>
       IN Sum(FromSnapshot, hours \o storage)

RDSDBSnapshot(snap, in) ==
  IF ~Priced(snap, "rdssnapshot", "") THEN Unavailable
  ELSE Sum(FromSnapshot, <<in.gb * Price(snap, "rdssnapshot", "").gb>>)

\* A size of zero is a size that is not known.
EFS(snap, in) ==
  LET class == OrDefault(in.class, "standard") IN
  IF ~Priced(snap, "efs", class) THEN Unavailable
  ELSE IF in.gb = 0 THEN Free(Low)
  ELSE Sum(Medium, <<in.gb * Price(snap, "efs", class).gb>>)

LogsLogGroup(snap, in) ==
  IF ~Priced(snap, "logs", "") THEN Unavailable
  ELSE Sum(Medium, <<in.gb * Price(snap, "logs", "").gb>>)

ECRRepository(snap, in) ==
  IF ~Priced(snap, "ecr", "") THEN Unavailable
  ELSE Sum(Medium, <<in.gb * Price(snap, "ecr", "").gb>>)

S3Bucket(snap, in) ==
  LET class == OrDefault(in.class, "standard") IN
  IF ~Priced(snap, "s3", class) THEN Unavailable
  ELSE IF in.gb = 0 THEN Free(Low)
  ELSE Sum(Medium, <<in.gb * Price(snap, "s3", class).gb>>)

CodePipeline(snap, in) ==
  IF ~Priced(snap, "pipeline", "") THEN Unavailable
  ELSE IF ~in.active THEN Free(High)
  ELSE Sum(FromSnapshot, <<Price(snap, "pipeline", "").month>>)
=============================================================================
