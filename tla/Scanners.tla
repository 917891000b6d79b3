------------------------------- MODULE Scanners -------------------------------
(***************************************************************************)
(* The scanners of internal/audit/scanners, one record each.  They share   *)
(* one shape: wait for a token of the service, ask for a page, map every   *)
(* item of it to a row, report the count, until the last page.             *)
(*                                                                         *)
(*   kind      Kind()                                                      *)
(*   service   whose token bucket Scan waits on                            *)
(*   calls     what Permissions declares                                   *)
(*   paged     Scan follows a paginator, a marker or a token               *)
(*   perRow    calls made for each row, each after a token of its own;     *)
(*             one that fails is a warning, the row is kept                *)
(*   created   the row gets CreatedAt when AWS tells it                    *)
(*   state     where the row's State comes from                            *)
(*                                                                         *)
(* No scanner fills Resource.Raw.  Names and tags are left out.            *)
(***************************************************************************)
EXTENDS Naturals, Sequences

Scanner(kind, service, calls, paged, created, state) ==
  [kind |-> kind, service |-> service, calls |-> calls, paged |-> paged,
   perRow |-> <<>>, created |-> created, state |-> state]

EC2Instance ==
  Scanner("ec2/instance", "ec2", {"DescribeInstances"}, TRUE, TRUE, "aws")
EC2Volume ==
  Scanner("ec2/volume", "ec2", {"DescribeVolumes"}, TRUE, TRUE, "aws")
EC2Snapshot ==
  Scanner("ec2/snapshot", "ec2", {"DescribeSnapshots"}, TRUE, TRUE, "aws")
\* DescribeAddresses answers in one page and knows no creation time.
EC2EIP ==
  Scanner("ec2/eip", "ec2", {"DescribeAddresses"}, FALSE, FALSE, "association")
EC2NATGateway ==
  Scanner("ec2/nat-gateway", "ec2", {"DescribeNatGateways"}, TRUE, TRUE, "aws")
ELBv2LoadBalancer ==
  Scanner("elbv2/load-balancer", "elbv2", {"DescribeLoadBalancers"}, TRUE, TRUE, "aws")
ELBv2TargetGroup ==
  Scanner("elbv2/target-group", "elbv2", {"DescribeTargetGroups"}, TRUE, FALSE, "protocol")
RDSDBInstance ==
  Scanner("rds/db-instance", "rds", {"DescribeDBInstances"}, TRUE, TRUE, "aws")
RDSDBSnapshot ==
  Scanner("rds/db-snapshot", "rds", {"DescribeDBSnapshots"}, TRUE, TRUE, "aws")
EFSFileSystem ==
  Scanner("efs/file-system", "efs", {"DescribeFileSystems"}, TRUE, TRUE, "aws")
LogsLogGroup ==
  Scanner("logs/log-group", "logs", {"DescribeLogGroups"}, TRUE, TRUE, "none")
\* Declares DescribeImages and does not call it.
ECRRepository ==
  Scanner("ecr/repository", "ecr", {"DescribeRepositories", "DescribeImages"},
          TRUE, TRUE, "none")
\* Declares GetPipelineState and does not call it.
CodePipelineArtifacts ==
  Scanner("codepipeline/artifacts", "codepipeline",
          {"ListPipelines", "GetPipelineState"}, TRUE, TRUE, "none")
\* Every bucket costs two more calls: its tags and its region.
S3Bucket ==
  [Scanner("s3/bucket", "s3",
           {"ListBuckets", "GetBucketTagging", "GetBucketLocation"},
           FALSE, TRUE, "none")
   EXCEPT !.perRow = <<"GetBucketTagging", "GetBucketLocation">>]

Catalogue ==
  {EC2Instance, EC2Volume, EC2Snapshot, EC2EIP, EC2NATGateway, ELBv2LoadBalancer,
   ELBv2TargetGroup, RDSDBInstance, RDSDBSnapshot, EFSFileSystem, LogsLogGroup,
   ECRRepository, CodePipelineArtifacts, S3Bucket}

Kinds == {s.kind : s \in Catalogue}

\* Default.Lookup
Lookup(kind) == CHOOSE s \in Catalogue : s.kind = kind
=============================================================================
