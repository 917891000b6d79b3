-------------------------------- MODULE MCScan --------------------------------
(***************************************************************************)
(* A behaviour is about one half of the scan; the other is over from the   *)
(* start.                                                                  *)
(***************************************************************************)
EXTENDS Audit, TLC

\* A scanner of two pages and one that asks twice for its row, with a slot
\* for each or one for both.
Order2 == <<"ec2/volume", "s3/bucket">>
Service2 == "ec2/volume" :> "ec2" @@ "s3/bucket" :> "s3"
Pages2 == "ec2/volume" :> << <<"v1">>, <<>> >> @@ "s3/bucket" :> << <<"b1">> >>
PerRow2 == {"s3/bucket"}

\* A day for each side of every threshold: 7, 30, 60 and 90.
Days == {1, 20, 45, 75, 100}

Prices ==
  <<"ec2", "priced">>      :> [linux |-> 2, windows |-> 3]
  @@ <<"ebs", "gp3">>        :> [gb |-> 1, iops |-> 1, mbps |-> 1]
  @@ <<"ebssnapshot", "">>   :> [gb |-> 1]
  @@ <<"eip", "">>           :> [hour |-> 1]
  @@ <<"nat", "">>           :> [hour |-> 1, gb |-> 1]
  @@ <<"lb", "application">> :> [hour |-> 1, lcu |-> 1]
  @@ <<"rds", "priced">>     :> [hour |-> 1, multiAZ |-> 2]
  @@ <<"rdssnapshot", "">>   :> [gb |-> 1]
  @@ <<"efs", "standard">>   :> [gb |-> 1]
  @@ <<"logs", "">>          :> [gb |-> 1]
  @@ <<"ecr", "">>           :> [gb |-> 1]
  @@ <<"s3", "standard">>    :> [gb |-> 1]
  @@ <<"pipeline", "">>      :> [month |-> 1]

MCInit == (Init /\ NothingToEnrich) \/ (ScanIsOver /\ E!Init)

MCNext == \/ Next /\ UNCHANGED rowVars
          \/ E!Next /\ UNCHANGED vars

MCSpec == MCInit /\ [][MCNext]_<<vars, rowVars>> /\ Fairness
=============================================================================
