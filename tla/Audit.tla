--------------------------------- MODULE Audit ---------------------------------
(***************************************************************************)
(* The two halves of a scan that share no variable: the pool with its      *)
(* caller, and what enrichment makes of one row.                           *)
(***************************************************************************)
EXTENDS AuditScan

CONSTANTS Ages, Snap   \* see Enrich

VARIABLES step, wired, kind, facts, row, toAsk, failed, verdict, cost

rowVars == <<step, wired, kind, facts, row, toAsk, failed, verdict, cost>>

E == INSTANCE Enrich

ASSUME AuditAssumption == E!EnrichAssumption

\* A scan that was cancelled before its first scanner, and its caller gone.
ScanIsOver ==
  /\ cap \in Caps
  /\ ctx = "done"
  /\ next = Len(Order) + 1
  /\ checked = FALSE
  /\ pc = [k \in Kinds |-> "skipped"]
  /\ page = [k \in Kinds |-> 1]
  /\ item = [k \in Kinds |-> [row |-> 1, call |-> 1]]
  /\ out = [k \in Kinds |-> {}]
  /\ outbox = [k \in Kinds |-> <<>>]
  /\ tokens = [s \in Services |-> Burst]
  /\ events = <<>>
  /\ reader = "gone"
  /\ heard = [k \in Kinds |-> "nothing"]
  /\ errs = Kinds
  /\ result = TRUE
  /\ resources = {} /\ unsure = {} /\ warned = {}
  /\ enriching = {} /\ enriched = {}

NothingToEnrich ==
  /\ step = "over"
  /\ wired = FALSE
  /\ kind = "s3/bucket"
  /\ facts = E!Missing
  /\ row = E!Missing
  /\ toAsk = {} /\ failed = {}
  /\ verdict = E!NoVerdict
  /\ cost = E!C!Unavailable

\* See VerdictFitsFacts of Enrich (lastused/composer.go:18-49).
VerdictFitsFacts == E!VerdictFitsFacts

\* See AttachedAddressIsInUse of Enrich (per_kind/ec2_eip.go:27-30).
AttachedAddressIsInUse == E!AttachedAddressIsInUse
=============================================================================
