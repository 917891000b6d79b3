--------------------------- MODULE ConsentedWrites ---------------------------
(***************************************************************************)
(* What the consent flow promises for write tools, with nothing said about *)
(* how a decision is reached: each call is decided at most once, its       *)
(* decision is put on record before anything else happens, an approved     *)
(* call then runs once and a denied call never runs.                       *)
(***************************************************************************)
CONSTANT Calls

VARIABLES
  decided,   \* decided[c]: "none", "approve" or "deny"
  onRecord,  \* the calls whose decision was handed to the audit log
  ran,       \* the calls whose tool body ran
  refused    \* the calls answered with a refusal

vars == <<decided, onRecord, ran, refused>>

TypeOK ==
  /\ decided \in [Calls -> {"none", "approve", "deny"}]
  /\ onRecord \in SUBSET Calls
  /\ ran \in SUBSET Calls
  /\ refused \in SUBSET Calls

Init ==
  /\ decided = [c \in Calls |-> "none"]
  /\ onRecord = {}
  /\ ran = {}
  /\ refused = {}

Decide(c) ==
  /\ decided[c] = "none"
  /\ \E d \in {"approve", "deny"} : decided' = [decided EXCEPT ![c] = d]
  /\ UNCHANGED <<onRecord, ran, refused>>

Record(c) ==
  /\ decided[c] # "none"
  /\ c \notin onRecord
  /\ onRecord' = onRecord \cup {c}
  /\ UNCHANGED <<decided, ran, refused>>

Run(c) ==
  /\ decided[c] = "approve"
  /\ c \in onRecord
  /\ c \notin ran
  /\ ran' = ran \cup {c}
  /\ UNCHANGED <<decided, onRecord, refused>>

Refuse(c) ==
  /\ decided[c] = "deny"
  /\ c \in onRecord
  /\ c \notin refused
  /\ refused' = refused \cup {c}
  /\ UNCHANGED <<decided, onRecord, ran>>

Next == \E c \in Calls : Decide(c) \/ Record(c) \/ Run(c) \/ Refuse(c)

Spec == Init /\ [][Next]_vars
==============================================================================
