----------------------------- MODULE MCAuditPanel -----------------------------
EXTENDS AuditPanel, TLC

\* Batches and resources differ in nothing but their names.
Symm == Permutations(Batches) \cup Permutations(Resources)
================================================================================
