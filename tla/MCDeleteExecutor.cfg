SPECIFICATION Spec
CONSTANTS
  r1 = r1
  r2 = r2
  r3 = r3
  Rows = {r1, r2, r3}
  Rank <- MCRank
  MaxEdges = 3
INVARIANTS DependenciesFirst ExactlyCyclesAreRefused BatchReconciles CancelStopsBatch
