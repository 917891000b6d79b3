SPECIFICATION FairSpec
CONSTANTS
  MergedCap = 1
  PipeCap = 1
  MaxLines <- MCMaxLines
  MaxEvents = 1
INVARIANT ClosedMeansComplete
PROPERTIES NoGaps EveryRunEnds
CHECK_DEADLOCK FALSE
