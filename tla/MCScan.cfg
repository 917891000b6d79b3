SPECIFICATION MCSpec
CONSTANTS
  Order <- Order2
  Service <- Service2
  Pages <- Pages2
  PerRow <- PerRow2
  Caps = {1, 2}
  ChanCap = 1
  Burst = 1
  Concurrency = 1
  Ages <- Days
  Snap <- Prices
INVARIANTS ResultIsComplete VerdictFitsFacts
PROPERTY ScanEnds
CHECK_DEADLOCK FALSE
