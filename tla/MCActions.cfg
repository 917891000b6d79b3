SPECIFICATION MCSpec
CONSTANTS
  MergedCap = 1
  PipeCap = 1
  MaxLines <- NoLines
  MaxEvents = 0
  Plans <- Plans3
  Fields = {"f", "g"}
  Panels = {"p", "q"}
  MaxTicks = 3
  Subscribers = {"gui", "tui"}
  BufferSize = 1
INVARIANTS ChainKeepsItsPolicy SignalledIsCancelled CancelIsReported
PROPERTIES CancelEndsChain StoppedMonitorEnds
CHECK_DEADLOCK FALSE
