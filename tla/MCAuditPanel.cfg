SPECIFICATION FairSpec
CONSTANTS
  Resources = {a, b}
  MaxIds = 2
  Batches = {b1}
  MaxPanels = 2
  MaxLeaving = 2
  MaxScans = 2
  Torn = Torn
  Missing = Missing
INVARIANT ClearedStaysCleared
PROPERTIES PatientBatchIsReported ImplementsAtomicTray
CHECK_DEADLOCK FALSE
