SPECIFICATION Spec
CONSTANTS
  Resources = {a, b}
  MaxIds = 2
  Batches = {b1, b2}
  MaxPanels = 1
  MaxLeaving = 1
  MaxScans = 1
  Torn = Torn
  Missing = Missing
INVARIANT ReportIsTrue
SYMMETRY Symm
CHECK_DEADLOCK FALSE
