SPECIFICATION MCSpec
CONSTANTS
  Turns = {t1, t2}
  ChanCap = 1
  MaxEvents = 2
  MaxAsks = 2
  MaxPanels = 2
  MaxPosted = 1
  MaxIter = 1
  MaxUses = 1
  MaxTexts = 1
  Capacity = 1
  MaxCalls = 1
  MaxParts = 1
INVARIANT ModalIsWaitedFor
PROPERTIES EventsShownInOrder PatientTurnIsShown
CHECK_DEADLOCK FALSE
