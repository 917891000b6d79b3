SPECIFICATION MCSpec
CONSTANTS
  Turns = {t1}
  MaxIter = 2
  ChanCap = 2
  MaxUses = 2
  MaxTexts = 1
  Capacity = 1
  MaxCalls = 2
  MaxParts = 2
  MaxEvents = 1
  MaxAsks = 1
  MaxPanels = 1
  MaxPosted = 1
INVARIANT ReplyIsTheModels
PROPERTY ReaderSeesEnd
CHECK_DEADLOCK FALSE
