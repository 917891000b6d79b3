SPECIFICATION MCSpec
CONSTANTS
  \* The turns.
  Turns = {t1, t2}
  MaxIter = 2
  ChanCap = 1
  MaxUses = 1
  MaxTexts = 1
  \* The gate.
  Calls = {c1, c2}
  WriteTools = {stack_update, file_write}
  ReadTools = {stack_list}
  Refused = {iam_create}
  Unknown = {typo}
  AutoLists <- MCAutoLists
  IdleTimeout = 2
  MaxClock = 3
  MaxSession = 1
  \* The meter.
  Callers = {m1, m2}
  SessionCap = 2
  DayHardCap = 3
  MaxCost = 2
  MaxDate = 1
  MaxAdmitted = 4
  \* The reply and the panel: no part of this run.
  Capacity = 1
  MaxCalls = 1
  MaxParts = 1
  MaxEvents = 1
  MaxAsks = 1
  MaxPanels = 1
  MaxPosted = 1
PROPERTY RequestsAlwaysWellFormed
SYMMETRY Symm
CHECK_DEADLOCK FALSE
