SPECIFICATION LocalSpec
CONSTANTS
  Proc = {p1, p2}
  Kinds = {"v"}
  Throttle = 1
  MaxTime = 1
  Surf <- Surfaces
  Canon <- PackNames
  Stem = "s"
  MaxOps = 3
  \* One file of the user and two of a pack, with two slash commands to swap.
  Files = {"f", "g", "h"}
  Nested = {"g", "h"}
  Slashes = {"a", "b"}
  EventCap = 1
  MaxEdits = 4
  PackOrder <- TwoPacks
  Rank <- NameRank
  SlashNames = {"a", "b"}
  Homes <- HomesOfTwo
  Wizards <- TwoWizards
  MaxFiles = 2
  Running <- Version
SYMMETRY Symmetry
INVARIANTS TornOnlyByOverlap StampsAreHonest IdleCloneIsConsented RemovedIsGone ReadersCatchUp PaletteIsRight
CHECK_DEADLOCK FALSE
