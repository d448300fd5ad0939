SPECIFICATION FairSpec
CONSTANTS
  Parts = 2
  PipeCap = 2
  MaxTags = 4
  MayFail = TRUE
  Watching = TRUE
CHECK_DEADLOCK FALSE
INVARIANTS
  NoWriteAfterClose
  NothingCutOff
  PartsAreConserved
PROPERTIES
  StopReturns
