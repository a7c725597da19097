CONSTANTS
  MAX_HEAP = 16
  RANDOM_DATA_LEN = 32
  MaxLines = 5
  Ids          <- MCIds
  Traces       <- MCTraces
  DebugModes   <- MCModes
  IgnoreRanges <- MCIgnore
  RandBases    <- MCRandBases
  random_data  <- MCRandomData
  Pointers     <- MCPointers
  Breaks       <- MCBreaks
SPECIFICATION AnySpec
INVARIANTS
  ListedRangesAreSound
  CleanTraceIsCorrect
CHECK_DEADLOCK FALSE
