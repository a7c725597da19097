CONSTANTS
  MAX_HEAP    = 52
  IntModulus  = 256
  SizeModulus = 1024
  RANDOM_DATA_LEN = 64
  MaxLines = 4
  Ids          <- MCIds
  Traces       <- MCTraces
  DebugModes   <- MCModes
  IgnoreRanges <- MCIgnore
  RandBases    <- MCRandBases
  random_data  <- MCRandomData
SPECIFICATION Spec
INVARIANTS
  RangesAreHeldBlocks
  NoFalseAccusation
  HeldBlocksKeepTheirBytes
  AcceptedTraceNeverAborts
  UtilizationIsSound
CHECK_DEADLOCK FALSE
