CONSTANTS
  MAX_HEAP    = 44
  IntModulus  = 256
  SizeModulus = 1024
  Sizes  <- MCSizes
  Counts <- MCCounts
  Values <- MCValues
SPECIFICATION Spec
INVARIANTS
  BlocksDisjoint
  SizesIntact
PROPERTIES
  NeverReused
  OnlyCallocCrashes
  ImplementsAllocator
CHECK_DEADLOCK FALSE
