SPECIFICATION FSpec
CONSTANTS
  kbest = 2
  maxsamples = 4
  EpsNum = 1
  EpsDen = 2
  Cycles <- MCCycles
  Base = 2
  Gaps = {1, 2}
  Unit = 2
  NEVENT = 1
  THRESHOLD = 1
  RECORDTHRESH = 1
  MaxTicks = 2
INVARIANTS
  HoldsTheSmallest
  ReturnsTheBest
  CounterIsElapsed
PROPERTIES
  EveryTickIsCompensated
  MeasuresAsKBest
