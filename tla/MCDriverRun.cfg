CONSTANTS
  NumTraces = 3
  MaxErrors = 2
SPECIFICATION Spec
INVARIANTS
  IndexCountsEveryTrace
  TimeoutInvalidatesTheRest
PROPERTIES
  HangIsTimedOut
CHECK_DEADLOCK FALSE
