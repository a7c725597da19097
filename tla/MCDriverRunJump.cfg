CONSTANTS
  NumTraces = 3
  MaxErrors = 2
SPECIFICATION Spec
PROPERTIES
  JumpHasATarget
CHECK_DEADLOCK FALSE
