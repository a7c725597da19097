CONSTANTS
  MaxNodes = 6
  Keys <- MCKeys
SPECIFICATION Spec
INVARIANTS
  StaysASearchTree
  HoldsItsKeys
  PrintsInOrder
 
CHECK_DEADLOCK FALSE
