CONSTANTS
  ALPHABETS = 2
  MaxShown  = 2
  StrBytes  = 4
  BUF_SIZE  = 1024
  MaxQuery  = 2
  MaxKeys   = 3
  MaxShort  = 1
  Files <- MCFiles
  Keys  <- MCKeys
  StackGarbage <- MCGarbage
SPECIFICATION NetSpec
INVARIANTS
  DrawsItsOwnAnswer
  RightUntilCrowded
PROPERTIES
  WaitEnds
  ServerFollows
CHECK_DEADLOCK FALSE
