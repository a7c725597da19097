CONSTANTS
  ALPHABETS = 2
  MaxShown  = 2
  MaxQuery  = 4
  Files <- MCFiles
  Keys  <- MCKeys
SPECIFICATION Spec
INVARIANTS
  TrieHoldsTheFile
  ShowsTheMostFrequent
CHECK_DEADLOCK FALSE
