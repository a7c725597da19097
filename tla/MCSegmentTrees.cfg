SPECIFICATION SegmentSpec
CONSTANTS
  Size = 5
  Arrays <- MCArrays
  Difs <- MCDifs
  N = 5
  Vectors <- MCVectors
  Values = {0, 1}
  Limit = 1
INVARIANTS
  SumIsRight
  QueryIsTheMinimum
