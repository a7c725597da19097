SPECIFICATION SubmitSpec
CONSTANTS
  Responses <- MCResponses
  Results <- MCResults
  RIO_BUFSIZE = 3
  SUBMITR_MAXBUF = 6
  RequestText = 1
  Pad = 2
  NamesLen = 1
INVARIANTS
  StreamIntact
  BufferNeverOverflows
  VerdictFromTheAnswer
PROPERTY
  EndsWhenServerGone
CHECK_DEADLOCK FALSE
