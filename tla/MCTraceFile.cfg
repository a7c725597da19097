SPECIFICATION TraceSpec
CONSTANTS
  Sizes = {0, 9, 137}
  CallocArgs <- MCCallocArgs
  BUFFER_LEN = 2
  MEMORY_LEN = 9
  UIntModulus = 128
  MaxCalls = 5
  HandWritten <- MCHandWritten
  Garbage = {0, 7}
INVARIANTS
  NoCallIsLost
  ConvertedTraceIsTheProgram
  RecordedTraceIsRead
  ReadTraceIsTheFile
CHECK_DEADLOCK FALSE
