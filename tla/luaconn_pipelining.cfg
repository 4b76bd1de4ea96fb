CONSTANTS
  Letter = a
  Newline = nl
  MaxInput = 5
  Inputs <- MCInputs
  Delims <- MCDelims
  ReadSizes = {1, 3}
  BufSize = 2
  MaxReadLen = 2
SPECIFICATION Spec
CHECK_DEADLOCK FALSE
INVARIANT PipelinedBytesKept
