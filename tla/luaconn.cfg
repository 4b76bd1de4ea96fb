CONSTANTS
  Letter = a
  Newline = nl
  MaxInput = 5
  Inputs <- MCInputs
  Delims <- MCDelims
  ReadSizes = {1, 3}
  BufSize = 2
  MaxReadLen = 2
SPECIFICATION FairSpec
CHECK_DEADLOCK FALSE
INVARIANTS TypeOK GapsOnlyBehindDelimiter CommentMeetsBytesRead
PROPERTIES CallBounded CallsEnd
