CONSTANTS
  Conns = {c1}
SPECIFICATION FairSpec
CHECK_DEADLOCK FALSE
PROPERTY QuietHandshakeEnds
