CONSTANTS
  Conns = {c1, c2}
SPECIFICATION FairSpec
CHECK_DEADLOCK FALSE
INVARIANTS OpenSocketsRegistered NothingLeft
PROPERTIES ListenerRefined CancelReturns IdleEndsIO
