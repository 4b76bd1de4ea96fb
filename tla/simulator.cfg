CONSTANTS
  Fns = {f1, f2}
  Clients = {p1}
  Errors = {e1}
  Canceled = Canceled
  Nil = Nil
  Pending = Pending
  MaxSignals = 3
SPECIFICATION FairSimSpec
CHECK_DEADLOCK FALSE
INVARIANTS SimTypeOK FilesClosedLast EndsForCause ForcedOnlyTwice
PROPERTIES SignalEndsRun ArmedForceExits
