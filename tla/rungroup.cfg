CONSTANTS
  Fns = {f1, f2, f3}
  Errors = {e1, e2}
  Canceled = Canceled
  Nil = Nil
  Pending = Pending
SPECIFICATION FairSpec
CHECK_DEADLOCK FALSE
INVARIANTS NoGoroutineLeft CancelHasCause
PROPERTIES SupervisorRefined ErrorStopsAll
