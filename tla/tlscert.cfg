SPECIFICATION Spec
CONSTANTS
  Procs = {p1, p2}
  MaxPairs = 3
  MaxErrors = 1
  MaxCrashes = 1
INVARIANTS TlsTypeOK OnlyFaultsLeaveAMess
PROPERTIES StableIdentity ForceRepairs FreshPairSurvives
SYMMETRY Symmetry
