SPECIFICATION Spec
CONSTANTS
  Procs = {p1}
  MaxPairs = 3
  MaxErrors = 0
  MaxCrashes = 0
INVARIANTS TlsCommandWrites
