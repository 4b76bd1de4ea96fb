CONSTANTS
  Shared = {global, handler}
  Connections = {c1, c2, c3}
  emptyKey = emptyKey
  longKey = longKey
  Keys = {count, emptyKey, longKey}
  Values = {0, 1, 2, 3, 4, 5}
  handler = handler
  count = count
  Absent = Absent
  KeySize <- MCKeySize
  ValueSize <- MCValueSize
  MaxKeyLen = 4
  MaxValueLen = 3
  Limit = 5
SPECIFICATION CounterSpec
CHECK_DEADLOCK FALSE
INVARIANTS CounterTypeOK BudgetExact CountHonest
