CONSTANTS
  t1 = t1
  t2 = t2
  alice = alice
  k1 = k1
  k2 = k2
  Account = {alice}
  Task = {t1, t2}
  Cell = {k1, k2}
  Value = {1, 2}
  Unset = 1
  Operation <- MCOperation
  Source <- MCSource
  Ops <- MCOps
  MaxCalls <- MCMaxCalls
SPECIFICATION InvokeSpec
INVARIANTS
  InvokeTypeOK
  ViewAgrees
PROPERTIES
  PaysForChange
CHECK_DEADLOCK FALSE
