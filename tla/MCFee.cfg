CONSTANTS
  MIN_BASE_FEE = 3
  U32Max = 15
  Report <- MCReport
  ResourceFee <- MCResourceFee
SPECIFICATION Spec
INVARIANTS
  TypeOK
  NeverUnderbids
  RestorationIsPaid
CHECK_DEADLOCK FALSE
