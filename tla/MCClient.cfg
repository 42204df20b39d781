CONSTANTS
  t1 = t1
  alice = alice
  k1 = k1
  h1 = h1
  h2 = h2
  r1 = r1
  Account = {alice}
  Task = {t1}
  Cell = {k1}
  Value = {0, 1, 2}
  Unset = 0
  Operation <- MCOperation
  Source <- MCSource
  Ops <- MCOps
  MaxCalls <- MCMaxCalls
  Reader = {r1}
  Question <- MCQuestion
  MaxQuestions = 1
  Hash = {h1, h2}
  Asset = Asset
  NoInstance = NoInstance
  None = None
  Lifetime = 2
  MaxLedger = 3
SPECIFICATION ClientSpec
INVARIANTS
  ClientTypeOK
  AnswersHeld
PROPERTIES
  SequenceSettles
CHECK_DEADLOCK FALSE
