CONSTANTS
  t1 = t1
  t2 = t2
  alice = alice
  balance = balance
  nonce = nonce
  Account = {alice}
  Task = {t1, t2}
  Source <- MCSource
  Key = {balance, nonce}
  Persistent = {balance}
  Extension <- MCExtension
  Operation <- MCOperation
  FirstLive = {0, 1, 2}
  MinTtl = 1
  MaxLedger = 4
SPECIFICATION FairSpec
INVARIANTS
  TypeOK
  RestoreThenExtend
  RetryFindsRestored
  RefusedLeavesNothingOpen
  ExecutedExtends
PROPERTY EveryExtensionReturns
CHECK_DEADLOCK FALSE
