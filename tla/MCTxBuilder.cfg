CONSTANTS
  t1 = t1
  t2 = t2
  alice = alice
  transfer = transfer
  approve = approve
  Account = {alice}
  Operation = {transfer, approve}
  Task = {t1, t2}
  Source <- MCSource
  Ops <- MCOps
  MaxCalls <- MCMaxCalls
SPECIFICATION FairSpec
INVARIANTS
  TypeOK
  ConfirmedOnLedger
  FreshConfirmation
  OnlyWhatWasSent
PROPERTIES
  Settles
  ImplementsOutcome
  EveryCallReturns
CHECK_DEADLOCK FALSE
