CONSTANTS
  Config <- MCConfig
  Latency = 2
  Lag = 1
  ClockMax = 50
SPECIFICATION FairSpec
INVARIANTS
  TypeOK
  VerdictSound
  TimeoutSound
  ReturnsInTime
PROPERTIES
  Returns
  KnownVerdictDelivered
  ImplementsAwaitTx
CHECK_DEADLOCK FALSE
