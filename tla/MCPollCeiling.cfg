CONSTANTS
  Config <- MCConfig
  Latency = 2
  Lag = 1
  ClockMax = 50
SPECIFICATION Spec
INVARIANT Ceiling
CHECK_DEADLOCK FALSE
