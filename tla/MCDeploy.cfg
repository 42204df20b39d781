CONSTANTS
  t1 = t1
  t2 = t2
  alice = alice
  token = token
  Account = {alice}
  Task = {t1, t2}
  Wasm = {token}
  Request = {"upload", "create", "deploy"}
  Source <- MCSource
  Operation <- MCOperation
  Ops <- MCOps
  MaxCalls <- MCMaxCalls
SPECIFICATION DeploySpec
INVARIANTS
  DeployTypeOK
  OkIsDeployed
  InstancesAccounted
CHECK_DEADLOCK FALSE
