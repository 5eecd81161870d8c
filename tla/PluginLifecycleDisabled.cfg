SPECIFICATION Spec
CONSTANTS
  Txs <- Users
  Upgrades <- Upgrading
  Configs <- SomeConfigs
  MaxBlock = 2
  MaxExecutions = 2
  MaxRuns = 2
CHECK_DEADLOCK FALSE
INVARIANT DisabledIsHarmless
