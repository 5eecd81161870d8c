SPECIFICATION Spec
CONSTANTS
  Txs <- Users
  Upgrades <- Upgrading
  Configs <- SomeConfigs
  MaxBlock = 2
  MaxExecutions = 3
  MaxRuns = 3
INVARIANTS
  TypeOK
  HandlerWhileConnected
  
  SystemAbiStored
CHECK_DEADLOCK FALSE
