\* As deployed: only applied_transaction is connected, so only traces are fed.
SPECIFICATION FairSpec
CONSTANTS
  QueueSize = 1
  MaxPush = 3
  FedLanes = {"traces"}
PROPERTY ExitReturns
CHECK_DEADLOCK FALSE
