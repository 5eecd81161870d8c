\* As deployed: only applied_transaction is connected, so only traces are fed.
SPECIFICATION Spec
CONSTANTS
  QueueSize = 1
  MaxPush = 3
  FedLanes = {"traces"}
INVARIANT QueueBounded
CHECK_DEADLOCK FALSE
