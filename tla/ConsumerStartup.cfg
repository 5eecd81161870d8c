\* One entry is enough: it is never handled.
SPECIFICATION FairStartupSpec
CONSTANTS
  QueueSize = 0
  MaxPush = 1
  FedLanes = {"traces"}
PROPERTY StartedIsServed
CHECK_DEADLOCK FALSE
