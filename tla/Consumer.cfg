\* Both lanes fed: the whole component, as its two push operations allow, under
\* the fairness of the scheduler.  With QueueSize = 0 a push that finds one
\* entry already takes the path of a full queue.
SPECIFICATION FairSpec
CONSTANTS
  QueueSize = 0
  MaxPush = 2
  FedLanes = {"blocks", "traces"}
INVARIANTS
  TypeOK
  NoEntryLost
  NoMissedEntry
  EndedIsDrained
PROPERTIES
  TracesFeedSpec
  PushReturns
  PushedIsHandled
  ExitReturnsOutsideWindow
CHECK_DEADLOCK FALSE
