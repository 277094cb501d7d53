\* Two crashes, a restart of the orchestrator and a reap in any order.
CONSTANTS
  N = 1
  Users <- First
  Quiet <- NoMsg
  Web <- First
  BreakerMax = 2
  Fragile <- NoMsg
  HardTimeout = TRUE
  MaxCrashes = 2
  MaxRestarts = 1
  MaxReaps = 1
SPECIFICATION FairSpec
INVARIANTS
  TypeOK
PROPERTIES
  QueuedIsHandedOver
  DeadWorkerIsNoticed
CHECK_DEADLOCK FALSE
