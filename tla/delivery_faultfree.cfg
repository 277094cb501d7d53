\* Nothing fails, and every message is sent headless.
CONSTANTS
  N = 3
  Users <- FirstSecond
  Quiet <- Second
  Web <- NoMsg
  BreakerMax = 3
  Fragile <- First
  HardTimeout = FALSE
  MaxCrashes = 0
  MaxRestarts = 0
  MaxReaps = 0
SPECIFICATION FairSpec
INVARIANTS
  Custody
  AnswerVisible
  QueuedIsFresh
PROPERTIES
  ImplementsService
CHECK_DEADLOCK FALSE
