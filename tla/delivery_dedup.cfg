\* The orchestrator restarts once; both messages are user messages.
CONSTANTS
  N = 2
  Users <- FirstSecond
  Quiet <- NoMsg
  Web <- FirstSecond
  BreakerMax = 2
  Fragile <- NoMsg
  HardTimeout = TRUE
  MaxCrashes = 0
  MaxRestarts = 1
  MaxReaps = 0
SPECIFICATION Spec
PROPERTIES
  SettledOnce
CHECK_DEADLOCK FALSE
