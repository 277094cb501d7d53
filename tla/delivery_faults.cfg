\* A crash of the worker and a reap, of two messages sent over the WebSocket.
CONSTANTS
  N = 2
  Users <- First
  Quiet <- NoMsg
  Web <- FirstSecond
  BreakerMax = 2
  Fragile <- NoMsg
  HardTimeout = TRUE
  MaxCrashes = 1
  MaxRestarts = 0
  MaxReaps = 1
SPECIFICATION Spec
INVARIANTS
  AnsweredWasSettled
PROPERTIES
  StartedOncePerBoot
  CompleteReplyStays
CHECK_DEADLOCK FALSE
