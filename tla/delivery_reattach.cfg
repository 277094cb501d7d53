\* Nothing fails; the user sends two messages over the WebSocket.
CONSTANTS
  N = 2
  Users <- First
  Quiet <- NoMsg
  Web <- FirstSecond
  BreakerMax = 2
  Fragile <- NoMsg
  HardTimeout = TRUE
  MaxCrashes = 0
  MaxRestarts = 0
  MaxReaps = 0
SPECIFICATION Spec
PROPERTIES
  ReadIsForwarded
CHECK_DEADLOCK FALSE
