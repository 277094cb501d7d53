\* One reap, and no message ever passes the hard timeout.
CONSTANTS
  N = 2
  Users <- First
  Quiet <- NoMsg
  Web <- FirstSecond
  BreakerMax = 2
  Fragile <- NoMsg
  HardTimeout = FALSE
  MaxCrashes = 0
  MaxRestarts = 0
  MaxReaps = 1
SPECIFICATION Spec
INVARIANTS
  ReapSparesFresh
CHECK_DEADLOCK FALSE
