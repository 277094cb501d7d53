\* A task that is polled for, one change, one request about it and one restart.
CONSTANTS
  r1 = r1
  r2 = r2
  Nobody = Nobody
  NoRow = NoRow
  Runs <- TwoRuns
  Base = 1
  Ceiling = 3
  Triggers <- Polled
  MaxChanges = 1
  MaxEdits = 1
  MaxDeaths = 0
  MaxRestarts = 1
SPECIFICATION FairSpec
PROPERTIES
  ChangeIsHandled
  DueTaskRuns
CHECK_DEADLOCK FALSE
