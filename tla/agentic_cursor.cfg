\* The worker dies once in the middle of a reply; nobody interferes.
CONSTANTS
  r1 = r1
  r2 = r2
  Nobody = Nobody
  NoRow = NoRow
  Runs <- TwoRuns
  Base = 1
  Ceiling = 3
  Triggers <- Polled
  MaxChanges = 1
  MaxEdits = 0
  MaxDeaths = 1
  MaxRestarts = 0
SPECIFICATION Spec
INVARIANTS
  CursorIsAnswered
CHECK_DEADLOCK FALSE
