\* A task of each kind, two changes of the source, and two requests about the task.
CONSTANTS
  r1 = r1
  r2 = r2
  Nobody = Nobody
  NoRow = NoRow
  Runs <- TwoRuns
  Base = 1
  Ceiling = 3
  Triggers <- AllTriggers
  MaxChanges = 2
  MaxEdits = 2
  MaxDeaths = 1
  MaxRestarts = 1
SYMMETRY RunSymmetry
SPECIFICATION Spec
INVARIANTS
  TypeOK
  OneRunAtATime
  CursorIsAnsweredIfAlive
  BreakerTrips
PROPERTIES
  CursorOnlyAdvances
CHECK_DEADLOCK FALSE
