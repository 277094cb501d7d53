\* A command that needs approval and one that does not, and three faults of any kind.
\* A history ends when its calls are settled and its faults used up.
CONSTANTS
  c1 = c1
  c2 = c2
  NoCall = NoCall
  Calls <- TwoCalls
  Gate <- Mixed
  MaxOpen = 2
  MaxTroubles = 3
SPECIFICATION FairSpec
INVARIANTS
  ExecutedIsAccepted
  ExecutedOnce
  AnswerIsTrue
  CardIsTrue
PROPERTIES
  RequestIsTaken
  CardIsSettled
CHECK_DEADLOCK FALSE
