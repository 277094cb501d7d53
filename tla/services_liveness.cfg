CONSTANTS
  Agents = {a}
  Nobody = none
  Window = 1
  MaxRetry = 1
  MaxPosts = 2
  MaxEvents = 2
  Keys = {k1}
  Workers = {w1, w2}
  Nothing = Nothing
  MaxMoves = 7
  MaxContinuation = 1
  InputFiles = 2
  MaxSummaries = 3
  MaxMishaps = 1
  FactKeys = {f1}
  FactValues = {v1, v2}
  Nil = Nil
  Containers = {c1, c2}
  MaxStores = 3
  Threads = {slackThread}
  Web = web
  HistoryWindow = 1
  MaxTurns = 2
  Tasks = {t1, t2}
  Absent = Absent
  MaxRetries <- MCMaxRetries
  MaxTroubles = 1
  Senders = {s1}
  Others = {o1}
  Monitors = {1, 2}
  MaxCrashes = 2
  MaxContainers = 2
  Allocation <- MCAllocation
  TotalMax = 7
  CharsPerToken = 2
  Marker = 3
  Separator = 2
  MaxLength = 9
  Services = {"slack", "tasks"}
SPECIFICATION ServicesSpec
PROPERTIES
  MentionIsHandled
  EveryTaskEnds
CHECK_DEADLOCK FALSE
