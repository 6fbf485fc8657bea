SPECIFICATION FairSpec
CONSTANTS
  w1 = w1
  w2 = w2
  Tasks <- ThreeTasks
  Workers <- OneWorker
  Slots = 2
  CandidateLimit = 3
  Overlap <- ScopedOverlap
  Scope <- SomeScope
  Block = TRUE
  AutoIntegrate = TRUE
  Closed <- FirstTask
  Deletable <- None
  MaxRuns = 2
  MaxQueueings = 1
  MaxFaults = 1
INVARIANT NoPathTwice
PROPERTIES RunningSettles QueuedIsTaken OrphansAreRecovered
CHECK_DEADLOCK FALSE
