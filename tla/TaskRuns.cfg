SPECIFICATION Spec
CONSTANTS
  w1 = w1
  w2 = w2
  Tasks <- OneTask
  Workers <- TwoWorkers
  Slots = 1
  CandidateLimit = 1
  Overlap <- None
  Scope <- SomeScope
  Block = FALSE
  AutoIntegrate = FALSE
  Closed <- None
  Deletable <- OneTask
  MaxRuns = 3
  MaxQueueings = 2
  MaxFaults = 2
INVARIANTS TypeOK ClaimedOnce RunningIsOwned SlotBound NoWatchedAgentLeft
PROPERTY ImplementsTicketQueue
SYMMETRY WorkerSymmetry
CHECK_DEADLOCK FALSE
