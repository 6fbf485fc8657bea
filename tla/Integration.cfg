SPECIFICATION Spec
CONSTANTS
  t1 = t1
  t2 = t2
  w1 = w1
  w2 = w2
  Tasks <- TwoTasks
  Workers <- TwoWorkers
  MaxAlive = 2
  Term = 1
  Slow = FALSE
  MaxJobs = 2
  MaxCrashes = 1
  MaxFailures = 1
  MaxFaults = 1
INVARIANTS MainTreeExclusive  ClaimIsHeld
 
SYMMETRY NamesSymmetry
CHECK_DEADLOCK FALSE
