SPECIFICATION ReaperFairSpec
CONSTANTS
  Tasks = {t1}
  Passes = {p1, p2}
  MaxRuns = 2
  MaxCommits = 2
  MaxMishaps = 1
 
PROPERTIES  DebrisReaped
CHECK_DEADLOCK FALSE
