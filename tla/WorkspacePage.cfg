SPECIFICATION PageFairSpec
CONSTANTS
  o = o
  e = e
  t1 = t1
  Members <- TwoMembers
  Owner <- o
  Tasks <- OneTask
  MaxPresses = 2
  MaxMoves = 1
  MaxFailures = 1
 
PROPERTIES RefusedIsStale PageSettles
CHECK_DEADLOCK FALSE
