SPECIFICATION FairSpec
CONSTANTS
  Execs = {e1}
  Pings = {p1}
  MaxSockets = 2
  MaxPieces = 2
  MaxPending = 1
  MaxBreaks = 1
INVARIANTS FramesInOrder NoOwnerless
PROPERTIES ExecSettles LeavesPresence
CHECK_DEADLOCK FALSE
