SPECIFICATION Spec
CONSTANTS
  Calls = {c1, c2}
  MaxContainers = 3
  MaxBuilds = 1
  MaxFaults = 2
SYMMETRY Symmetry
INVARIANTS NoOrphan
PROPERTIES CurrentIsKept
CHECK_DEADLOCK FALSE
