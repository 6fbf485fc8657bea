SPECIFICATION FairSpec
CONSTANTS
  v1 = v1
  v2 = v2
  Viewers <- OneViewer
  Sizes <- TwoSizes
  MaxStarts = 2
  MaxPrints = 2
  MaxResizes = 1
  MaxStops = 1
  MaxFaults = 1
INVARIANTS ViewersAgree OneProcess EntryKept
PROPERTY StopTakesEffect
CHECK_DEADLOCK FALSE
