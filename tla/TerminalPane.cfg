CONSTANTS
  MaxSockets = 2
  MaxPending = 1
  MaxPrints = 2
  MaxClicks = 2
  MaxBreaks = 1
SPECIFICATION PaneFairSpec
INVARIANTS PaneShows
PROPERTIES IdleIsStarted
CHECK_DEADLOCK FALSE
