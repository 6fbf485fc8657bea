CONSTANTS
  e1 = e1
  v1 = v1
  s1 = s1
  s2 = s2
  Clients = {e1, v1}
  Editors = {e1}
  Ids = {s1, s2}
  MaxSessions = 1
  MaxBytes = 1
  MaxMade = 2
  Grids = {1, 2}
  MaxCalls = 3
  MaxUnread = 1
SPECIFICATION FairSpec
INVARIANTS ScreensContinue PagesAgree
PROPERTIES KilledIsGone
CHECK_DEADLOCK FALSE
