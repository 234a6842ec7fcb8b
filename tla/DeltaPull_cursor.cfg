CONSTANTS
  Orders = {1, 2}
  Phones = {ph}
  People = {ana, luis}
  Crews = {c1}
  Sessions = {s1, s2}
  Limit = 1
  None = None
  MaxClock = 4
  MaxDeclared = 1
SPECIFICATION FairSpec
INVARIANTS CursorCovers
PROPERTIES CatchesUp
CHECK_DEADLOCK FALSE
