CONSTANTS
  Segs = {g1, g2}
  CpSegs = {g2}
  None = None
  MaxSessions = 1
  MaxLoads = 2
  MaxQueue = 1
  LoadsFail = TRUE
  Pace = "any"
SPECIFICATION FairSpec
INVARIANTS
  CursorFollowsVisit
PROPERTIES
  StopEnds
CHECK_DEADLOCK FALSE
