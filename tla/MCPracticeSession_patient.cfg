CONSTANTS
  Segs = {g1}
  CpSegs = {}
  None = None
  MaxSessions = 2
  MaxLoads = 3
  MaxQueue = 2
  LoadsFail = FALSE
  Pace = "settled"
SPECIFICATION Spec
INVARIANTS
  NeverWaitsInVain
  ModeTellsSession
  RowsCredited
CHECK_DEADLOCK FALSE
