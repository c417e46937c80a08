CONSTANTS
  Games = {ga, gb}
  Geos = {g1}
  Reqs = {q1}
  None = None
  MaxRuns = 2
  MaxOrd = 1
  MaxQueue = 2
  MovieConfigs = {TRUE}
  Settled = TRUE
SPECIFICATION FairSpec
INVARIANTS
  RowsStayInGame
  RowsReferToRows
PROPERTIES
  ImplementsLedger
  ReplayRecordingEnds
