CONSTANTS
  Games = {ga}
  Geos = {g1}
  Reqs = {q1, q2}
  None = None
  MaxRuns = 1
  MaxOrd = 2
  MaxQueue = 1
  MovieConfigs = {TRUE, FALSE}
  Settled = FALSE
SPECIFICATION Spec
SYMMETRY Slots
INVARIANTS
  CurrentRunIsDraft
  RunPhaseExclusive
  SessionAccounting
