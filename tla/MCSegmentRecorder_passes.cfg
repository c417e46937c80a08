CONSTANTS
  None = None
  small = small
  big = big
  odd = odd
  Conds = {small, big, odd}
  Meaning <- Labels
  MaxRuns = 1
  MaxMarks = 3
  MaxUpsets = 1
  MaxQueue = 2
  MayMiss = FALSE
  Replays = TRUE
SPECIFICATION Spec
SYMMETRY Powerups
INVARIANTS
  EpisodesWellFormed
  RouteConnected
  StatesBacked
CHECK_DEADLOCK FALSE
