CONSTANTS
  Penalty = 2
  NoTime = NoTime
  None = None
  Alphas <- Rates
  Whole = 2
  Fast = 2
  Slow = 1
  PoolSize = 2
  GateMin = 1
  Sure = 4
  TrendWindow = 1
  Effective = 2
  NSegs = 2
  Registered <- Names
  Weightings <- WholeWeights
  Told <- Stories
  ClearTimes <- Times
  MaxEpisodes = 2
  MaxRows = 2
  MaxChanges = 1
  MaxLooks = 1
SPECIFICATION PlanSpec
INVARIANTS
  RoundRobinCycles
  ModelFollowsRows
  EpisodesRoundTrip
  ViewsAgree
  DiffsAreOfTheSession
CHECK_DEADLOCK FALSE
