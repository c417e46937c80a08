CONSTANTS
  Calls = {q1, q2, q3}
  None = None
  Patient = TRUE
  Faults = FALSE
SPECIFICATION MovieSpec
INVARIANTS
  FastForwardPaired
  ControllerAgrees
PROPERTIES
  WatchedReplayEnds
CHECK_DEADLOCK FALSE
