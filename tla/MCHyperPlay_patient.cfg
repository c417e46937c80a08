CONSTANTS
  Checkpoints <- TwoLevels
  MaxSessions = 2
  MaxBus = 2
  Patient = TRUE
  LoadsFail = TRUE
  Switches = TRUE
SPECIFICATION Spec
INVARIANTS
  CountsAgree
PROPERTIES
  RunsEnd
CHECK_DEADLOCK FALSE
