CONSTANTS
  None = None
  Roms <- Files
  GameOf <- Game
  Defined <- WithConditions
  Workers = {w1, w2}
  Pages = {p1}
  Verbs = {b1}
  Mod = mod
  QMax = 2
  GiveUp = 2
  MaxInputs = 4
SPECIFICATION Spec
INVARIANTS
  SchedulerFitsGame
  LastStateArrives
  OneCommandPerPress
PROPERTIES
  GameFollowsRom
CHECK_DEADLOCK FALSE
