CONSTANTS
  None = None
  s1 = s1
  s2 = s2
  Gaps <- TwoGaps
  Exiting = {s2}
  Present = {{s1, s2}, {s1}, {s2}}
  Patient = TRUE
  SaveFails = TRUE
  LoadFails = TRUE
  MaxSpawns = 1
SPECIFICATION FairSpec
INVARIANTS
  CapturedCold
  StillWatched
PROPERTIES
  SegmentsMoveOn
