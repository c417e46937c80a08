CONSTANTS
  None = None
  Cluster <- WideThenNarrow
  FailLimit = 2
  GiveUpAfter = 2
  Starts = {"stalled"}
  Dies = TRUE
  MaxEvents = 2
  MaxLate = 1
SPECIFICATION FairSpec
INVARIANTS
  OwnAnswers
PROPERTIES
  SilenceIsNoticed
  LoadsResync
CHECK_DEADLOCK FALSE
