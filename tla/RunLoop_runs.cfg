SPECIFICATION FairSpec
CONSTANTS
  Workers = {w1}
  Codes = {0}
  Payloads = {p}
  Nothing = Nothing
  OwnLoop = TRUE
  MaxRuns = 2
  MaxQueue = 2
INVARIANT NobodyOutlives
INVARIANT RestartHandsOver
PROPERTY QuitIsNotLost
PROPERTY QuitIsHeard
PROPERTY WayOutEnds
CHECK_DEADLOCK FALSE
