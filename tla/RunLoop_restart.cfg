SPECIFICATION Spec
CONSTANTS
  Workers = {}
  Codes = {0}
  Payloads = {p}
  Nothing = Nothing
  OwnLoop = TRUE
  MaxRuns = 3
  MaxQueue = 1
INVARIANT RestartValueIsPrevious
CHECK_DEADLOCK FALSE
