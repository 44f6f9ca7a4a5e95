SPECIFICATION LiveSpec
CONSTANTS
  Jobs = {j1, j2}
  Touched = {}
  NoJob = NoJob
  GCEnabled = FALSE
  MaxRestarts = 0
  MaxIOErrors = 1
PROPERTIES JobsAreIsolated
CHECK_DEADLOCK FALSE
