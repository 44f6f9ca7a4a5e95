SPECIFICATION LiveSpec
CONSTANTS
  Jobs = {j1, j2}
  Touched = {j1}
  NoJob = NoJob
  GCEnabled = TRUE
  MaxRestarts = 1
  MaxIOErrors = 1
INVARIANTS NoLostDelete AbandonedNeverRuns SettledIsPersisted ActiveHasAnOwner
PROPERTIES FinalResultDurable ImplementsService EveryJobSettles EveryDeleteCompletes
CHECK_DEADLOCK FALSE
