SPECIFICATION LiveSpec
CONSTANTS
  MaxRuns = 2
  Readers = {z1}
  MaxRestarts = 1
  GCEnabled = TRUE
  MayDelete = TRUE
INVARIANTS RegistryIsExact RunningIsAlive DoneMeansTranslated
PROPERTIES FinalStateStands EveryRunLeaves
CHECK_DEADLOCK FALSE
