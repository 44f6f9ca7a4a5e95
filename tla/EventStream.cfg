SPECIFICATION LiveSpec
CONSTANTS
  Subscribers = {s1, s2}
  Capacity = 2
  MaxEvents = 2
INVARIANTS NoSilentEnd LatestSurvives
PROPERTIES WatcherIsReleased
CHECK_DEADLOCK FALSE
