SPECIFICATION PoolLiveSpec
CONSTANTS
  Count = 3
  Concurrency = 2
  FlushEvery = 2
INVARIANTS DoneIsComplete
PROPERTIES RunSettles
CHECK_DEADLOCK FALSE
