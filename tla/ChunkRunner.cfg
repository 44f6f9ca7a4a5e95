SPECIFICATION LiveSpec
CONSTANTS
  Total = 5
  ChunkSize = 2
  MaxWarnings = 3
  MaxDrained = 2
INVARIANTS PagesAligned NoStaleFiles LateCallIsTheLast
PROPERTIES RunSettles
CHECK_DEADLOCK FALSE
