SPECIFICATION ContentSpec
CONSTANTS
  ChunkEnds <- MCChunkEnds
  Items <- MCItems
  MaxFigures = 2
  MaxBlocks = 2
INVARIANTS RefsResolve LayoutShowsItsCrop LiveShowsTheResult
CHECK_DEADLOCK FALSE
