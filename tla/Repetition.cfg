SPECIFICATION Spec
CONSTANTS
  Threshold = 2
  MaxPageChars = 5
  MaxPageTokens = 4
  MaxMarkers = 1
  CheckInterval = 2
  MaxUnit = 2
  MinRepeats = 2
  MinSpan = 3
  Block = 2
  MaxText = 7
INVARIANTS CutsDoNotMatter LoopsAreCaught GenerationIsBounded
CHECK_DEADLOCK FALSE
