SPECIFICATION Spec
CONSTANTS
  Sources <- MCAlike
  MathNames <- MCMathNames
  TagNames <- MCTagNames
  Retries = 0
  MaxLines = 1
INVARIANT CachedTokensSurvive
CHECK_DEADLOCK FALSE
