SPECIFICATION Spec
CONSTANTS
  Sources <- MCSources
  MathNames <- MCMathNames
  TagNames <- MCTagNames
  Retries = 1
  MaxLines = 2
INVARIANTS FallbackReachesChat TextIsNotLost TokensSurvive PagesSurvive
CHECK_DEADLOCK FALSE
