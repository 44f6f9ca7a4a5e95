SPECIFICATION LiveSpec
CONSTANTS
  VocabSize = 3
  EndOfText = 2
  Prompt <- MCPrompt
  MaxLength = 9
  Block = 2
  NgramSize = 3
  Window = 6
  RingWindow = 1
  PageLimits = {5, 9}
INVARIANTS OutputIsGreedy ModelSeesTheText
PROPERTIES DecodeEnds
CHECK_DEADLOCK FALSE
