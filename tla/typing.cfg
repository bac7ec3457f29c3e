\* Three lines, argument-less ones among them, while two texts arrive.
SPECIFICATION ClientFairSpec
CONSTANTS
  x = x
  Names = {x}
  NameLength = 1
  BufferEnd = 10
  Lines <- MCLines
  MaxLines = 3
  MaxTexts = 2
INVARIANTS
  ClientTypeOK
  PromptMeansAwake
  SentAsTyped
PROPERTIES
  ShownAtRest
  ExitEnds
CHECK_DEADLOCK FALSE
