\* Expected to fail: see the comment of the property.
SPECIFICATION ClientSpec
CONSTANTS
  x = x
  Names = {x}
  NameLength = 1
  BufferEnd = 10
  Lines <- ExitLines
  MaxLines = 1
  MaxTexts = 1
INVARIANTS
  NoWaitAfterExit
CHECK_DEADLOCK FALSE
