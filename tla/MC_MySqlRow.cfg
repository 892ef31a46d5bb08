CONSTANTS
  Names <- MCNames
  MaxCells = 2
  MaxCalls = 1
  Null = Null
  Utf8 = Utf8
  NotUtf8 = NotUtf8
SPECIFICATION Spec
INVARIANT GetRawAsSpecified
CHECK_DEADLOCK FALSE
