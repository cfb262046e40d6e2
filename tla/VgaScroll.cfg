SPECIFICATION Spec
CONSTANTS
  Width = 3
  Height = 2
  TabStop = 2
  UintSize = 64
  Rows = 6
  Colors = {"light red"}
  Printed = {"a", "b", "c", "1", "high", " ", "LF"}
  Texts <- MCTexts
  Formats <- MCFormats
  Longest = 3
  LastRow = 3
INVARIANTS NewestLineIsVisible
CHECK_DEADLOCK FALSE
