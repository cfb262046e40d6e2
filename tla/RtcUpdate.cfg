SPECIFICATION Spec
CONSTANTS
  TickSize = 1
  Shown = {"second", "hour"}
  Highest <- MCHighest
INVARIANTS
  CmosIsKept
  TimeIsOfOneInstant
  TimeIsConverted
PROPERTIES
  ClockKeepsTicking
CHECK_DEADLOCK FALSE
