SPECIFICATION Spec
CONSTANTS
  Word = 4
  Delays = {3}
  Second = 1000
  Uptime = 11
PROPERTIES NeverEarly
CHECK_DEADLOCK FALSE
