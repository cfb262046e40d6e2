SPECIFICATION BootSpec
CONSTANTS
  Devices = {0, 7, 15}
  Glitchy = {7, 15}
  Faults = {2}
  Installable = {}
  SoftVectors = {}
  WaitTicks = 2
  LoaderSelectors = {16, 24}
INVARIANTS
  SegmentsStayFlat
  TimerKeepsItsRate
  PanicOnlyOnException
  HandedOver
  NoMaskedLineInService
  EveryTickIsCounted
PROPERTIES
  BootCompletes
CHECK_DEADLOCK FALSE
