SPECIFICATION Spec
CONSTANTS
  Devices = {0, 7, 8, 15}
  Glitchy = {0, 7, 8, 15}
  Faults = {14}
  Installable = {39, 40}
  SoftVectors = {120, 121}
INVARIANTS
  EveryInterruptIsEnded
  OnlyGenuineIrqRunsRoutine
  EoiEndsTheCurrentInterrupt
  ServiceDoesNotNest
  IInv
PROPERTIES
  PanicIsFinal
  ServiceCompletes
  ImplementsIrqService
CHECK_DEADLOCK FALSE
