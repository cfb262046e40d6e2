SPECIFICATION Spec
CONSTANTS
  Devices = {7, 15}
  MasterMasks = {56, 33}
  SlaveMasks = {14}
  Lines = {0, 7, 15}
INVARIANTS
  TypeOK
  HandlerMeetsReadyChips
  CommandsEndInterrupts
PROPERTIES
  InitializeProgramsTheChips
  HandlerReadsInService
