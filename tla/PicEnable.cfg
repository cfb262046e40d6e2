SPECIFICATION Spec
CONSTANTS
  Devices = {7, 15}
  MasterMasks = {184}
  SlaveMasks = {142}
  Lines = {0, 7, 15}
PROPERTIES
  EnableUnmasks
