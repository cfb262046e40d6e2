SPECIFICATION Spec
CONSTANTS
  Size = 5
  Chars = {44, 200}
  Delim = {44}
  UintSize = 32
  Bases = {1, 2, 10, 16, 17}
  MaxMin = 3
  MaxText = 3
INVARIANTS
  TypeOK
  CallsKeepTheirPromise
  TokensComeInOrder
  ConversionsAreExact
PROPERTIES
  CallsReturn
CHECK_DEADLOCK FALSE
