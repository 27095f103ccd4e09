SPECIFICATION Spec
CONSTANTS
  Size = {1, 3}
  W = 2
  MaxRequests = 3
  SplitHeader = FALSE
  ArriveDuring = FALSE
  CutShort = FALSE
INVARIANTS
  ReceiveTypeOK
  InStep
PROPERTIES
  ActsInOrder
  EachActedOn
