SPECIFICATION Spec
CONSTANTS
  Size = {1, 3}
  W = 2
  MaxRequests = 2
  SplitHeader = FALSE
  ArriveDuring = FALSE
  CutShort = TRUE
INVARIANTS
  ActsOnRequests
