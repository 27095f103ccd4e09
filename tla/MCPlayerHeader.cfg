SPECIFICATION Spec
CONSTANTS
  Size = {1, 3}
  W = 2
  MaxRequests = 2
  SplitHeader = TRUE
  ArriveDuring = FALSE
  CutShort = FALSE
INVARIANTS
  ActsOnRequests
