SPECIFICATION RefereeSpec
CONSTANTS
  Red = Red
  Blue = Blue
  DROPBALL = DROPBALL
  None = None
  SetPiece = {}
  HalfTime = 1
  ReadyTime = 1
  PauseTime = 0
  PrepTime = 1
  MinReadyTime = 1
  MaxScore = 3
  MaxShots = 5
  MatchTypes = {"KNOCKOUT", "PENALTY"}
  MaxQueue = 2
INVARIANTS
  MaskCountsGoals
PROPERTIES
  FairShootout
CHECK_DEADLOCK FALSE
