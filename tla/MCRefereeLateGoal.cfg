SPECIFICATION RefereeSpec
CONSTANTS
  Red = Red
  Blue = Blue
  DROPBALL = DROPBALL
  None = None
  SetPiece = {}
  HalfTime = 1
  ReadyTime = 1
  PauseTime = 0
  PrepTime = 1
  MinReadyTime = 1
  MaxScore = 1
  MaxShots = 1
  MatchTypes = {"KNOCKOUT"}
  MaxQueue = 2
INVARIANTS
  GoalsAreTaken
CHECK_DEADLOCK FALSE
