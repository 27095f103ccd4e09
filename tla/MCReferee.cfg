SPECIFICATION RefereeSpec
CONSTANTS
  Red = Red
  Blue = Blue
  DROPBALL = DROPBALL
  None = None
  SetPiece = {}
  HalfTime = 2
  ReadyTime = 2
  PauseTime = 0
  PrepTime = 1
  MinReadyTime = 1
  MaxScore = 2
  MaxShots = 2
  MatchTypes = {"KNOCKOUT"}
  MaxQueue = 3
INVARIANTS
  RefereeTypeOK
  SidesAgree
  OnlyGoalsComeLate
  LeavesWhenOver
PROPERTIES
  DrivesAutoRef
  WaitEnds
  MatchEnds
CHECK_DEADLOCK FALSE
