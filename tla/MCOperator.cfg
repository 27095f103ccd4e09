SPECIFICATION OperatorSpec
CONSTANTS
  Red = Red
  Blue = Blue
  DROPBALL = DROPBALL
  None = None
  SetPiece = {"DIRECT_FREEKICK", "THROW_IN"}
  HalfTime = 1
  ReadyTime = 1
  PauseTime = 0
  PrepTime = 1
  MinReadyTime = 1
  MaxScore = 1
  MaxShots = 2
INVARIANTS
  PauseFollowsInfo
  TimeOutStopsPlay
  InfoFollowsSetPiece
