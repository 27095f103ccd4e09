SPECIFICATION AutoRefSpec
CONSTANTS
  Red = Red
  Blue = Blue
  DROPBALL = DROPBALL
  None = None
  SetPiece = {"DIRECT_FREEKICK", "THROW_IN"}
  HalfTime = 3
  ReadyTime = 2
  PauseTime = 0
  PrepTime = 2
  MinReadyTime = 1
  MaxScore = 1
  MaxShots = 2
INVARIANTS
  TypeOK
  SetPieceFreezesClock
PROPERTIES
  PeriodsInOrder
  KickOffAlternates
  ClockNeverRunsBack
  AllShotsAtOneEnd
  ReadyEnds
  SecondHalfComes
  ImplementsMatch
