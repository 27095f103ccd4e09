SPECIFICATION LinkSpec
CONSTANTS
  Red = Red
  Blue = Blue
  Robots = {Red}
  Kinds = {"pickup"}
  PenaltyTime = 2
  ShootOuts = TRUE
  Commands = {"READY", "SET", "PLAY", "FINISH", "SECOND-HALF", "PENALTY-SHOOTOUT", "SCORE"}
  MaxCommands = 2
  Leaves = TRUE
PROPERTIES
  ShownAsOwed
