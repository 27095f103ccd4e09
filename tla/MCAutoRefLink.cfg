SPECIFICATION LinkSpec
CONSTANTS
  Red = Red
  Blue = Blue
  Robots = {Red}
  Kinds = {"pickup", "manipulation"}
  PenaltyTime = 2
  ShootOuts = FALSE
  Commands = {"PLAY", "FINISH", "SECOND-HALF", "SCORE"}
  MaxCommands = 2
  Leaves = TRUE
PROPERTIES
  ShownAsOwed
  WaitingIsSafe
  AnswersCome
