SPECIFICATION Spec
CONSTANTS
  ToServer = 2
  ToClient = 3
  AnswerSize = {1}
  RedCards = TRUE
  Ends = FALSE
PROPERTIES
  StepsAlwaysEnd
CHECK_DEADLOCK FALSE
