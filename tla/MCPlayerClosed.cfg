SPECIFICATION Spec
CONSTANTS
  ToServer = 2
  ToClient = 3
  AnswerSize = {1}
  RedCards = FALSE
  Ends = TRUE
PROPERTIES
  ClientNotices
CHECK_DEADLOCK FALSE
