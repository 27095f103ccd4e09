SPECIFICATION Spec
CONSTANTS
  ToServer = 3
  ToClient = 4
  AnswerSize = {1, 2, 3}
  RedCards = TRUE
  Ends = TRUE
INVARIANTS
  NotBothWait
PROPERTIES
  StepsEnd
  ClientGoesOn
  RequestsRead
CHECK_DEADLOCK FALSE
