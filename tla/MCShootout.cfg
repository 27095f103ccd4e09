SPECIFICATION ByRuleSpec
CONSTANTS
  Red = Red
  Blue = Blue
PROPERTIES
  StopsWhenDecided
  ShootoutEnds
CHECK_DEADLOCK FALSE
