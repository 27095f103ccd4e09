SPECIFICATION Spec
CONSTANTS
  gyro = gyro
  left = left
  right = right
  Sensor = {gyro, left, right}
  Camera = {left, right}
  PeriodsOf <- MCPeriodsOf
  FastestCamera = 2
  FullRate = 4
  Quota = 3
  Recognition = {}
  Cycle = 2
  Repeat = TRUE
  ChangePeriod = FALSE
INVARIANTS
  Silent
