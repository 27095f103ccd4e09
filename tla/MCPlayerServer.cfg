SPECIFICATION ServerSpec
CONSTANTS
  Motor = {m1}
  Position = {bent}
  Velocity = {}
  Effort = {}
  Zero = zero
  DefaultVelocity = full
  NaN = nan
  Data = {"", "penalized", "red_card"}
  gyro = gyro
  left = left
  right = right
  Sensor = {gyro, left, right}
  Camera = {left, right}
  PeriodsOf <- MCPeriodsOf
  FastestCamera = 2
  FullRate = 4
  Quota = 3
  Recognition = {1}
  Cycle = 1
  Repeat = FALSE
  ChangePeriod = TRUE
INVARIANTS
  Asleep
  AwakeAsCommanded
  NoUnreadValues
  CamerasInQuota
  Silent
PROPERTIES
  PenaltyObeyed
