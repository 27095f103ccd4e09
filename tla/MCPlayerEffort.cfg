SPECIFICATION Spec
CONSTANTS
  Motor = {m1}
  Position = {bent}
  Velocity = {slow}
  Effort = {push}
  Zero = zero
  DefaultVelocity = full
  NaN = nan
  Data = {"", "penalized"}
INVARIANTS
  AwakeAsCommanded
