SPECIFICATION Spec
CONSTANTS
  Motor = {m1}
  Position = {bent}
  Velocity = {slow}
  Effort = {}
  Zero = zero
  DefaultVelocity = full
  NaN = nan
  Data = {"", "penalized", "red_card"}
INVARIANTS
  RedCardDisables
