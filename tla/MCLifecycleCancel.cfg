CONSTANTS
  Unset = Unset
  Empty = Empty
  Text = Text
  NaN = NaN
  Environments <- MCEnvironments
  Tiers = {hot, slow}
  Slow = slow
  NumConfigs = 2
SPECIFICATION Spec
INVARIANT ShutdownCancels
CHECK_DEADLOCK FALSE
