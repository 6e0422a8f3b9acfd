CONSTANTS
  Unset = Unset
  Empty = Empty
  Text = Text
  NaN = NaN
  Environments <- MCEnvironments
  Tiers = {hot, slow}
  Slow = slow
  NumConfigs = 2
SPECIFICATION FairSpec
INVARIANTS
  LifeInv
  NoPanic
  QuietAfterWaits
  ExitTellsCause
PROPERTIES
  LabelNeverForgets
  ShutdownEnds
  LabelsSettle
CHECK_DEADLOCK FALSE
