CONSTANTS
  Settings = {"target_temperature"}
  Values = {"20.0"}
  NoValue = "none"
  MaxQueue = 1
SPECIFICATION KFairSpec
INVARIANTS
  KInv
  OkMeansDone
PROPERTIES
  GuardOpensAgain
  HandlerReturns
