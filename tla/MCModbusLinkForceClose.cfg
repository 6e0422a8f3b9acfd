CONSTANTS
  Ops = {poll}
  Pollers = {poll}
  Sup = Sup
  NoOne = NoOne
  Threshold = 2
  MinDelay = 1
  MaxDelay = 3
  FactorNum = 2
  FactorDen = 1
  MaxDuration = 5
  OutOfRange <- SmallestDuration
SPECIFICATION Spec
PROPERTY ForceCloseTearsDown
