CONSTANTS
  Ops = {hot, slow}
  Pollers = {hot, slow}
  Sup = Sup
  NoOne = NoOne
  Threshold = 2
  MinDelay = 1
  MaxDelay = 3
  FactorNum = 2
  FactorDen = 1
  MaxDuration = 5
  OutOfRange <- SmallestDuration
SPECIFICATION FairSpec
INVARIANTS
  TypeOK
  RecoveryArmed
  DialsOnlyWhenDown
  ShutdownIsFinal
  OutageStartsAtMinDelay
PROPERTIES
  DelaysGrow
  Recovers
  RecoveryIsStable
  StopsOnCancel
