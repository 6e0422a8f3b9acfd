CONSTANTS
  Settings = {"target_temperature"}
  Values = {"20.0"}
  NoValue = "none"
  MaxQueue = 1
SPECIFICATION KSpec
INVARIANT NeverMismatched
