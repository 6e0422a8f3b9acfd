CONSTANTS
  Topics = {}
  Runs = {r1, r2}
  AvailThreshold = 1
  ReadinessThreshold = 2
SPECIFICATION AvSpec
INVARIANT OfflineAfterShutdown
CHECK_DEADLOCK FALSE
