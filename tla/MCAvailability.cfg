CONSTANTS
  Topics = {}
  Runs = {r1, r2}
  AvailThreshold = 1
  ReadinessThreshold = 2
SPECIFICATION AvFairSpec
INVARIANT WillCovers
PROPERTIES
  FreshGoesOnline
  LaterStaleGoesOffline
CHECK_DEADLOCK FALSE
