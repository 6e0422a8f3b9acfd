SPECIFICATION RSpec
INVARIANTS
  ModeWriteIsExact
  SetpointIsNearest
  ClimateIsConsistent
  ProblemMeansError
  PolledWhereCatalogued
  DiscoveryIsHonoured
  OfferedComesBack
