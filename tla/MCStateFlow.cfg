CONSTANTS
  hot = hot
  medium = medium
  i2 = i2
  h31 = h31
  h86 = h86
  hvac_mode = hvac_mode
  HA = HA
  None = None
  Tiers <- MCTiers
  Blocks <- MCBlocks
  Reads <- MCReads
  Order <- MCOrder
  Source <- MCSource
  MaxVersion = 2
  MaxClock = 2
SPECIFICATION FFairSpec
INVARIANT FInv
PROPERTIES
  LatestNeverGoesBack
  PolledAtCatchesUp
  StateConverges
