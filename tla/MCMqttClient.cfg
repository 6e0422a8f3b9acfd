CONSTANTS
  Topics = {power, mode}
  Runs = {r1, r2}
SPECIFICATION MFairSpec
INVARIANTS
  MInv
  NoSilentLoss
PROPERTY EventuallySubscribed
