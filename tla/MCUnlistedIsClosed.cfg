CONSTANTS
  Names <- TwoNames
  Keys = {k1, k2}
  NoKey = NoKey
  MaxLosses = 1
SPECIFICATION FairSpec
PROPERTY UnlistedIsClosed
