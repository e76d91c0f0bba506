SPECIFICATION FairSpec
CONSTANTS
  k1 = k1
  k2 = k2
  AllKeys = {k1, k2}
  MaxAges = {0, 2}
  Horizon = 3
PROPERTY ImplementsKeyCache
PROPERTY RefetchSpacing
PROPERTY KeysConverge
