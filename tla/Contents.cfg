CONSTANTS
  Page = 16
  TinyZone = 2
  SmallZone = 4
  ZoneHdr = 5
  AllocHdr = 5
  Align = 4
  Word = 256
  MaxGrant = 128
  Capacities = {4, 12, 28}
  Places = {0, 3, 40}
SPECIFICATION ContentsSpec
INVARIANTS
  NeverShort
  ZoneHoldsBlockBelowWrap
  NumbersSuffice
  CallocZeroes
  ReallocKeepsContents
CHECK_DEADLOCK FALSE
