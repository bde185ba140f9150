CONSTANTS
  Page = 8
  TinyZone = 2
  SmallZone = 3
  ZoneHdr = 1
  AllocHdr = 1
  Align = 2
  Threads = {t1}
  Slots = {s1, s2, s3}
  Nobody = Nobody
  Sizes = {4, 6, 24}
  Apis = {"realloc"}
  NumPages = 6
  KernelMayRefuse = TRUE
  KernelTopDown = FALSE
  AbortOnErr = FALSE
SPECIFICATION Spec
INVARIANTS
  LargeZonesHoldOneBlock
  AtMostTwoEmptyZones
  ZonesSound
  MappedExact
  FoundWhenDescending
  ViewsAgree
PROPERTY KeepsAZone
SYMMETRY Symm
CHECK_DEADLOCK FALSE
