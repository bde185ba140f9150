CONSTANTS
  Page = 8
  TinyZone = 2
  SmallZone = 4
  ZoneHdr = 1
  AllocHdr = 1
  Align = 2
  Threads = {t1, t2}
  Slots = {s1, s2, s3}
  Nobody = Nobody
  Sizes = {2, 8}
  Apis = {"realloc"}
  NumPages = 5
  KernelMayRefuse = FALSE
  KernelTopDown = TRUE
  AbortOnErr = FALSE
SPECIFICATION Spec
INVARIANTS
  TypeOK
  ListsSound
  FreeDropsOnlyItsBlock
SYMMETRY Symm
CHECK_DEADLOCK FALSE
