CONSTANTS
  Page = 8
  TinyZone = 2
  SmallZone = 4
  ZoneHdr = 1
  AllocHdr = 1
  Align = 2
  Threads = {t1, t2}
  Slots = {s1, s2, s3}
  Nobody = Nobody
  Sizes = {2, 4}
  Apis = {"realloc", "reallocf"}
  NumPages = 2
  KernelMayRefuse = TRUE
  KernelTopDown = FALSE
  AbortOnErr = FALSE
SPECIFICATION Spec
INVARIANTS
  OwnedSafe
  ViewsAgree
  FreeSizeHonest
  ReallocKeepsItsBlock
  OwnersSound
PROPERTIES
  ImplementsHeap
  SecondFreeTakesReissued
SYMMETRY Symm
CHECK_DEADLOCK FALSE
