CONSTANTS
  Page = 16
  TinyZone = 1
  SmallZone = 2
  ZoneHdr = 1
  AllocHdr = 1
  Align = 2
  Threads = {t1, t2}
  Slots = {s1, s2}
  Nobody = Nobody
  Sizes = {4, 6}
  Apis = {"realloc"}
  NumPages = 3
  KernelMayRefuse = TRUE
  KernelTopDown = FALSE
  AbortOnErr = FALSE
  ShowLeaks = TRUE
  ClearLeaks = TRUE
SPECIFICATION ExitSpec
INVARIANTS
  ReportIsExact
  
  ShowsEachZoneOnce
SYMMETRY Symm
CHECK_DEADLOCK FALSE
