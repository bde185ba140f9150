CONSTANTS
  Page = 8
  TinyZone = 3
  SmallZone = 4
  ZoneHdr = 1
  AllocHdr = 2
  Align = 2
  Base = 8
  Sizes = {2, 4}
SPECIFICATION Spec
INVARIANTS
  HandlerSeesOthers
PROPERTY ImplementsZoneList
