\* Frames freed by their holders in any order, or in reverse order.
SPECIFICATION Spec
CONSTANTS
  Frames = 20
  PageBytes = 2
  Low1M = 2
  ImagePages = 2
  DbPages = 1
  TableSpan = 4
  KernelBase = 8
  PageTableBase = 12
  PageFrameBase = 16
  PageLow1MBase = 17
  MemMaps <- MCMemMaps
  MaxRequest = 3
  MaxOwners = 2
INVARIANTS OwnedIsRam LifoExclusive
PROPERTY NoEarlyReuse
