\* From boot to heap.
SPECIFICATION Spec
CONSTANTS
  Frames = 64
  PageBytes = 2
  Low1M = 4
  ImagePages = 2
  DbPages = 1
  TableSpan = 8
  KernelBase = 32
  PageTableBase = 48
  PageFrameBase = 56
  PageLow1MBase = 57
  MemMaps <- MCMemMaps
  Total = 32
  StackPages = 4
  HeapRequests = {1, 3, 8}
INVARIANTS GuardsKept TranslationsTracked
PROPERTY StackKept
