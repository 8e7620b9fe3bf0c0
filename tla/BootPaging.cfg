SPECIFICATION Spec
CONSTANTS
  Frames = 47
  Entries = 16
  Low1M = 8
  PAGE_DIR_PA = 3
  PT_LOW1M_PA = 4
  PT_KERNEL_PA = 5
  LoaderPages = 32
  Images = {6, 16, 20}
  TmpDir = 132
  TmpTable = 133
  Stack = 7
  KernelBase = 128
  PageTableBase = 192
  PageFrameBase = 208
  PageLow1MBase = 212
  DbPages = 3
  MAX_MEM_MAP = 4
  Machines <- MCMachines
INVARIANTS
  RunsOn
  TlbCoherent
  TablesExact
