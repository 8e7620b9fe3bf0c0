SPECIFICATION Spec
CONSTANTS
  SECTOR_SIZE = 2
  EntriesPerSector = 2
  EndMark = 20
  PE_HEAD_BUF_SIZE = 4
  Disks <- MCDisks
  BootPath <- MCBootPath
  KernelPath <- MCKernelPath
  Garbage = {0, 3}
INVARIANTS JumpsToWholeImage OverrunBounded
PROPERTY Ends
