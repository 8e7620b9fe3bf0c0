SPECIFICATION ImageSpec
CONSTANTS
  Letters <- DriveLetters
  Target = 2
  Retries = 1
  Buffer = 3
  MaxTransfer = 2
  LoaderSizes <- Sizes
  Runs = 2
  Changes = 2
INVARIANTS
  WriteHeals
  NameIsOurs
  FilesWhole
PROPERTY ProgramEnds
CHECK_DEADLOCK FALSE
