SPECIFICATION Spec
CONSTANTS
  Width = 4
  Height = 3
  Byte = 4
  Starts <- Positions
  Letters = {"b", "c", "d", "p", "q"}
  BootText <- BootLines
  PanicText <- PanicLines
  ScanCodes <- Codes
  Presses = 2
INVARIANTS
  TextShown
  SpinnersApart
  CursorOnScreen
