CONSTANTS
  SectorSize <- MCSectorSize
  PieceSizes <- MCPieceSizes
  MaxPieces = 4
SPECIFICATION Spec
INVARIANT CommDRejectsOverfull
CHECK_DEADLOCK FALSE
