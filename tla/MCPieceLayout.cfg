CONSTANTS
  SectorSize <- MCSectorSize
  PieceSizes <- MCPieceSizes
  MaxPieces = 4
SPECIFICATION Spec
INVARIANT TypeOK
INVARIANT CommDMatchesLayout
INVARIANT UnsealedPiecesMatch
CHECK_DEADLOCK FALSE
