--------------------------- MODULE MCPieceLayout ---------------------------
EXTENDS PieceLayout

\* A 2 KiB sector: 16 chunks, 2032 user bytes.
MCSectorSize == 2048

\* Aligned sizes of one, two, four, eight and sixteen chunks, and sizes that
\* need right padding (100, 300) or are not a whole chunk count.
MCPieceSizes == {100, 127, 254, 300, 508, 1016, 2032}
=============================================================================
