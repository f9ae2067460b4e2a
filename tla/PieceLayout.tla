---------------------------- MODULE PieceLayout ----------------------------
(***************************************************************************)
(* The piece committer and the sector assembler of filcrypto: the caller   *)
(* writes pieces one after another into a staged sector file with          *)
(* fil_write_with_alignment / fil_write_without_alignment, keeps the       *)
(* fil_PublicPieceInfo of each write, and asks fil_generate_data_commitment *)
(* for the sector's CommD.                                                 *)
(*                                                                         *)
(* Sizes are byte counts as in the headers.  The file is kept at the       *)
(* granularity of a 128-byte padded chunk (127 unpadded bytes), the        *)
(* smallest piece; a chunk is either zero fill or holds bytes of one piece. *)
(* A hash is a symbolic pair, so two roots are equal exactly when the trees *)
(* under them are equal.                                                   *)
(***************************************************************************)
EXTENDS Naturals, Sequences, SequencesExt

CONSTANTS SectorSize,  \* padded bytes of a sector of the registered seal proof
          PieceSizes,  \* the src_size values the caller writes
          MaxPieces    \* bound on the pieces written into one staged file

VARIABLES staged,  \* the staged sector file, a sequence of chunks
          pieces   \* the fil_PublicPieceInfo list the caller builds

vars == <<staged, pieces>>

Chunk == 127   \* unpadded bytes of the 128 padded bytes of the smallest piece

-----------------------------------------------------------------------------
(* Commitments *)

ZeroChunk == <<"zero">>
DataChunk(id, j) == <<"data", id, j>>
Node(l, r) == <<"node", l, r>>

\* Root of a binary Merkle tree over a power-of-two number of chunks.
RECURSIVE MerkleRoot(_)
MerkleRoot(leaves) ==
  IF Len(leaves) = 1 THEN leaves[1]
  ELSE LET h == Len(leaves) \div 2
       IN  Node(MerkleRoot(SubSeq(leaves, 1, h)),
                MerkleRoot(SubSeq(leaves, h + 1, Len(leaves))))

Zeros(n) == [i \in 1..n |-> ZeroChunk]

ZeroCommitment(unpadded) == MerkleRoot(Zeros(unpadded \div Chunk))

-----------------------------------------------------------------------------
(* Sizes *)

\* fil_get_max_user_bytes_per_staged_sector: the unpadded size of the sector.
MaxUserBytes == SectorSize - SectorSize \div 128

\* The unpadded size of the smallest whole Merkle tree that holds u bytes:
\* 127 doubled until it is at least u.
AlignedSize(u) ==
  LET RECURSIVE Grow(_)
      Grow(n) == IF n < u THEN Grow(2 * n) ELSE n
  IN  Grow(Chunk)

IsPowerOfTwo(n) ==
  LET RECURSIVE P(_)
      P(m) == m = 1 \/ (m % 2 = 0 /\ P(m \div 2))
  IN  n > 0 /\ P(n)

\* A piece size generate_data_commitment accepts: its padded size is a
\* power of two.
IsPieceSize(u) == u % Chunk = 0 /\ IsPowerOfTwo(u \div Chunk)

LeftAlignmentRaw(written, u) ==
  LET e == written % u
  IN  IF e > 0 THEN u - e ELSE 0

\* Zero bytes to insert before a piece of u bytes after `written` bytes so
\* that it starts at a multiple of its aligned size.
LeftAlignment(written, u) ==
  LET e == written % AlignedSize(u)
  IN  IF e > 0 THEN AlignedSize(u) - e ELSE 0

\* Bytes taken by the existing pieces, each placed with its alignment.
SumWithAlignment(sizes) ==
  FoldLeft(LAMBDA acc, u : acc + LeftAlignment(acc, u) + AlignedSize(u),
           0, sizes)

-----------------------------------------------------------------------------
(* Piece committer *)

\* The chunks a piece of u bytes occupies once zero-filled to its aligned size.
PieceChunks(id, u) ==
  [j \in 1..(AlignedSize(u) \div Chunk) |->
     IF Chunk * (j - 1) < u THEN DataChunk(id, j) ELSE ZeroChunk]

\* fil_generate_piece_commitment and its response.
GeneratePieceCommitment(id, u) ==
  [comm_p |-> MerkleRoot(PieceChunks(id, u)),
   num_bytes_aligned |-> AlignedSize(u)]

\* The fil_WriteWithAlignmentResponse of writing piece `id` of u bytes
\* after pieces of the sizes `existing`.
WriteWithAlignmentResult(id, u, existing) ==
  LET left == LeftAlignment(SumWithAlignment(existing), u)
  IN  [comm_p |-> GeneratePieceCommitment(id, u).comm_p,
       left_alignment_unpadded |-> left,
       total_write_unpadded |-> left + AlignedSize(u)]

PieceInfoWithLeft(r) ==
  [num_bytes |-> r.total_write_unpadded, comm_p |-> r.comm_p]

\* The fil_PublicPieceInfo the caller keeps for a write response.
PieceInfo(r) ==
  [num_bytes |-> r.total_write_unpadded - r.left_alignment_unpadded,
   comm_p |-> r.comm_p]

\* The bytes a write appends to the destination file.
Appended(r, id, u) ==
  Zeros(r.left_alignment_unpadded \div Chunk) \o PieceChunks(id, u)

-----------------------------------------------------------------------------
(* Sector assembler: the CommD stack of generate_data_commitment *)

Error == <<"error">>

StackPiece(size, comm) == [size |-> size, comm |-> comm]
ZeroPiece(size) == StackPiece(size, ZeroCommitment(size))
Join(a, b) == StackPiece(a.size + b.size, Node(a.comm, b.comm))

\* Join the two top entries while they have the same size.
RECURSIVE Reduce(_)
Reduce(st) ==
  IF Len(st) >= 2 /\ st[Len(st)].size = st[Len(st) - 1].size
  THEN Reduce(Append(SubSeq(st, 1, Len(st) - 2),
                     Join(st[Len(st) - 1], st[Len(st)])))
  ELSE st

ShiftReduce(st, p) == Reduce(Append(st, p))

\* Shift zero padding until the top entry is at least `size`.
RECURSIVE PadTo(_, _)
PadTo(st, size) ==
  IF Last(st).size < size
  THEN PadTo(ShiftReduce(st, ZeroPiece(Last(st).size)), size)
  ELSE st

\* Shift zero padding until one entry is left.
RECURSIVE Collapse(_)
Collapse(st) ==
  IF Len(st) > 1 THEN Collapse(ShiftReduce(st, ZeroPiece(Last(st).size)))
  ELSE st

StackCommD(ps) ==
  LET entries == [i \in DOMAIN ps |-> StackPiece(ps[i].num_bytes, ps[i].comm_p)]
      shifted == FoldLeft(LAMBDA st, p : ShiftReduce(PadTo(st, p.size), p),
                          <<Head(entries)>>, Tail(entries))
  IN  Head(PadTo(Collapse(shifted), MaxUserBytes)).comm

\* fil_generate_data_commitment: fails on a piece size that is not a power
\* of two and on pieces whose total size exceeds the sector.
GenerateDataCommitment(ps) ==
  IF \E i \in DOMAIN ps : ~IsPieceSize(ps[i].num_bytes) THEN Error
  ELSE IF FoldLeft(LAMBDA acc, p : acc + p.num_bytes, 0, ps) > MaxUserBytes
  THEN Error
  ELSE IF ps = <<>> THEN ZeroCommitment(MaxUserBytes)
  ELSE StackCommD(ps)

-----------------------------------------------------------------------------
(* Unsealing a byte range *)

\* The sealed sector decodes to the staged file zero-filled to the sector.
SectorLayout == staged \o Zeros(MaxUserBytes \div Chunk - Len(staged))

\* Mutant: the unpadded byte index converted with the padded chunk size.
UnsealedBytesPadded(index, amount) ==
  IF index + amount > MaxUserBytes THEN Error
  ELSE SubSeq(SectorLayout, index \div 128 + 1, index \div 128 + amount \div Chunk)

\* fil_unseal_range(unpadded_byte_index, unpadded_bytes_amount): the decoded
\* unpadded bytes [index, index + amount); an error past the sector's user
\* bytes.
UnsealedBytes(index, amount) ==
  IF index + amount > MaxUserBytes THEN Error
  ELSE SubSeq(SectorLayout, index \div Chunk + 1, index \div Chunk + amount \div Chunk)

-----------------------------------------------------------------------------
(* The caller's writes *)

Init ==
  /\ staged = <<>>
  /\ pieces = <<>>

\* fil_write_with_alignment of the next piece, with the sizes of the pieces
\* written so far as existing_piece_sizes.
WriteWithAlignment(u) ==
  LET id == Len(pieces) + 1
      r  == WriteWithAlignmentResult(id, u,
                [i \in DOMAIN pieces |-> pieces[i].num_bytes])
  IN  /\ Len(pieces) < MaxPieces
      /\ staged' = staged \o Appended(r, id, u)
      /\ pieces' = Append(pieces, PieceInfo(r))

\* fil_write_without_alignment: the piece and its right padding, with no
\* left alignment.  The caller uses it for the first piece of a file only.
WriteWithoutAlignment(u) ==
  /\ pieces = <<>>
  /\ staged' = staged \o PieceChunks(1, u)
  /\ pieces' = <<[num_bytes |-> AlignedSize(u),
                  comm_p |-> GeneratePieceCommitment(1, u).comm_p]>>

\* A write that fails after copying part of its output (the source is
\* shorter than src_size, or the destination fails): the bytes copied stay
\* in the file and the caller records no piece.
WriteFail(u) ==
  LET id == Len(pieces) + 1
      out == Appended(WriteWithAlignmentResult(id, u,
                [i \in DOMAIN pieces |-> pieces[i].num_bytes]), id, u)
  IN  /\ Len(pieces) < MaxPieces
      /\ \E k \in 1..(Len(out) - 1) : staged' = staged \o SubSeq(out, 1, k)
      /\ UNCHANGED pieces

Next ==
  \E u \in PieceSizes : WriteWithAlignment(u) \/ WriteWithoutAlignment(u)

Spec == Init /\ [][Next]_vars

NextWithFailures == Next \/ \E u \in PieceSizes : WriteFail(u)

SpecWithFailures == Init /\ [][NextWithFailures]_vars

-----------------------------------------------------------------------------
(* Properties *)

SectorChunks == MaxUserBytes \div Chunk

PieceInfos ==
  {[num_bytes |-> AlignedSize(u), comm_p |-> GeneratePieceCommitment(i, u).comm_p]
     : i \in 1..MaxPieces, u \in PieceSizes}

TypeOK ==
  /\ \A i \in DOMAIN staged :
       staged[i] = ZeroChunk \/ \E id \in 1..MaxPieces, j \in 1..SectorChunks :
                                   staged[i] = DataChunk(id, j)
  /\ Len(pieces) <= MaxPieces
  /\ \A i \in DOMAIN pieces : pieces[i] \in PieceInfos

\* The CommD that fil_generate_data_commitment computes from the piece infos
\* of the writes is the Merkle root of the staged file the writes produced,
\* zero-filled to the sector, whenever that file fits the sector: the
\* alignment of write_with_alignment and the stack of generate_data_commitment
\* agree on where each piece lies.
CommDMatchesLayout ==
  Len(staged) <= SectorChunks =>
    GenerateDataCommitment(pieces) =
      MerkleRoot(staged \o Zeros(SectorChunks - Len(staged)))

\* Where a caller that kept only the piece infos finds piece i: each
\* piece of the list starts at the first multiple of its own num_bytes at
\* or after the end of the piece before it (the placement spec 4.1
\* describes: a power-of-two boundary of the sector's tree).
RECURSIVE PieceOffset(_, _)
PieceOffset(ps, i) ==
  LET end == IF i = 1 THEN 0 ELSE PieceOffset(ps, i - 1) + ps[i - 1].num_bytes
      n   == ps[i].num_bytes
  IN  ((end + n - 1) \div n) * n

\* Retrieval (spec 2, 4.1): unseal_range over the range a caller computes
\* from the fil_PublicPieceInfo list returns bytes whose piece commitment is
\* the comm_p the write returned, for every piece of a file that fits the
\* sector.  The alignment write_with_alignment inserted is in no piece
\* info; the caller derives it from the piece sizes alone.
UnsealedPiecesMatch ==
  Len(staged) <= SectorChunks =>
    \A i \in DOMAIN pieces :
      MerkleRoot(UnsealedBytes(PieceOffset(pieces, i), pieces[i].num_bytes)) = pieces[i].comm_p

\* fil_generate_data_commitment fails for pieces whose writes did not fit
\* the sector (spec 4.2).
CommDRejectsOverfull ==
  Len(staged) > SectorChunks => GenerateDataCommitment(pieces) = Error

=============================================================================
