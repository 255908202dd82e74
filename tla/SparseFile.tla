----------------------------- MODULE SparseFile -----------------------------
(***************************************************************************)
(* The sparse-file primitives of src/sparse.rs as operators on a file      *)
(* value.  A file is its length and the bytes it reads as; whether a zero  *)
(* range is a hole or allocated zeroes is not observable through reads and *)
(* is left out (punch_hole and its write_zeros fallback have one effect).  *)
(* MaxBytes bounds the offsets; U64Max is the wire value "to the end".     *)
(***************************************************************************)
EXTENDS Integers

CONSTANTS
    MaxBytes,   \* every offset in the model is below this bound
    ChunkSize,  \* CHUNK_SIZE of sparse.rs, in bytes of the model
    U64Max,     \* u64::MAX, the length of a FREE that runs to the end
    Byte,       \* the values a byte can have
    Zero        \* the byte a hole reads as

ASSUME SparseFileAssumption ==
    /\ MaxBytes \in Nat
    /\ ChunkSize \in Nat \ {0}
    /\ U64Max \in Nat /\ U64Max > MaxBytes
    /\ Zero \in Byte

Pos == 0..(MaxBytes - 1)

File == [len : 0..MaxBytes, data : [Pos -> Byte]]

EmptyFile == [len |-> 0, data |-> [b \in Pos |-> Zero]]

\* The bytes of the half-open extent [from, to).
Extent(from, to) == {b \in Pos : from <= b /\ b < to}

\* What a read at b returns once the file is long enough: a byte that was
\* never stored, or lies past the end, reads as zero.
ReadByte(f, b) == IF b < f.len THEN f.data[b] ELSE Zero

\* File::set_len: truncation forgets the tail, growth exposes zeroes.
SetLen(f, n) ==
    [len  |-> n,
     data |-> [b \in Pos |-> IF b < n THEN ReadByte(f, b) ELSE Zero]]

\* seek + write_all: extends the file, a skipped gap reads as zero.
WriteAt(f, from, to, bytes) ==
    [len  |-> IF to > f.len THEN to ELSE f.len,
     data |-> [b \in Pos |->
                 IF b \in Extent(from, to) THEN bytes[b] ELSE ReadByte(f, b)]]

\* write_zeros, where the host cannot punch.
WriteZeros(f, from, to) == WriteAt(f, from, to, [b \in Pos |-> Zero])

\* punch_hole keeps the length.  Up to the end of the file write_zeros leaves
\* the same file (WriteZerosPunches in ObjectReplayProofs).
PunchHole(f, from, to) ==
    [len  |-> f.len,
     data |-> [b \in Pos |->
                 IF b \in Extent(from, to) THEN Zero ELSE f.data[b]]]

\* sparse::zero_range
ZeroRange(f, offset, length) ==
    IF offset >= f.len \/ length = 0 THEN f
    ELSE IF length = U64Max THEN SetLen(f, offset)
    ELSE PunchHole(f, offset,
                   IF length < f.len - offset THEN offset + length ELSE f.len)

\* Mutant: an all-zero chunk is skipped instead of punched.
WriteChunkSkip(f, from, to, bytes) ==
    IF \A b \in Extent(from, to) : bytes[b] = Zero THEN f
    ELSE WriteAt(f, from, to, bytes)

\* One iteration of the chunk loop of sparse::write_extent.
WriteChunk(f, from, to, bytes) ==
    IF \A b \in Extent(from, to) : bytes[b] = Zero
    THEN ZeroRange(f, from, to - from)
    ELSE WriteAt(f, from, to, bytes)

\* sparse::copy: the length is set first, then the data ranges are copied.
Copy(f) == WriteAt(SetLen(EmptyFile, f.len), 0, f.len, f.data)
=============================================================================
