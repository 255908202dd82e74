--------------------------- MODULE RawReplayProofs --------------------------
(***************************************************************************)
(* What a raw replay publishes, for files of any number of blocks, any     *)
(* dnodes and chains of any length: what the range MAC covers although     *)
(* records are lost, and the whole file if none is.                        *)
(***************************************************************************)
EXTENDS RawReplay, TLAPS

-----------------------------------------------------------------------------
(* What the operations on a sparse file do to the bytes that a reader of   *)
(* it sees.                                                                *)

\* File::set_len keeps the bytes below the new length; the rest reads as zero.
LEMMA SetLenRead ==
    ASSUME NEW f \in File, NEW n \in 0..MaxBytes
    PROVE  /\ SetLen(f, n) \in File
           /\ SetLen(f, n).len = n
           /\ \A b \in Pos : ReadByte(SetLen(f, n), b) =
                                IF b < n THEN ReadByte(f, b) ELSE Zero
BY SparseFileAssumption DEF File, SetLen, ReadByte, Pos

\* A write changes what its extent reads as, and nothing else: the gap it
\* may leave behind the old end reads as zero before and after.
LEMMA WriteAtRead ==
    ASSUME NEW f \in File, NEW from \in 0..MaxBytes, NEW to \in 0..MaxBytes,
           NEW bytes \in [Pos -> Byte]
    PROVE  /\ WriteAt(f, from, to, bytes) \in File
           /\ \A b \in Pos : ReadByte(WriteAt(f, from, to, bytes), b) =
                                IF b \in Extent(from, to) THEN bytes[b]
                                                          ELSE ReadByte(f, b)
BY SparseFileAssumption DEF File, WriteAt, ReadByte, Pos, Extent

\* The extent a FREE of `length' bytes names.
FreedExtent(offset, length) ==
    Extent(offset, IF length = U64Max THEN MaxBytes ELSE offset + length)

\* zero_range makes its range read as zero and nothing else, although it
\* clips the range to the file, shortens the file for an open-ended range
\* and does nothing past the end.
LEMMA ZeroRangeRead ==
    ASSUME NEW f \in File, NEW offset \in 0..MaxBytes,
           NEW length \in 0..(MaxBytes - offset) \cup {U64Max}
    PROVE  /\ ZeroRange(f, offset, length) \in File
           /\ \A b \in Pos : ReadByte(ZeroRange(f, offset, length), b) =
                                IF b \in FreedExtent(offset, length) THEN Zero
                                                     ELSE ReadByte(f, b)
<1> USE SparseFileAssumption
<1>1. CASE offset >= f.len \/ length = 0
  BY <1>1 DEF ZeroRange, File, ReadByte, Pos, Extent, FreedExtent
<1>2. CASE offset < f.len /\ length = U64Max
  <2>1. ZeroRange(f, offset, length) = SetLen(f, offset)
    BY <1>2 DEF ZeroRange, File
  <2>2. \A b \in Pos : b \in FreedExtent(offset, length) <=> b >= offset
    BY <1>2 DEF FreedExtent, Extent, Pos
  <2> QED BY <2>1, <2>2, SetLenRead DEF Pos
<1>3. CASE offset < f.len /\ length # 0 /\ length # U64Max
  <2> DEFINE end == IF length < f.len - offset THEN offset + length ELSE f.len
  <2>1. ZeroRange(f, offset, length) = PunchHole(f, offset, end)
    BY <1>3 DEF ZeroRange, File
  <2>2. end \in 0..MaxBytes /\ end <= f.len
    BY <1>3 DEF File
  <2>3. \A b \in Pos : b < f.len =>
          (b \in FreedExtent(offset, length) <=> b \in Extent(offset, end))
    BY <1>3 DEF FreedExtent, Extent, Pos, File
  <2> QED BY <2>1, <2>2, <2>3 DEF PunchHole, File, ReadByte, Pos
<1> QED BY <1>1, <1>2, <1>3 DEF File

\* A chunk of write_extent reads back as the payload whether it was written
\* or, being all zero, only punched out of the file.
LEMMA WriteChunkRead ==
    ASSUME NEW f \in File, NEW from \in 0..MaxBytes, NEW to \in 0..MaxBytes,
           from <= to, NEW bytes \in [Pos -> Byte]
    PROVE  /\ WriteChunk(f, from, to, bytes) \in File
           /\ \A b \in Pos : ReadByte(WriteChunk(f, from, to, bytes), b) =
                                IF b \in Extent(from, to) THEN bytes[b]
                                                          ELSE ReadByte(f, b)
<1> USE SparseFileAssumption
<1>1. CASE \A b \in Extent(from, to) : bytes[b] = Zero
  <2>1. to - from \in 0..(MaxBytes - from) /\ to - from # U64Max
    OBVIOUS
  <2>2. FreedExtent(from, to - from) = Extent(from, to)
    BY <2>1 DEF FreedExtent
  <2> QED BY <1>1, <2>1, <2>2, ZeroRangeRead DEF WriteChunk
<1>2. CASE ~ \A b \in Extent(from, to) : bytes[b] = Zero
  BY <1>2, WriteAtRead DEF WriteChunk
<1> QED BY <1>1, <1>2

\* sparse::copy yields a file that reads as the original.
LEMMA CopyRead ==
    ASSUME NEW f \in File
    PROVE  /\ Copy(f) \in File
           /\ \A b \in Pos : ReadByte(Copy(f), b) = ReadByte(f, b)
<1>1. EmptyFile \in File /\ f.len \in 0..MaxBytes /\ f.data \in [Pos -> Byte]
  BY SparseFileAssumption DEF EmptyFile, File, Pos
<1>2. SetLen(EmptyFile, f.len) \in File
  BY <1>1, SetLenRead
<1>3. \A b \in Pos : ReadByte(SetLen(EmptyFile, f.len), b) = Zero
  BY <1>1, SetLenRead DEF EmptyFile, ReadByte
<1>4. \A b \in Pos : b \in Extent(0, f.len) <=> b < f.len
  BY <1>1 DEF Extent, Pos
<1>5. /\ Copy(f) \in File
      /\ \A b \in Pos : ReadByte(Copy(f), b) =
                           IF b \in Extent(0, f.len) THEN f.data[b]
                           ELSE ReadByte(SetLen(EmptyFile, f.len), b)
  <2>1. 0 \in 0..MaxBytes
    BY SparseFileAssumption
  <2> QED BY <2>1, <1>1, <1>2, WriteAtRead DEF Copy
<1> QED BY <1>3, <1>4, <1>5 DEF ReadByte

-----------------------------------------------------------------------------
Dnodes == [Obj -> Dnode \cup {None}]

SameHead(d, e) ==
    d.levels = e.levels /\ d.max = e.max /\ d.bonus = e.bonus /\ d.flag = e.flag

\* Every block of d that has a pointer is in f.
Holds(f, d) == \A b \in Blk : d.blocks[b] # Hole => ReadByte(f, b) = d.blocks[b]

\* The MAC cannot tell the blocks of dnodes g and h apart.
Alike(g, h) == \A o \in Obj : Covered(g[o]) = Covered(h[o])

Types ==
    /\ mode \in {"idle", "extract", "apply"} /\ open \in BOOLEAN
    /\ current_range \in {"none", "ours", "other"}
    /\ raw_dnodes \in Dnodes /\ ideal \in Dnodes /\ goal \in Range
    /\ target_spill \in Size \cup {None} /\ new_size \in Size
    /\ object_exists \in BOOLEAN /\ target_deleted \in BOOLEAN
    /\ file \in File /\ due \in SUBSET Blk /\ lost \in Nat
    /\ published \in File \cup {None}
    /\ sidecar \in [snap : Range, logical_size : Size, at : {"none", "bonus", "spill"},
                    raw_state : Dnodes, target_spill : Size \cup {None}]

\* The program is in the range that the sender is in, and stays in it only
\* once everything has been sent; between two substreams everything has been
\* sent, and between two runs nothing is known.
Quiet ==
    /\ ~open => Complete /\ current_range = "none" /\ ~ranged
    /\ ranged => current_range = "ours" /\ goal # NoDnodes
    /\ current_range = "ours" /\ ~ranged => Complete
    /\ mode = "idle" =>
          /\ raw_dnodes = NoDnodes /\ goal = NoDnodes /\ ~open /\ file = EmptyFile
          /\ ~object_exists /\ ~target_deleted

\* The pointers that the program knows of are those of blocks in the file.
Known ==
    /\ raw_dnodes[Target] # None =>
          /\ Holds(file, raw_dnodes[Target])
          /\ raw_dnodes[Target].spill # None => target_spill = raw_dnodes[Target].spill
    /\ mode = "extract" =>
          (object_exists <=> raw_dnodes[Target] # None) /\ ~target_deleted
    /\ mode = "apply" =>
          /\ published # None /\ sidecar.at \in {"bonus", "spill"}
          /\ goal[Target] # None => At(goal[Target]) = sidecar.at

\* Outside the range the block is the receiver's, as far as the MAC tells.  A
\* program need not see that every dnode of it was freed.
Closed ==
    mode # "idle" /\ current_range # "ours" =>
        /\ ideal \in Range
        /\ ideal # NoDnodes => Alike(raw_dnodes, ideal)
        /\ mode = "apply" =>
              /\ ideal[Target] # None => new_size = LogicalSize(ideal[Target])
              /\ raw_dnodes[Target] # None =>
                    \A b \in Blk : b >= new_size => raw_dnodes[Target].blocks[b] = Hole

\* The same of what was published.
Output ==
    published # None =>
        /\ sidecar.at \in {"bonus", "spill"} /\ published.len = sidecar.logical_size
        /\ sidecar.raw_state[Target] # None =>
              /\ Holds(published, sidecar.raw_state[Target])
              /\ \A b \in Blk : b >= sidecar.logical_size
                                   => sidecar.raw_state[Target].blocks[b] = Hole
              /\ sidecar.raw_state[Target].spill # None
                    => sidecar.target_spill = sidecar.raw_state[Target].spill
        /\ sidecar.snap # NoDnodes => Alike(sidecar.raw_state, sidecar.snap)
        /\ sidecar.snap[Target] # None =>
              /\ At(sidecar.snap[Target]) = sidecar.at
              /\ sidecar.logical_size = LogicalSize(sidecar.snap[Target])

Inv == ~unranged /\ Types /\ Quiet /\ Known /\ Closed /\ Output

\* The MAC of the block was lost on its way: nothing is claimed any more.
Doubt == unranged /\ lost \in Nat \ {0}

-----------------------------------------------------------------------------
(* The operators on dnodes, field by field.                                *)

\* The fields of a dnode.
LEMMA DnodeFields ==
    ASSUME NEW d \in Dnode
    PROVE  /\ d # None /\ d.levels \in Levels /\ d.levels \in Nat
           /\ d.max \in Blk /\ d.bonus \in Size /\ d.flag \in BOOLEAN
           /\ d.spill \in Size \cup {None}
           /\ d.blocks \in [Blk -> Byte \cup {Hole}]
BY RawReplayAssumption DEF Dnode

\* A dnode given by its fields.
LEMMA DnodeMade ==
    ASSUME NEW l \in Levels, NEW m \in Blk, NEW s \in Size, NEW f \in BOOLEAN,
           NEW p \in Size \cup {None}, NEW k \in [Blk -> Byte \cup {Hole}]
    PROVE  [levels |-> l, max |-> m, bonus |-> s, flag |-> f, spill |-> p,
            blocks |-> k] \in Dnode
BY DEF Dnode

\* OBJECT in the program.
LEMMA ReshapedFields ==
    ASSUME NEW d \in Dnode, NEW p \in Dnode \cup {None}, NEW c \in BOOLEAN,
           c => p # None
    PROVE  LET r == Reshaped(p, d, c)
           IN  /\ r \in Dnode /\ SameHead(r, d)
               /\ r.spill = IF d.flag /\ c THEN p.spill ELSE None
               /\ \A b \in Blk : r.blocks[b] = IF c /\ b <= d.max
                                               THEN p.blocks[b] ELSE Hole
<1> DEFINE k == [b \in Blk |-> IF c /\ b <= d.max THEN p.blocks[b] ELSE Hole]
           s == IF d.flag /\ c THEN p.spill ELSE None
<1>1. c => p \in Dnode
  OBVIOUS
<1>2. k \in [Blk -> Byte \cup {Hole}] /\ s \in Size \cup {None}
  BY <1>1, DnodeFields
<1>3. \A b \in Blk : k[b] = IF c /\ b <= d.max THEN p.blocks[b] ELSE Hole
  OBVIOUS
<1>4. Reshaped(p, d, c) = [levels |-> d.levels, max |-> d.max, bonus |-> d.bonus,
                           flag |-> d.flag, spill |-> s, blocks |-> k]
  BY DEF Reshaped
<1> HIDE DEF k, s
<1>5. Reshaped(p, d, c) \in Dnode
  BY <1>2, <1>4, DnodeFields, DnodeMade
<1>6. s = IF d.flag /\ c THEN p.spill ELSE None
  BY DEF s
<1>. QED
  BY <1>3, <1>4, <1>5, <1>6 DEF SameHead

\* OBJECT in an OpenZFS receiver.
LEMMA ReceivedFields ==
    ASSUME NEW d \in Dnode, NEW p \in Dnode \cup {None}
    PROVE  LET r == Received(p, d)
           IN  /\ r \in Dnode /\ SameHead(r, d) /\ r.spill = None
               /\ \A b \in Blk : r.blocks[b] =
                     IF p # None /\ p.levels <= d.levels /\ b <= d.max
                     THEN p.blocks[b] ELSE Hole
<1> DEFINE c == p # None /\ p.levels <= d.levels
           q == Reshaped(p, d, c)
<1>1. /\ q \in Dnode /\ SameHead(q, d)
      /\ \A b \in Blk : q.blocks[b] = IF c /\ b <= d.max THEN p.blocks[b] ELSE Hole
  <2>1. c \in BOOLEAN /\ (c => p # None)
    OBVIOUS
  <2> HIDE DEF c
  <2>. QED
    BY <2>1, ReshapedFields
<1>2. Received(p, d) = [q EXCEPT !.spill = None]
  BY DEF Received
<1> HIDE DEF q, c
<1>3. Received(p, d) \in Dnode /\ SameHead(Received(p, d), q)
      /\ Received(p, d).blocks = q.blocks /\ Received(p, d).spill = None
  BY <1>1, <1>2 DEF Dnode, SameHead
<1>. QED
  BY <1>1, <1>3 DEF SameHead, c

\* FREE.
LEMMA FreeFields ==
    ASSUME NEW d \in Dnode, NEW from, NEW to
    PROVE  LET r == FreeBlocks(d, from, to)
           IN  /\ r \in Dnode /\ SameHead(r, d) /\ r.spill = d.spill
               /\ \A b \in Blk : r.blocks[b] = IF b \in Extent(from, to)
                                               THEN Hole ELSE d.blocks[b]
BY DEF FreeBlocks, Dnode, SameHead

\* WRITE.
LEMMA BlockFields ==
    ASSUME NEW d \in Dnode, NEW k \in Blk, NEW v \in Byte \cup {Hole}
    PROVE  LET r == [d EXCEPT !.blocks[k] = v]
           IN  /\ r \in Dnode /\ SameHead(r, d) /\ r.spill = d.spill
               /\ \A b \in Blk : r.blocks[b] = IF b = k THEN v ELSE d.blocks[b]
BY DEF Dnode, SameHead

\* SPILL.
LEMMA SpillFields ==
    ASSUME NEW d \in Dnode, NEW v \in Size \cup {None}
    PROVE  LET r == [d EXCEPT !.spill = v]
           IN  /\ r \in Dnode /\ SameHead(r, d) /\ r.spill = v
               /\ r.blocks = d.blocks
BY DEF Dnode, SameHead

\* What the MAC tells apart of two dnodes.
LEMMA CoveredFields ==
    ASSUME NEW d \in Dnode \cup {None}, NEW e \in Dnode \cup {None}
    PROVE  Covered(d) = Covered(e) <=>
              \/ d = None /\ e = None
              \/ /\ d # None /\ e # None
                 /\ SameHead(d, e) /\ d.blocks = e.blocks
                 /\ d.flag => d.spill = e.spill
<1>1. CASE d = None /\ e = None
  BY <1>1 DEF Covered
<1>2. \A x \in Dnode : /\ Covered(x) \in Dnode /\ SameHead(Covered(x), x)
                       /\ Covered(x).blocks = x.blocks
                       /\ Covered(x).spill = IF x.flag THEN x.spill ELSE None
  BY DnodeFields DEF Covered, Dnode, SameHead
<1>3. CASE d = None /\ e # None
  BY <1>2, <1>3, DnodeFields DEF Covered
<1>4. CASE d # None /\ e = None
  BY <1>2, <1>4, DnodeFields DEF Covered
<1>5. CASE d \in Dnode /\ e \in Dnode
  <2>1. ASSUME Covered(d) = Covered(e)
        PROVE  SameHead(d, e) /\ d.blocks = e.blocks /\ (d.flag => d.spill = e.spill)
    BY <1>2, <1>5, <2>1 DEF SameHead
  <2>2. ASSUME SameHead(d, e), d.blocks = e.blocks, d.flag => d.spill = e.spill
        PROVE  Covered(d) = Covered(e)
    <3>1. \A x, y \in Dnode : SameHead(x, y) /\ x.blocks = y.blocks /\ x.spill = y.spill
                                 => x = y
      BY DEF Dnode, SameHead
    <3>. QED
      BY <1>2, <1>5, <2>2, <3>1 DEF SameHead
  <2>. QED
    BY <1>5, <2>1, <2>2, DnodeFields
<1>. QED
  BY <1>1, <1>3, <1>4, <1>5

\* A snapshot's dnode: its length, and what is past it.
LEMMA SnapshotDnode ==
    ASSUME NEW g \in Range
    PROVE  /\ g \in Dnodes /\ NoDnodes \in Range /\ NoDnodes \in Dnodes
           /\ g[Target] # None =>
                 /\ g[Target] \in Dnode /\ LogicalSize(g[Target]) \in Size
                 /\ g[Target].flag => g[Target].spill # None
                 /\ \A b \in Blk : b >= LogicalSize(g[Target])
                                      => g[Target].blocks[b] = Hole
           /\ \A o \in Obj : g[o] # None => (g[o].flag <=> g[o].spill # None)
<1>1. g \in Dnodes /\ NoDnodes \in Range /\ NoDnodes \in Dnodes /\ Target \in Obj
      /\ Neighbour \in Obj
  BY DEF Range, Dnodes, NoDnodes, Obj
<1>2. \A o \in Obj : g[o] # None => WellFormed(g[o]) /\ g[o] \in Dnode
  BY <1>1, RawReplayAssumption DEF Range, Obj, Dnodes
<1>3. ASSUME NEW d \in Dnode, WellFormed(d)
      PROVE  /\ LogicalSize(d) \in Size /\ (d.flag <=> d.spill # None)
             /\ \A b \in Blk : b >= LogicalSize(d) => d.blocks[b] = Hole
  BY <1>3, DnodeFields DEF WellFormed, LogicalSize
<1>. QED
  BY <1>1, <1>2, <1>3

-----------------------------------------------------------------------------
(* The records of the open range.                                          *)

\* What a record leaves alone.
Framed ==
    /\ InRange
    /\ mode' = mode /\ open' = open /\ current_range' = current_range
    /\ new_size' = new_size /\ goal' = goal
    /\ ranged' = ranged /\ unranged' = unranged
    /\ published' = published /\ sidecar' = sidecar

\* The program's part of the state after a record.
ProgramTyped ==
    /\ raw_dnodes \in Dnodes /\ target_spill \in Size \cup {None}
    /\ object_exists \in BOOLEAN /\ target_deleted \in BOOLEAN /\ file \in File

\* The types, in the forms the proofs use.
LEMMA TypeFacts ==
    ASSUME Inv
    PROVE  /\ Types /\ ProgramTyped /\ goal \in Dnodes /\ goal \in Range
           /\ Target \in Obj /\ Neighbour \in Obj /\ Target # Neighbour
           /\ \A o \in Obj : /\ goal[o] # None => goal[o] \in Dnode
                             /\ raw_dnodes[o] # None => raw_dnodes[o] \in Dnode
                             /\ ideal[o] # None => ideal[o] \in Dnode
           /\ \A o \in Obj : /\ goal[o] \in Dnode \cup {None}
                             /\ raw_dnodes[o] \in Dnode \cup {None}
                             /\ ideal[o] \in Dnode \cup {None}
<1>1. Types /\ goal \in Dnodes
  BY SnapshotDnode DEF Inv, Types
<1>2. Target \in Obj /\ Neighbour \in Obj /\ Target # Neighbour
  BY RawReplayAssumption DEF Obj
<1>. QED
  BY <1>1, <1>2 DEF Types, Dnodes, ProgramTyped

\* In the sender's range the program heeds every record that arrives.
LEMMA InOurs ==
    ASSUME Inv, InRange, NEW arrives \in BOOLEAN
    PROVE  current_range = "ours" /\ (Heeded(arrives) <=> arrives)
BY DEF Inv, Quiet, InRange, Heeded

\* A record replaces one dnode that the program knows.
LEMMA RawReplaced ==
    ASSUME Inv, NEW o \in Obj, NEW d \in Dnode, raw_dnodes' = [raw_dnodes EXCEPT ![o] = d]
    PROVE  /\ raw_dnodes' \in Dnodes /\ raw_dnodes'[o] = d
           /\ \A q \in Obj : q # o => raw_dnodes'[q] = raw_dnodes[q]
<1>1. raw_dnodes \in Dnodes
  BY DEF Inv, Types
<1>2. /\ [raw_dnodes EXCEPT ![o] = d] \in Dnodes
      /\ [raw_dnodes EXCEPT ![o] = d][o] = d
      /\ \A q \in Obj : q # o => [raw_dnodes EXCEPT ![o] = d][q] = raw_dnodes[q]
  BY <1>1 DEF Dnodes
<1>. QED
  BY <1>2

\* One sparse write.
LEMMA WriteBlockRead ==
    ASSUME NEW f \in File, NEW k \in Blk, NEW v \in Byte
    PROVE  /\ WriteBlock(f, k, v) \in File
           /\ \A b \in Blk : ReadByte(WriteBlock(f, k, v), b) =
                                IF b = k THEN v ELSE ReadByte(f, b)
<1> DEFINE bytes == [p \in Pos |-> v]
<1>1. bytes \in [Pos -> Byte] /\ \A b \in Pos : bytes[b] = v
  OBVIOUS
<1>2. k \in 0..MaxBytes /\ k + 1 \in 0..MaxBytes /\ k <= k + 1
  BY SparseFileAssumption DEF Blk, Pos
<1>3. \A b \in Pos : b \in Extent(k, k + 1) <=> b = k
  BY SparseFileAssumption DEF Extent, Pos, Blk
<1>4. WriteBlock(f, k, v) = WriteChunk(f, k, k + 1, bytes)
  BY DEF WriteBlock
<1> HIDE DEF bytes
<1>. QED
  BY <1>1, <1>2, <1>3, <1>4, WriteChunkRead DEF Blk

\* OBJECT in the program.
LEMMA ObjectRaw ==
    ASSUME Inv, NEW o \in Obj, ObjectRecord(o, TRUE)
    PROVE  LET p == raw_dnodes[o]
               c == LayoutCompatible(p, goal[o])
               r == raw_dnodes'[o]
           IN  /\ Framed /\ goal[o] \in Dnode /\ raw_dnodes' \in Dnodes
               /\ \A q \in Obj : q # o => raw_dnodes'[q] = raw_dnodes[q]
               /\ r \in Dnode /\ SameHead(r, goal[o])
               /\ r.spill = IF goal[o].flag /\ c THEN p.spill ELSE None
               /\ \A b \in Blk : r.blocks[b] = IF c /\ b <= goal[o].max
                                               THEN p.blocks[b] ELSE Hole
               /\ target_deleted' = (target_deleted \/
                      (mode = "apply" /\ o = Target /\ p = None))
               /\ target_spill' = IF o = Target /\ ~goal[o].flag
                                  THEN None ELSE target_spill
               /\ file' = IF mode = "extract" /\ o = Target /\ ~object_exists
                          THEN SetLen(file, 0) ELSE file
               /\ object_exists' = (object_exists \/ (mode = "extract" /\ o = Target))
<1> DEFINE p == raw_dnodes[o]
           c == LayoutCompatible(p, goal[o])
           r == Reshaped(p, goal[o], c)
<1>0. Heeded(TRUE)
  BY InOurs DEF ObjectRecord
<1>1. /\ goal[o] \in Dnode /\ p \in Dnode \cup {None} /\ c \in BOOLEAN
      /\ c => p # None
  BY TypeFacts DEF ObjectRecord, LayoutCompatible
<1>2. /\ raw_dnodes' = [raw_dnodes EXCEPT ![o] = r]
      /\ target_deleted' = (target_deleted \/
             (mode = "apply" /\ o = Target /\ p = None))
      /\ target_spill' = IF o = Target /\ ~goal[o].flag THEN None ELSE target_spill
      /\ file' = IF mode = "extract" /\ o = Target /\ ~object_exists
                 THEN SetLen(file, 0) ELSE file
      /\ object_exists' = (object_exists \/ (mode = "extract" /\ o = Target))
      /\ Framed
  BY <1>0 DEF ObjectRecord, Framed, Ideal, output
<1> HIDE DEF c, r
<1>3. /\ r \in Dnode /\ SameHead(r, goal[o])
      /\ r.spill = IF goal[o].flag /\ c THEN p.spill ELSE None
      /\ \A b \in Blk : r.blocks[b] = IF c /\ b <= goal[o].max
                                      THEN p.blocks[b] ELSE Hole
  BY <1>1, ReshapedFields DEF r
<1>4. /\ raw_dnodes' \in Dnodes /\ raw_dnodes'[o] = r
      /\ \A q \in Obj : q # o => raw_dnodes'[q] = raw_dnodes[q]
  BY <1>2, <1>3, RawReplaced
<1>. QED
  BY <1>1, <1>2, <1>3, <1>4 DEF c

\* OBJECT keeps the known pointers true.
LEMMA ObjectKnown ==
    ASSUME Inv, NEW o \in Obj, ObjectRecord(o, TRUE)
    PROVE  ProgramTyped' /\ Known'
<1> DEFINE c == LayoutCompatible(raw_dnodes[o], goal[o])
           r == raw_dnodes'[o]
<1>1. /\ Framed /\ raw_dnodes' \in Dnodes
      /\ \A q \in Obj : q # o => raw_dnodes'[q] = raw_dnodes[q]
      /\ r \in Dnode
      /\ r.spill = IF goal[o].flag /\ c THEN raw_dnodes[o].spill ELSE None
      /\ \A b \in Blk : r.blocks[b] = IF c /\ b <= goal[o].max
                                      THEN raw_dnodes[o].blocks[b] ELSE Hole
  BY ObjectRaw
<1>2. /\ target_deleted' = (target_deleted \/
             (mode = "apply" /\ o = Target /\ raw_dnodes[o] = None))
      /\ target_spill' = IF o = Target /\ ~goal[o].flag THEN None ELSE target_spill
      /\ file' = IF mode = "extract" /\ o = Target /\ ~object_exists
                 THEN SetLen(file, 0) ELSE file
      /\ object_exists' = (object_exists \/ (mode = "extract" /\ o = Target))
  BY ObjectRaw
<1>3. c \in BOOLEAN /\ (c => raw_dnodes[o] # None)
  BY DEF LayoutCompatible
<1>4. r # None
  BY <1>1, DnodeFields
<1> HIDE DEF c, r
<1>5. SetLen(file, 0) \in File
  BY TypeFacts, SetLenRead, SparseFileAssumption DEF ProgramTyped
<1>6. ProgramTyped'
  BY <1>1, <1>2, <1>5, TypeFacts DEF ProgramTyped
<1>7. Known /\ Types
  BY DEF Inv
<1>8. CASE o = Target
  <2>1. mode = "extract" \/ mode = "apply"
    BY <1>1, <1>7 DEF Framed, InRange, Types
  <2>2. ASSUME c PROVE file' = file
    BY <1>2, <1>3, <1>7, <1>8, <2>2 DEF Known
  <2>3. Holds(file', r)
    BY <1>1, <1>3, <1>7, <1>8, <2>2 DEF Holds, Known
  <2>4. r.spill # None => target_spill' = r.spill
    BY <1>1, <1>2, <1>3, <1>7, <1>8 DEF Known
  <2>. QED
    BY <1>1, <1>2, <1>4, <1>6, <1>7, <1>8, <2>1, <2>3, <2>4 DEF Known, Framed, r
<1>9. CASE o # Target
  BY <1>1, <1>2, <1>6, <1>7, <1>9, TypeFacts DEF Known, Framed
<1>. QED
  BY <1>8, <1>9

\* WRITE in the program.
LEMMA WriteRaw ==
    ASSUME Inv, NEW o \in Obj, NEW k \in Blk, WriteRecord(o, k, TRUE)
    PROVE  LET p == raw_dnodes[o]
               v == goal[o].blocks[k]
               r == raw_dnodes'[o]
           IN  /\ Framed /\ p \in Dnode /\ goal[o] \in Dnode /\ v \in Byte
               /\ raw_dnodes' \in Dnodes
               /\ \A q \in Obj : q # o => raw_dnodes'[q] = raw_dnodes[q]
               /\ r \in Dnode /\ SameHead(r, p) /\ r.spill = p.spill
               /\ \A b \in Blk : r.blocks[b] = IF b = k THEN v ELSE p.blocks[b]
               /\ file' = IF o = Target THEN WriteBlock(file, k, v) ELSE file
               /\ target_deleted' = target_deleted /\ target_spill' = target_spill
               /\ object_exists' = object_exists
<1> DEFINE v == goal[o].blocks[k]
           r == [raw_dnodes[o] EXCEPT !.blocks[k] = v]
<1>1. /\ Framed /\ raw_dnodes[o] # None /\ goal[o] # None /\ v # Hole
      /\ raw_dnodes' = [raw_dnodes EXCEPT ![o].blocks[k] = v]
      /\ file' = IF o = Target THEN WriteBlock(file, k, v) ELSE file
      /\ target_deleted' = target_deleted /\ target_spill' = target_spill
      /\ object_exists' = object_exists
  <2>1. Heeded(TRUE)
    BY InOurs DEF WriteRecord
  <2>. QED
    BY <2>1 DEF WriteRecord, Framed, Ideal, output, Announced
<1>2. raw_dnodes[o] \in Dnode /\ goal[o] \in Dnode /\ v \in Byte
  BY <1>1, TypeFacts, DnodeFields
<1>3. raw_dnodes' = [raw_dnodes EXCEPT ![o] = r]
  BY <1>1
<1> HIDE DEF r, v
<1>4. /\ r \in Dnode /\ SameHead(r, raw_dnodes[o]) /\ r.spill = raw_dnodes[o].spill
      /\ \A b \in Blk : r.blocks[b] = IF b = k THEN v ELSE raw_dnodes[o].blocks[b]
  BY <1>2, BlockFields DEF r
<1>5. /\ raw_dnodes' \in Dnodes /\ raw_dnodes'[o] = r
      /\ \A q \in Obj : q # o => raw_dnodes'[q] = raw_dnodes[q]
  BY <1>3, <1>4, RawReplaced
<1>. QED
  BY <1>1, <1>2, <1>4, <1>5 DEF v

\* WRITE keeps the known pointers true.
LEMMA WriteKnown ==
    ASSUME Inv, NEW o \in Obj, NEW k \in Blk, WriteRecord(o, k, TRUE)
    PROVE  ProgramTyped' /\ Known'
<1> DEFINE v == goal[o].blocks[k]
           r == raw_dnodes'[o]
<1>1. /\ Framed /\ v \in Byte /\ raw_dnodes[o] # None
      /\ raw_dnodes' \in Dnodes
      /\ \A q \in Obj : q # o => raw_dnodes'[q] = raw_dnodes[q]
      /\ r \in Dnode /\ r # None /\ r.spill = raw_dnodes[o].spill
      /\ \A b \in Blk : r.blocks[b] = IF b = k THEN v ELSE raw_dnodes[o].blocks[b]
  <2>1. /\ Framed /\ v \in Byte /\ raw_dnodes[o] \in Dnode
        /\ raw_dnodes' \in Dnodes
        /\ \A q \in Obj : q # o => raw_dnodes'[q] = raw_dnodes[q]
        /\ r \in Dnode /\ r.spill = raw_dnodes[o].spill
        /\ \A b \in Blk : r.blocks[b] = IF b = k THEN v ELSE raw_dnodes[o].blocks[b]
    BY WriteRaw
  <2>2. raw_dnodes[o] # None /\ r # None
    BY <2>1, DnodeFields
  <2>. QED
    BY <2>1, <2>2
<1>2. /\ file' = IF o = Target THEN WriteBlock(file, k, v) ELSE file
      /\ target_deleted' = target_deleted /\ target_spill' = target_spill
      /\ object_exists' = object_exists
  BY WriteRaw
<1> HIDE DEF r, v
<1>3. /\ WriteBlock(file, k, v) \in File
      /\ \A b \in Blk : ReadByte(WriteBlock(file, k, v), b) =
                           IF b = k THEN v ELSE ReadByte(file, b)
  BY <1>1, WriteBlockRead, TypeFacts DEF ProgramTyped
<1>4. ProgramTyped'
  BY <1>1, <1>2, <1>3, TypeFacts DEF ProgramTyped
<1>5. Known
  BY DEF Inv
<1>6. CASE o = Target
  <2>1. Holds(file', r)
    BY <1>1, <1>2, <1>3, <1>5, <1>6 DEF Holds, Known
  <2>. QED
    BY <1>1, <1>2, <1>4, <1>5, <1>6, <2>1 DEF Known, Framed, r
<1>7. CASE o # Target
  BY <1>1, <1>2, <1>4, <1>5, <1>7, TypeFacts DEF Known, Framed
<1>. QED
  BY <1>6, <1>7

\* The dnode e has holes in K, and the blocks of d elsewhere.
Emptied(e, d, K) == \A b \in Blk : e.blocks[b] = IF b \in K THEN Hole ELSE d.blocks[b]

\* The end of the extent that a FREE names.
FreeTo(from, length) == IF length = U64Max THEN MaxBytes ELSE from + length

\* The file under a FREE.
LEMMA ZeroRangeBlocks ==
    ASSUME NEW f \in File, NEW from \in Blk,
           NEW length \in 1..(MaxBytes - from) \cup {U64Max}
    PROVE  /\ ZeroRange(f, from, length) \in File
           /\ \A b \in Blk : ReadByte(ZeroRange(f, from, length), b) =
                                IF b \in FreedExtent(from, length)
                                THEN Zero ELSE ReadByte(f, b)
<1>1. from \in 0..MaxBytes /\ length \in 0..(MaxBytes - from) \cup {U64Max}
  BY SparseFileAssumption DEF Blk, Pos
<1>. QED
  BY <1>1, ZeroRangeRead DEF Blk

\* FREE in the program.
LEMMA FreeRaw ==
    ASSUME Inv, NEW o \in Obj, NEW from \in Blk,
           NEW length \in 1..(MaxBytes - from) \cup {U64Max},
           FreeRecord(o, from, length, TRUE)
    PROVE  LET p == raw_dnodes[o]
               r == raw_dnodes'[o]
               K == FreedExtent(from, length)
           IN  /\ Framed /\ raw_dnodes' \in Dnodes
               /\ \A q \in Obj : q # o => raw_dnodes'[q] = raw_dnodes[q]
               /\ p = None => r = None
               /\ p # None =>
                     /\ r \in Dnode /\ SameHead(r, p) /\ r.spill = p.spill
                     /\ Emptied(r, p, K)
               /\ file' = IF o = Target THEN ZeroRange(file, from, length) ELSE file
               /\ target_deleted' = target_deleted /\ target_spill' = target_spill
               /\ object_exists' = object_exists
<1> DEFINE to == FreeTo(from, length)
           r == FreeBlocks(raw_dnodes[o], from, to)
<1>1. /\ Framed
      /\ raw_dnodes' = IF raw_dnodes[o] = None THEN raw_dnodes
                       ELSE [raw_dnodes EXCEPT ![o] = FreeBlocks(@, from, to)]
      /\ file' = IF o = Target THEN ZeroRange(file, from, length) ELSE file
      /\ target_deleted' = target_deleted /\ target_spill' = target_spill
      /\ object_exists' = object_exists
  <2>1. Heeded(TRUE)
    BY InOurs DEF FreeRecord
  <2>. QED
    BY <2>1 DEF FreeRecord, Framed, Ideal, output, FreeTo
<1>2. CASE raw_dnodes[o] = None
  BY <1>1, <1>2, TypeFacts DEF ProgramTyped
<1>3. CASE raw_dnodes[o] # None
  <2>1. raw_dnodes' = [raw_dnodes EXCEPT ![o] = r]
    BY <1>1, <1>3
  <2>2. /\ r \in Dnode /\ SameHead(r, raw_dnodes[o]) /\ r.spill = raw_dnodes[o].spill
        /\ Emptied(r, raw_dnodes[o], FreedExtent(from, length))
    BY <1>3, TypeFacts, FreeFields DEF FreedExtent, FreeTo, Emptied
  <2> HIDE DEF r
  <2>3. /\ raw_dnodes' \in Dnodes /\ raw_dnodes'[o] = r
        /\ \A q \in Obj : q # o => raw_dnodes'[q] = raw_dnodes[q]
    BY <2>1, <2>2, RawReplaced
  <2>. QED
    BY <1>1, <1>3, <2>2, <2>3
<1>. QED
  BY <1>2, <1>3

\* FREE keeps the known pointers true.
LEMMA FreeKnown ==
    ASSUME Inv, NEW o \in Obj, NEW from \in Blk,
           NEW length \in 1..(MaxBytes - from) \cup {U64Max},
           FreeRecord(o, from, length, TRUE)
    PROVE  ProgramTyped' /\ Known'
<1> DEFINE K == FreedExtent(from, length)
           r == raw_dnodes'[o]
<1>1. /\ Framed /\ raw_dnodes' \in Dnodes
      /\ \A q \in Obj : q # o => raw_dnodes'[q] = raw_dnodes[q]
      /\ raw_dnodes[o] = None => r = None
      /\ raw_dnodes[o] # None =>
            /\ r # None /\ r.spill = raw_dnodes[o].spill
            /\ \A b \in Blk : r.blocks[b] = IF b \in K THEN Hole
                                            ELSE raw_dnodes[o].blocks[b]
  BY FreeRaw, DnodeFields DEF Emptied
<1>2. /\ file' = IF o = Target THEN ZeroRange(file, from, length) ELSE file
      /\ target_deleted' = target_deleted /\ target_spill' = target_spill
      /\ object_exists' = object_exists
  BY FreeRaw
<1>3. /\ ZeroRange(file, from, length) \in File
      /\ \A b \in Blk : ReadByte(ZeroRange(file, from, length), b) =
                           IF b \in K THEN Zero ELSE ReadByte(file, b)
  BY ZeroRangeBlocks, TypeFacts DEF ProgramTyped
<1> HIDE DEF r, K
<1>4. ProgramTyped'
  BY <1>1, <1>2, <1>3, TypeFacts DEF ProgramTyped
<1>5. Known
  BY DEF Inv
<1>6. CASE o = Target
  <2>1. r # None => Holds(file', r)
    BY <1>1, <1>2, <1>3, <1>5, <1>6 DEF Holds, Known
  <2>. QED
    BY <1>1, <1>2, <1>4, <1>5, <1>6, <2>1 DEF Known, Framed, r
<1>7. CASE o # Target
  BY <1>1, <1>2, <1>4, <1>5, <1>7, TypeFacts DEF Known, Framed
<1>. QED
  BY <1>6, <1>7

\* SPILL in the program.
LEMMA SpillRaw ==
    ASSUME Inv, NEW o \in Obj, SpillRecord(o, TRUE)
    PROVE  LET p == raw_dnodes[o]
               r == raw_dnodes'[o]
           IN  /\ Framed /\ p \in Dnode /\ goal[o].spill \in Size \cup {None}
               /\ raw_dnodes' \in Dnodes
               /\ \A q \in Obj : q # o => raw_dnodes'[q] = raw_dnodes[q]
               /\ r \in Dnode /\ SameHead(r, p) /\ r.spill = goal[o].spill
               /\ r.blocks = p.blocks
               /\ target_spill' = IF o = Target THEN goal[o].spill ELSE target_spill
               /\ target_deleted' = target_deleted /\ object_exists' = object_exists
               /\ file' = file
<1> DEFINE r == [raw_dnodes[o] EXCEPT !.spill = goal[o].spill]
<1>1. /\ Framed /\ raw_dnodes[o] # None /\ goal[o] # None
      /\ raw_dnodes' = [raw_dnodes EXCEPT ![o].spill = goal[o].spill]
      /\ target_spill' = IF o = Target THEN goal[o].spill ELSE target_spill
      /\ target_deleted' = target_deleted /\ object_exists' = object_exists
      /\ file' = file
  <2>1. Heeded(TRUE)
    BY InOurs DEF SpillRecord
  <2>. QED
    BY <2>1 DEF SpillRecord, Framed, Ideal, output, Announced
<1>2. raw_dnodes' = [raw_dnodes EXCEPT ![o] = r]
  BY <1>1
<1>3. raw_dnodes[o] \in Dnode /\ goal[o].spill \in Size \cup {None}
  BY <1>1, TypeFacts, DnodeFields
<1> HIDE DEF r
<1>4. /\ r \in Dnode /\ SameHead(r, raw_dnodes[o]) /\ r.spill = goal[o].spill
      /\ r.blocks = raw_dnodes[o].blocks
  BY <1>3, SpillFields DEF r
<1>5. /\ raw_dnodes' \in Dnodes /\ raw_dnodes'[o] = r
      /\ \A q \in Obj : q # o => raw_dnodes'[q] = raw_dnodes[q]
  BY <1>2, <1>4, RawReplaced
<1>. QED
  BY <1>1, <1>3, <1>4, <1>5

\* SPILL keeps the known pointers true.
LEMMA SpillKnown ==
    ASSUME Inv, NEW o \in Obj, SpillRecord(o, TRUE)
    PROVE  ProgramTyped' /\ Known'
<1>1. /\ Framed /\ raw_dnodes[o] # None /\ goal[o].spill \in Size \cup {None}
      /\ raw_dnodes' \in Dnodes
      /\ \A q \in Obj : q # o => raw_dnodes'[q] = raw_dnodes[q]
      /\ raw_dnodes'[o] # None /\ raw_dnodes'[o].spill = goal[o].spill
      /\ raw_dnodes'[o].blocks = raw_dnodes[o].blocks
  BY SpillRaw, DnodeFields
<1>2. /\ target_spill' = IF o = Target THEN goal[o].spill ELSE target_spill
      /\ target_deleted' = target_deleted /\ object_exists' = object_exists
      /\ file' = file
  BY SpillRaw
<1>3. ProgramTyped'
  BY <1>1, <1>2, TypeFacts DEF ProgramTyped
<1>4. Known
  BY DEF Inv
<1>5. CASE o = Target
  BY <1>1, <1>2, <1>3, <1>4, <1>5 DEF Known, Framed, Holds
<1>6. CASE o # Target
  BY <1>1, <1>2, <1>3, <1>4, <1>6, TypeFacts DEF Known, Framed
<1>. QED
  BY <1>5, <1>6

\* FREEOBJECTS, in its range or for the whole block.
LEMMA FreedKnown ==
    ASSUME Inv, NEW S \in SUBSET Obj, Freed(S), mode # "idle", mode' = mode,
           goal' = goal, published' = published, sidecar' = sidecar
    PROVE  /\ ProgramTyped' /\ Known'
           /\ \A o \in Obj : raw_dnodes'[o] = IF o \in S THEN None ELSE raw_dnodes[o]
<1>1. /\ raw_dnodes' \in Dnodes
      /\ \A o \in Obj : raw_dnodes'[o] = IF o \in S THEN None ELSE raw_dnodes[o]
  BY TypeFacts DEF Freed, Dnodes
<1>2. SetLen(file, 0) \in File
  BY TypeFacts, SetLenRead, SparseFileAssumption DEF ProgramTyped
<1>3. ProgramTyped'
  BY <1>1, <1>2, TypeFacts DEF ProgramTyped, Freed
<1>4. Known /\ Target \in Obj
  BY TypeFacts DEF Inv
<1>5. CASE Target \in S
  BY <1>1, <1>3, <1>4, <1>5 DEF Known, Freed
<1>6. CASE Target \notin S
  BY <1>1, <1>3, <1>4, <1>6 DEF Known, Freed
<1>. QED
  BY <1>1, <1>3, <1>5, <1>6

\* A record in an OpenZFS receiver.
LEMMA IdealReplaced ==
    ASSUME Inv, NEW o \in Obj, NEW d \in Dnode \cup {None}, NEW K, Ideal(o, d, K)
    PROVE  /\ ideal' \in Dnodes /\ ideal'[o] = d
           /\ \A q \in Obj : q # o => ideal'[q] = ideal[q]
           /\ due' \in SUBSET Blk /\ due' = IF o = Target THEN due \ K ELSE due
<1>1. ideal \in Dnodes /\ due \in SUBSET Blk
  BY DEF Inv, Types
<1>2. /\ [ideal EXCEPT ![o] = d] \in Dnodes
      /\ [ideal EXCEPT ![o] = d][o] = d
      /\ \A q \in Obj : q # o => [ideal EXCEPT ![o] = d][q] = ideal[q]
  BY <1>1 DEF Dnodes
<1>. QED
  BY <1>1, <1>2 DEF Ideal

\* The dnode that each record leaves in the receiver.
LEMMA IdealDnodes ==
    ASSUME Inv, NEW o \in Obj
    PROVE  /\ goal[o] # None => Received(ideal[o], goal[o]) \in Dnode
           /\ Announced(o) =>
                 /\ ideal[o] \in Dnode /\ goal[o] \in Dnode
                 /\ \A b \in Blk :
                       [ideal[o] EXCEPT !.blocks[b] = goal[o].blocks[b]] \in Dnode
                 /\ \A from, to : FreeBlocks(ideal[o], from, to) \in Dnode
                 /\ [ideal[o] EXCEPT !.spill = goal[o].spill] \in Dnode
<1>1. /\ goal[o] # None => goal[o] \in Dnode
      /\ ideal[o] # None => ideal[o] \in Dnode
      /\ ideal[o] \in Dnode \cup {None}
  BY TypeFacts
<1>2. goal[o] # None => Received(ideal[o], goal[o]) \in Dnode
  BY <1>1, ReceivedFields
<1>3. ASSUME Announced(o)
      PROVE  /\ ideal[o] \in Dnode /\ goal[o] \in Dnode
             /\ goal[o].spill \in Size \cup {None}
             /\ \A b \in Blk : goal[o].blocks[b] \in Byte \cup {Hole}
  BY <1>1, <1>3, DnodeFields DEF Announced
<1>4. ASSUME Announced(o), NEW b \in Blk
      PROVE  [ideal[o] EXCEPT !.blocks[b] = goal[o].blocks[b]] \in Dnode
  BY <1>3, <1>4, BlockFields
<1>5. ASSUME Announced(o), NEW from, NEW to
      PROVE  FreeBlocks(ideal[o], from, to) \in Dnode
  BY <1>3, <1>5, FreeFields
<1>6. ASSUME Announced(o)
      PROVE  [ideal[o] EXCEPT !.spill = goal[o].spill] \in Dnode
  BY <1>3, <1>6, SpillFields
<1>. QED
  BY <1>2, <1>3, <1>4, <1>5, <1>6

\* The lost records are counted.
LEMMA LostCounted ==
    ASSUME Inv, NEW arrives \in BOOLEAN, Delivered(arrives)
    PROVE  lost' \in Nat /\ (lost' = 0 => arrives /\ lost = 0)
BY DEF Inv, Types, Delivered

\* A record in the range: what is left to show.
LEMMA RecordInv ==
    ASSUME Inv, Framed, ProgramTyped', Known',
           ideal' \in Dnodes, due' \in SUBSET Blk, lost' \in Nat
    PROVE  Inv'
<1>1. Types'
  BY DEF Inv, Types, Framed, ProgramTyped
<1>2. Quiet' /\ ~unranged'
  BY DEF Inv, Quiet, Framed, InRange
<1>3. Closed'
  BY DEF Inv, Quiet, Closed, Framed, InRange
<1>4. Output'
  BY DEF Inv, Output, Framed
<1>. QED
  BY <1>1, <1>2, <1>3, <1>4 DEF Inv

\* A record that is lost.
LEMMA IgnoredKnown ==
    ASSUME Inv, Framed, Ignored
    PROVE  ProgramTyped' /\ Known'
BY TypeFacts DEF Inv, Known, Framed, Ignored, ProgramTyped

\* The records keep the invariant.
LEMMA RecordsKeep ==
    ASSUME Inv, NEW o \in Obj, NEW arrives \in BOOLEAN,
           \/ ObjectRecord(o, arrives)
           \/ \E b \in Blk : WriteRecord(o, b, arrives)
           \/ \E from \in Blk :
                 \E length \in 1..(MaxBytes - from) \cup {U64Max} :
                    FreeRecord(o, from, length, arrives)
           \/ SpillRecord(o, arrives)
           \/ FreeObjectsRecord(o, arrives)
    PROVE  Inv'
<1>1. CASE ObjectRecord(o, arrives)
  <2>1. Framed /\ (~arrives => Ignored)
    BY <1>1 DEF ObjectRecord, Framed, Heeded, Ideal, output
  <2>2. ProgramTyped' /\ Known'
    BY <1>1, <2>1, ObjectKnown, IgnoredKnown
  <2>3. Ideal(o, Received(ideal[o], goal[o]), {}) /\ Delivered(arrives) /\ goal[o] # None
    BY <1>1 DEF ObjectRecord
  <2>4. Received(ideal[o], goal[o]) \in Dnode
    BY <2>3, IdealDnodes
  <2>5. ideal' \in Dnodes /\ due' \in SUBSET Blk
    BY <2>3, <2>4, IdealReplaced
  <2>. QED
    BY <2>1, <2>2, <2>3, <2>5, LostCounted, RecordInv
<1>2. CASE \E b \in Blk : WriteRecord(o, b, arrives)
  <2> PICK b \in Blk : WriteRecord(o, b, arrives)
    BY <1>2
  <2>1. Framed /\ (~arrives => Ignored)
    BY DEF WriteRecord, Framed, Heeded, Ideal, output
  <2>2. ProgramTyped' /\ Known'
    BY <2>1, WriteKnown, IgnoredKnown
  <2> DEFINE e == [ideal[o] EXCEPT !.blocks[b] = goal[o].blocks[b]]
  <2>3. Ideal(o, e, {b}) /\ Delivered(arrives) /\ Announced(o)
    BY DEF WriteRecord
  <2>4. e \in Dnode
    BY <2>3, IdealDnodes
  <2> HIDE DEF e
  <2>5. ideal' \in Dnodes /\ due' \in SUBSET Blk
    BY <2>3, <2>4, IdealReplaced
  <2>. QED
    BY <2>1, <2>2, <2>3, <2>5, LostCounted, RecordInv
<1>3. CASE \E from \in Blk : \E length \in 1..(MaxBytes - from) \cup {U64Max} :
              FreeRecord(o, from, length, arrives)
  <2> PICK from \in Blk : \E length \in 1..(MaxBytes - from) \cup {U64Max} :
              FreeRecord(o, from, length, arrives)
    BY <1>3
  <2> PICK length \in 1..(MaxBytes - from) \cup {U64Max} :
              FreeRecord(o, from, length, arrives)
    OBVIOUS
  <2>1. Framed /\ (~arrives => Ignored)
    BY DEF FreeRecord, Framed, Heeded, Ideal, output
  <2>2. ProgramTyped' /\ Known'
    BY <2>1, FreeKnown, IgnoredKnown
  <2> DEFINE to == FreeTo(from, length)
             e == FreeBlocks(ideal[o], from, to)
  <2>3. Ideal(o, e, Extent(from, to)) /\ Delivered(arrives) /\ Announced(o)
    BY DEF FreeRecord, FreeTo
  <2>4. e \in Dnode
    BY <2>3, IdealDnodes
  <2> HIDE DEF e
  <2>5. ideal' \in Dnodes /\ due' \in SUBSET Blk
    BY <2>3, <2>4, IdealReplaced
  <2>. QED
    BY <2>1, <2>2, <2>3, <2>5, LostCounted, RecordInv
<1>4. CASE SpillRecord(o, arrives)
  <2>1. Framed /\ (~arrives => Ignored)
    BY <1>4 DEF SpillRecord, Framed, Heeded, Ideal, output
  <2>2. ProgramTyped' /\ Known'
    BY <1>4, <2>1, SpillKnown, IgnoredKnown
  <2> DEFINE e == [ideal[o] EXCEPT !.spill = goal[o].spill]
  <2>3. Ideal(o, e, {}) /\ Delivered(arrives) /\ Announced(o)
    BY <1>4 DEF SpillRecord
  <2>4. e \in Dnode
    BY <2>3, IdealDnodes
  <2> HIDE DEF e
  <2>5. ideal' \in Dnodes /\ due' \in SUBSET Blk
    BY <2>3, <2>4, IdealReplaced
  <2>. QED
    BY <2>1, <2>2, <2>3, <2>5, LostCounted, RecordInv
<1>5. CASE FreeObjectsRecord(o, arrives)
  <2>1. Framed /\ (arrives => Freed({o})) /\ (~arrives => Ignored)
    <3>1. Heeded(arrives) <=> arrives
      BY <1>5, InOurs DEF FreeObjectsRecord
    <3>. QED
      BY <1>5, <3>1 DEF FreeObjectsRecord, Framed, Ideal, output
  <2>2. ASSUME Freed({o}) PROVE ProgramTyped' /\ Known'
    BY <2>1, <2>2, FreedKnown DEF Framed, InRange
  <2>3. ProgramTyped' /\ Known'
    BY <2>1, <2>2, IgnoredKnown
  <2>4. Ideal(o, None, Blk) /\ Delivered(arrives)
    BY <1>5 DEF FreeObjectsRecord
  <2>5. ideal' \in Dnodes /\ due' \in SUBSET Blk
    BY <2>4, IdealReplaced
  <2>. QED
    BY <2>1, <2>3, <2>4, <2>5, LostCounted, RecordInv
<1>. QED
  BY <1>1, <1>2, <1>3, <1>4, <1>5

-----------------------------------------------------------------------------
(* Closing a range: the MAC makes the block the snapshot's.                *)

\* An authentic block has the snapshot's size and pointers.
LEMMA AuthenticSize ==
    ASSUME NEW g \in Range, NEW h \in Dnodes, Alike(h, g), h[Target] # None
    PROVE  /\ g[Target] # None /\ SameHead(h[Target], g[Target])
           /\ LogicalSize(h[Target]) = LogicalSize(g[Target])
           /\ LogicalSize(g[Target]) \in Size /\ At(h[Target]) = At(g[Target])
           /\ h[Target].flag => h[Target].spill = g[Target].spill /\ g[Target].spill # None
           /\ \A b \in Blk : /\ h[Target].blocks[b] = g[Target].blocks[b]
                             /\ b >= LogicalSize(g[Target]) => h[Target].blocks[b] = Hole
<1>1. Target \in Obj /\ g \in Dnodes
  BY SnapshotDnode DEF Obj
<1>2. h[Target] \in Dnode \cup {None} /\ g[Target] \in Dnode \cup {None}
  BY <1>1 DEF Dnodes
<1>3. /\ g[Target] # None /\ SameHead(h[Target], g[Target])
      /\ h[Target].blocks = g[Target].blocks
      /\ h[Target].flag => h[Target].spill = g[Target].spill
  BY <1>1, <1>2, CoveredFields DEF Alike
<1>4. /\ LogicalSize(g[Target]) \in Size
      /\ g[Target].flag => g[Target].spill # None
      /\ \A b \in Blk : b >= LogicalSize(g[Target]) => g[Target].blocks[b] = Hole
  BY <1>3, SnapshotDnode
<1>. QED
  BY <1>3, <1>4 DEF SameHead, LogicalSize, At

\* OBJECT_RANGE of another block, or END.
LEMMA RangeCloses ==
    ASSUME Inv, mode # "idle", FinishRange, ranged => Complete,
           current_range' # "ours", mode' = mode, raw_dnodes' = raw_dnodes,
           ideal' = ideal
    PROVE  new_size' \in Size /\ Closed'
<1>1. CASE current_range # "ours"
  <2>1. new_size' = new_size /\ new_size \in Size
    BY <1>1 DEF FinishRange, Inv, Types
  <2>. QED
    BY <1>1, <2>1 DEF Inv, Closed
<1>2. CASE current_range = "ours"
  <2>1. ideal = goal /\ Authentic(raw_dnodes) /\ goal \in Range /\ raw_dnodes \in Dnodes
    BY <1>2 DEF Complete, FinishRange, Inv, Types, Quiet
  <2>2. Alike(raw_dnodes, goal)
    BY <2>1 DEF Authentic, Matches, Alike
  <2>3. CASE mode = "extract"
    BY <1>2, <2>1, <2>2, <2>3 DEF Closed, Inv, Types, FinishRange
  <2>4. CASE mode = "apply"
    <3>1. raw_dnodes[Target] # None
      BY <1>2, <2>4 DEF FinishRange
    <3>2. /\ goal[Target] # None /\ SameHead(raw_dnodes[Target], goal[Target])
          /\ LogicalSize(goal[Target]) \in Size
          /\ raw_dnodes[Target].flag => /\ raw_dnodes[Target].spill = goal[Target].spill
                                        /\ goal[Target].spill # None
          /\ \A b \in Blk : b >= LogicalSize(goal[Target])
                               => raw_dnodes[Target].blocks[b] = Hole
      BY <2>1, <2>2, <3>1, AuthenticSize
    <3>3. At(goal[Target]) = sidecar.at
          /\ (raw_dnodes[Target].spill # None => target_spill = raw_dnodes[Target].spill)
      BY <2>4, <3>1, <3>2 DEF Inv, Known
    <3>4. new_size' = IF sidecar.at = "bonus" THEN raw_dnodes[Target].bonus
                      ELSE target_spill
      BY <1>2, <2>4 DEF FinishRange
    <3>5. new_size' = LogicalSize(goal[Target])
      BY <3>2, <3>3, <3>4 DEF At, SameHead, LogicalSize
    <3>. QED
      BY <2>1, <2>2, <2>4, <3>2, <3>5 DEF Closed
  <2>. QED
    BY <2>3, <2>4 DEF Inv, Types
<1>. QED
  BY <1>1, <1>2

\* An end that is set where every block past it is a hole loses nothing.
LEMMA CutHolds ==
    ASSUME NEW f \in File, NEW n \in Size, NEW d, Holds(f, d),
           \A b \in Blk : b >= n => d.blocks[b] = Hole
    PROVE  /\ SetLen(f, n) \in File /\ SetLen(f, n).len = n
           /\ Holds(SetLen(f, n), d)
<1>1. /\ SetLen(f, n) \in File /\ SetLen(f, n).len = n
      /\ \A b \in Pos : ReadByte(SetLen(f, n), b) = IF b < n THEN ReadByte(f, b) ELSE Zero
  BY SetLenRead DEF Size
<1>2. \A b \in Blk : b < n \/ b >= n
  BY SparseFileAssumption DEF Blk, Pos, Size
<1>. QED
  BY <1>1, <1>2 DEF Holds, Blk

\* An OBJECT_RANGE that arrives, one of another block and END.
LEMMA ClosesKeep ==
    ASSUME Inv, NEW arrives \in BOOLEAN,
           \/ ObjectRange(arrives) /\ arrives
           \/ OtherRange(arrives)
           \/ EndRecord
    PROVE  Inv'
<1>0. ~unranged'
  <2>1. ASSUME ObjectRange(arrives), arrives PROVE ~unranged'
    <3>1. unranged' = (unranged \/ ~arrives) /\ ~unranged
      BY <2>1 DEF ObjectRange, Inv
    <3>. QED
      BY <2>1, <3>1
  <2>2. ASSUME OtherRange(arrives) \/ EndRecord PROVE ~unranged'
    BY <2>2 DEF OtherRange, EndRecord, medium, Inv
  <2>. QED
    BY <2>1, <2>2
<1>1. /\ mode # "idle" /\ open /\ mode' = mode /\ raw_dnodes' = raw_dnodes
      /\ target_deleted' = target_deleted /\ target_spill' = target_spill
      /\ object_exists' = object_exists /\ file' = file /\ goal' = goal
      /\ ideal' = ideal /\ due' = due /\ published' = published
      /\ sidecar' = sidecar
  BY DEF ObjectRange, OtherRange, EndRecord, output
<1>2. lost' \in Nat
  BY LostCounted DEF ObjectRange, OtherRange, EndRecord, medium, Inv, Types
<1>3. CASE ObjectRange(arrives) /\ arrives
  <2>1. /\ current_range # "ours" /\ current_range' = "ours" /\ ranged' /\ open' = open
        /\ FinishRange /\ goal # NoDnodes
    BY <1>3 DEF ObjectRange, Inv, Quiet
  <2>2. new_size' \in Size /\ Closed'
    BY <2>1 DEF Closed, FinishRange, Inv, Types
  <2>. QED
    BY <1>0, <1>1, <1>2, <2>1, <2>2 DEF Inv, Types, Quiet, Known, Output, Complete
<1>4. CASE OtherRange(arrives) /\ ~arrives
  <2>1. /\ current_range' = current_range /\ ~ranged' /\ open' = open
        /\ new_size' = new_size /\ (ranged => Complete)
    BY <1>4 DEF OtherRange
  <2>2. Quiet'
    BY <1>1, <2>1 DEF Inv, Quiet, Complete
  <2>3. Closed'
    BY <1>1, <2>1 DEF Inv, Closed
  <2>. QED
    BY <1>0, <1>1, <1>2, <2>1, <2>2, <2>3 DEF Inv, Types, Known, Output
<1>5. CASE (OtherRange(arrives) /\ arrives) \/ EndRecord
  <2>1. /\ FinishRange /\ (ranged => Complete) /\ ~ranged'
        /\ current_range' \in {"none", "other"} /\ open' \in BOOLEAN
        /\ ~open' => Complete /\ current_range' = "none"
    BY <1>5 DEF OtherRange, EndRecord, Inv, Types
  <2>2. new_size' \in Size /\ Closed'
    BY <1>1, <2>1, RangeCloses
  <2>3. Quiet'
    BY <1>1, <2>1 DEF Inv, Quiet, Complete
  <2>. QED
    BY <1>0, <1>1, <1>2, <2>1, <2>2, <2>3 DEF Inv, Types, Known, Output
<1>. QED
  BY <1>3, <1>4, <1>5

\* The lone FREEOBJECTS of a block that is free now.
LEMMA FreeDnodeBlockKeeps ==
    ASSUME Inv, NEW arrives \in BOOLEAN, FreeDnodeBlock(arrives)
    PROVE  /\ Inv'
           /\ ideal' = NoDnodes
           /\ mode = "extract" /\ arrives => \A o \in Obj : raw_dnodes'[o] = None
<1>1. /\ mode # "idle" /\ open /\ ideal' = NoDnodes /\ ~Complete /\ goal = NoDnodes
      /\ Heeded(arrives) => Freed(Obj)
      /\ ~Heeded(arrives) => Ignored
      /\ mode' = mode /\ open' = open /\ current_range' = current_range
      /\ new_size' = new_size /\ goal' = goal /\ due' = due
      /\ ranged' = ranged /\ unranged' = unranged
      /\ published' = published /\ sidecar' = sidecar
  BY DEF FreeDnodeBlock, output
<1>2. current_range # "ours" /\ ~ranged
  BY <1>1 DEF Inv, Quiet
<1>3. mode = "apply" => Ignored
  BY <1>1, <1>2 DEF Heeded
<1>4. lost' \in Nat
  BY LostCounted DEF FreeDnodeBlock
<1>5. /\ ProgramTyped' /\ Known'
      /\ mode = "extract" /\ arrives => \A o \in Obj : raw_dnodes'[o] = None
  <2>1. CASE Freed(Obj)
    BY <1>1, <2>1, FreedKnown
  <2>2. CASE Ignored
    <3>1. ProgramTyped'
      BY <2>2, TypeFacts DEF ProgramTyped, Ignored
    <3>2. Known'
      BY <1>1, <2>2 DEF Inv, Known, Ignored
    <3>3. mode = "extract" /\ arrives => Freed(Obj)
      BY <1>1 DEF Heeded
    <3>4. mode = "extract" /\ arrives => \A o \in Obj : raw_dnodes'[o] = None
      BY <1>1, <3>3, FreedKnown
    <3>. QED
      BY <3>1, <3>2, <3>4
  <2>. QED
    BY <1>1, <2>1, <2>2
<1>6. NoDnodes \in Range /\ NoDnodes \in Dnodes /\ NoDnodes[Target] = None
  BY SnapshotDnode, TypeFacts DEF NoDnodes
<1>7. Types'
  BY <1>1, <1>4, <1>5, <1>6 DEF Inv, Types, ProgramTyped
<1>8. Quiet'
  BY <1>1, <1>2 DEF Inv, Quiet
<1>9. Closed'
  <2>1. mode = "apply" => raw_dnodes' = raw_dnodes
    BY <1>3 DEF Ignored
  <2>. QED
    BY <1>1, <1>2, <1>6, <2>1 DEF Inv, Closed
<1>10. Output'
  BY <1>1 DEF Inv, Output
<1>. QED
  BY <1>1, <1>5, <1>7, <1>8, <1>9, <1>10 DEF Inv

\* The remaining actions of an open substream.  A lost OBJECT_RANGE of the
\* block leaves the program where it was.
LEMMA RangesKeep ==
    ASSUME Inv, \/ \E g \in Range : BeginRecord(g)
                \/ EndRecord
                \/ \E arrives \in BOOLEAN : \/ ObjectRange(arrives)
                                              \/ OtherRange(arrives)
                                              \/ FreeDnodeBlock(arrives)
    PROVE  Inv' \/ Doubt'
<1>1. CASE \E g \in Range : BeginRecord(g)
  <2> PICK g \in Range : BeginRecord(g)
    BY <1>1
  <2>1. /\ mode # "idle" /\ ~open /\ open' = TRUE /\ goal' = g /\ due' \in SUBSET Blk
        /\ mode = "apply" /\ g[Target] # None => At(g[Target]) = sidecar.at
        /\ mode' = mode /\ current_range' = current_range /\ raw_dnodes' = raw_dnodes
        /\ target_deleted' = target_deleted /\ target_spill' = target_spill
        /\ new_size' = new_size /\ object_exists' = object_exists /\ file' = file
        /\ ideal' = ideal /\ ranged' = ranged /\ lost' = lost /\ unranged' = unranged
        /\ published' = published /\ sidecar' = sidecar
    BY DEF BeginRecord, medium, output
  <2>2. Types'
    BY <2>1 DEF Inv, Types
  <2>3. Quiet'
    BY <2>1 DEF Inv, Quiet
  <2>4. Known'
    BY <2>1 DEF Inv, Known
  <2>5. Closed'
    BY <2>1 DEF Inv, Closed
  <2>6. Output'
    BY <2>1 DEF Inv, Output
  <2>. QED
    BY <2>1, <2>2, <2>3, <2>4, <2>5, <2>6 DEF Inv
<1>2. CASE EndRecord
  BY <1>2, ClosesKeep
<1>3. ASSUME NEW arrives \in BOOLEAN,
             ObjectRange(arrives) \/ OtherRange(arrives) \/ FreeDnodeBlock(arrives)
      PROVE  Inv' \/ Doubt'
  <2>1. ASSUME ObjectRange(arrives), ~arrives PROVE Doubt'
    <3>1. unranged' = (unranged \/ ~arrives)
      BY <2>1 DEF ObjectRange
    <3>2. lost' = lost + 1 /\ lost \in Nat
      BY <2>1 DEF ObjectRange, Delivered, Inv, Types
    <3>3. lost' \in Nat \ {0}
      BY <3>2
    <3>. QED
      BY <2>1, <3>1, <3>3 DEF Doubt
  <2>. QED
    BY <1>3, <2>1, ClosesKeep, FreeDnodeBlockKeeps
<1>. QED
  BY <1>1, <1>2, <1>3

-----------------------------------------------------------------------------
(* Runs that start and end.                                                *)

\* A run has returned.
LEMMA Returned ==
    ASSUME Inv, Return, published' \in File \cup {None},
           sidecar' \in [snap : Range, logical_size : Size,
                         at : {"none", "bonus", "spill"},
                         raw_state : Dnodes, target_spill : Size \cup {None}],
           Output'
    PROVE  Inv'
<1>1. /\ NoDnodes \in Range /\ NoDnodes \in Dnodes /\ EmptyFile \in File /\ 0 \in Size
      /\ NoDnodes[Target] = None
  BY SnapshotDnode, TypeFacts, SparseFileAssumption
     DEF EmptyFile, File, Size, NoDnodes, Pos
<1>2. Types'
  BY <1>1 DEF Return, Types, Inv, medium
<1>3. Quiet' /\ ~unranged'
  BY DEF Return, Quiet, Complete, Inv, medium
<1>4. Known'
  BY <1>1 DEF Return, Known
<1>5. Closed'
  BY DEF Return, Closed
<1>. QED
  BY <1>2, <1>3, <1>4, <1>5 DEF Inv

\* An extraction or an update is published.
LEMMA FinishKeeps ==
    ASSUME Inv, FinishExtract \/ FinishApply
    PROVE  /\ published' \in File /\ Inv'
           /\ sidecar'.snap = goal /\ sidecar'.logical_size = published'.len
           /\ published' = SetLen(file, published'.len)
           /\ goal[Target] # None => published'.len = LogicalSize(goal[Target])
<1>1. /\ ~open /\ raw_dnodes[Target] # None /\ Return
      /\ mode # "idle"
  BY DEF FinishExtract, FinishApply
<1>2. Complete /\ current_range = "none" /\ ideal = goal
  BY <1>1 DEF Inv, Quiet, Complete
<1>3. /\ Holds(file, raw_dnodes[Target])
      /\ raw_dnodes[Target].spill # None => target_spill = raw_dnodes[Target].spill
  BY <1>1 DEF Inv, Known
<1>4. /\ raw_dnodes \in Dnodes /\ goal \in Range /\ file \in File
      /\ target_spill \in Size \cup {None} /\ new_size \in Size
  BY DEF Inv, Types
<1>5. CASE FinishExtract
  <2> DEFINE n == LogicalSize(raw_dnodes[Target])
  <2>1. mode = "extract" /\ Alike(raw_dnodes, goal)
    <3>1. goal # NoDnodes
      BY <1>5, TypeFacts DEF FinishExtract, NoDnodes
    <3>. QED
      BY <1>2, <1>5, <3>1 DEF FinishExtract, Inv, Closed
  <2>2. /\ goal[Target] # None /\ n = LogicalSize(goal[Target]) /\ n \in Size
        /\ At(raw_dnodes[Target]) = At(goal[Target])
        /\ At(goal[Target]) \in {"bonus", "spill"}
        /\ \A b \in Blk : b >= n => raw_dnodes[Target].blocks[b] = Hole
    BY <1>1, <1>4, <2>1, AuthenticSize DEF At
  <2>3. /\ published' = SetLen(file, n)
        /\ sidecar' = [snap |-> goal, at |-> At(raw_dnodes[Target]), logical_size |-> n,
                       raw_state |-> raw_dnodes, target_spill |-> target_spill]
    BY <1>5 DEF FinishExtract
  <2> HIDE DEF n
  <2>4. /\ SetLen(file, n) \in File /\ SetLen(file, n).len = n
        /\ Holds(SetLen(file, n), raw_dnodes[Target])
    BY <1>3, <1>4, <2>2, CutHolds
  <2>5. sidecar' \in [snap : Range, logical_size : Size,
                      at : {"none", "bonus", "spill"},
                      raw_state : Dnodes, target_spill : Size \cup {None}]
    BY <1>4, <2>2, <2>3
  <2>6. /\ sidecar'.snap = goal /\ sidecar'.at = At(goal[Target])
        /\ sidecar'.logical_size = n /\ sidecar'.raw_state = raw_dnodes
        /\ sidecar'.target_spill = target_spill
    BY <2>2, <2>3
  <2>7. published' \in File /\ published'.len = n /\ Holds(published', raw_dnodes[Target])
    BY <2>3, <2>4
  <2>8. Output'
    BY <1>3, <2>1, <2>2, <2>6, <2>7 DEF Output
  <2>9. Inv'
    BY <1>1, <2>5, <2>7, <2>8, Returned
  <2>. QED
    BY <2>2, <2>3, <2>6, <2>7, <2>9
<1>6. CASE FinishApply
  <2>1. /\ mode = "apply" /\ published' = SetLen(file, new_size)
        /\ sidecar' = [sidecar EXCEPT !.snap = goal, !.logical_size = new_size,
                          !.raw_state = raw_dnodes, !.target_spill = target_spill]
    BY <1>6 DEF FinishApply
  <2>2. /\ goal # NoDnodes => Alike(raw_dnodes, goal)
        /\ goal[Target] # None => new_size = LogicalSize(goal[Target])
        /\ \A b \in Blk : b >= new_size => raw_dnodes[Target].blocks[b] = Hole
    BY <1>1, <1>2, <2>1 DEF Inv, Closed
  <2>3. /\ sidecar.at \in {"bonus", "spill"}
        /\ goal[Target] # None => At(goal[Target]) = sidecar.at
    BY <2>1 DEF Inv, Known
  <2>4. sidecar \in [snap : Range, logical_size : Size,
                     at : {"none", "bonus", "spill"},
                     raw_state : Dnodes, target_spill : Size \cup {None}]
    BY DEF Inv, Types
  <2>5. /\ sidecar' \in [snap : Range, logical_size : Size,
                         at : {"none", "bonus", "spill"},
                         raw_state : Dnodes, target_spill : Size \cup {None}]
        /\ sidecar'.snap = goal /\ sidecar'.at = sidecar.at
        /\ sidecar'.logical_size = new_size /\ sidecar'.raw_state = raw_dnodes
        /\ sidecar'.target_spill = target_spill
    BY <1>4, <2>1, <2>4
  <2>6. /\ SetLen(file, new_size) \in File /\ SetLen(file, new_size).len = new_size
        /\ Holds(SetLen(file, new_size), raw_dnodes[Target])
    BY <1>3, <1>4, <2>2, CutHolds
  <2>7. /\ published' \in File /\ published'.len = new_size
        /\ Holds(published', raw_dnodes[Target])
    BY <2>1, <2>6
  <2>8. Output'
    BY <1>3, <2>2, <2>3, <2>5, <2>7 DEF Output
  <2>9. Inv'
    BY <1>1, <2>5, <2>7, <2>8, Returned
  <2>. QED
    BY <2>1, <2>2, <2>5, <2>7, <2>9
<1>. QED
  BY <1>5, <1>6

\* The other actions that start or end a run.
LEMMA RunsKeep ==
    ASSUME Inv, StartExtract \/ StartApply \/ Fail
    PROVE  Inv'
<1>1. CASE StartExtract
  <2>1. /\ mode = "idle" /\ mode' = "extract"
        /\ open' = open /\ current_range' = current_range /\ raw_dnodes' = raw_dnodes
        /\ target_deleted' = target_deleted /\ target_spill' = target_spill
        /\ new_size' = new_size /\ object_exists' = object_exists /\ file' = file
        /\ goal' = goal /\ ideal' = ideal /\ due' = due /\ lost' = lost
        /\ ranged' = ranged /\ unranged' = unranged
        /\ published' = published /\ sidecar' = sidecar
    BY <1>1 DEF StartExtract, program, sender, medium, output
  <2>2. Types'
    BY <2>1 DEF Inv, Types
  <2>3. Quiet'
    BY <2>1 DEF Inv, Quiet, Complete
  <2>4. raw_dnodes = NoDnodes /\ ideal = NoDnodes
        /\ ~object_exists /\ ~target_deleted
        /\ NoDnodes[Target] = None /\ NoDnodes \in Range
    BY <2>1, TypeFacts, SnapshotDnode DEF Inv, Quiet, Complete, NoDnodes
  <2>5. Known'
    BY <2>1, <2>4 DEF Known
  <2>6. Closed'
    BY <2>1, <2>4 DEF Closed, Alike
  <2>7. Output'
    BY <2>1 DEF Inv, Output
  <2>. QED
    BY <2>1, <2>2, <2>3, <2>5, <2>6, <2>7 DEF Inv
<1>2. CASE StartApply
  <2>1. /\ mode = "idle" /\ published # None /\ sidecar.raw_state[Target] # None
        /\ mode' = "apply" /\ raw_dnodes' = sidecar.raw_state
        /\ target_spill' = sidecar.target_spill /\ new_size' = sidecar.logical_size
        /\ file' = Copy(published) /\ goal' = sidecar.snap /\ ideal' = sidecar.snap
        /\ open' = open /\ current_range' = current_range
        /\ target_deleted' = target_deleted /\ object_exists' = object_exists
        /\ due' = due /\ lost' = lost /\ published' = published /\ sidecar' = sidecar
        /\ ranged' = ranged /\ unranged' = unranged
    BY <1>2 DEF StartApply, medium, output
  <2>2. published \in File
    BY <2>1 DEF Inv, Types
  <2>3. Copy(published) \in File
        /\ \A b \in Blk : ReadByte(Copy(published), b) = ReadByte(published, b)
    BY <2>2, CopyRead DEF Blk
  <2>4. sidecar.snap \in Range /\ sidecar.snap \in Dnodes /\ sidecar.raw_state \in Dnodes
        /\ sidecar.logical_size \in Size /\ sidecar.target_spill \in Size \cup {None}
    BY SnapshotDnode DEF Inv, Types
  <2>5. Types'
    BY <2>1, <2>3, <2>4 DEF Inv, Types
  <2>6. Quiet'
    BY <2>1 DEF Inv, Quiet, Complete
  <2>7. Output
    BY DEF Inv
  <2>8. Known'
    <3>1. Holds(file', raw_dnodes'[Target])
      BY <2>1, <2>3, <2>7 DEF Holds, Output
    <3>. QED
      BY <2>1, <2>7, <3>1 DEF Known, Output
  <2>9. Closed'
    BY <2>1, <2>4, <2>7 DEF Closed, Output
  <2>10. Output'
    BY <2>1, <2>7 DEF Output
  <2>. QED
    BY <2>1, <2>5, <2>6, <2>8, <2>9, <2>10 DEF Inv
<1>3. CASE Fail
  <2>1. Return /\ published' = published /\ sidecar' = sidecar
    BY <1>3 DEF Fail, output
  <2>2. Output'
    BY <2>1 DEF Inv, Output
  <2>. QED
    BY <2>1, <2>2, Returned DEF Inv, Types
<1>. QED
  BY <1>1, <1>2, <1>3

\* The invariant holds from the start.
LEMMA InvInit == Init => Inv
<1>1. SUFFICES ASSUME Init PROVE Inv
  OBVIOUS
<1>2. /\ NoDnodes \in Dnodes /\ NoDnodes[Target] = None /\ NoDnodes \in Range
      /\ EmptyFile \in File /\ 0 \in Size
  BY SparseFileAssumption, RawReplayAssumption
     DEF EmptyFile, File, Size, NoDnodes, Pos, Range, Dnodes, Obj
<1>3. Types
  BY <1>1, <1>2 DEF Init, Types, NoSidecar
<1>4. Quiet /\ Known /\ Closed /\ Output /\ ~unranged
  BY <1>1, <1>2 DEF Init, Quiet, Complete, Known, Closed, Output
<1>. QED
  BY <1>3, <1>4 DEF Inv

\* The invariant is kept by every step that does not lose the MAC.
LEMMA InvNext == Inv /\ [Next]_vars => Inv' \/ Doubt'
<1>1. SUFFICES ASSUME Inv, [Next]_vars PROVE Inv' \/ Doubt'
  OBVIOUS
<1>2. ASSUME UNCHANGED vars PROVE Inv'
  <2>1. Types' /\ Quiet' /\ ~unranged'
    BY <1>1, <1>2 DEF vars, program, sender, medium, output, Inv, Types, Quiet, Complete
  <2>2. Known' /\ Closed'
    BY <1>1, <1>2 DEF vars, program, sender, medium, output, Inv, Known, Closed
  <2>3. Output'
    BY <1>1, <1>2 DEF vars, program, sender, output, Inv, Output
  <2>. QED
    BY <2>1, <2>2, <2>3 DEF Inv
<1>3. ASSUME Next PROVE Inv' \/ Doubt'
  BY <1>1, <1>3, RecordsKeep, RangesKeep, FinishKeeps, RunsKeep DEF Next
<1>. QED
  BY <1>1, <1>2, <1>3

\* A lost MAC stays lost.
LEMMA DoubtNext == Doubt /\ [Next]_vars => Doubt'
<1>1. SUFFICES ASSUME Doubt, [Next]_vars
               PROVE  unranged' /\ (lost' = lost \/ lost' = lost + 1)
  BY DEF Doubt
<1>2. ASSUME UNCHANGED vars PROVE unranged' /\ lost' = lost
  BY <1>1, <1>2 DEF vars, sender, medium, Doubt
<1>3. CASE StartExtract \/ StartApply \/ (\E g \in Range : BeginRecord(g)) \/ EndRecord
           \/ FinishExtract \/ FinishApply \/ Fail
  BY <1>1, <1>3 DEF StartExtract, StartApply, BeginRecord, EndRecord, FinishExtract,
                    FinishApply, Fail, Return, sender, medium, Doubt
<1>4. CASE \E arrives \in BOOLEAN :
              \/ ObjectRange(arrives)
              \/ OtherRange(arrives)
              \/ FreeDnodeBlock(arrives)
  BY <1>1, <1>4 DEF ObjectRange, OtherRange, FreeDnodeBlock, Delivered, Doubt
<1>5. ASSUME NEW o \in Obj, NEW arrives \in BOOLEAN,
             \/ ObjectRecord(o, arrives)
             \/ \E b \in Blk : WriteRecord(o, b, arrives)
             \/ \E from \in Blk :
                   \E length \in 1..(MaxBytes - from) \cup {U64Max} :
                      FreeRecord(o, from, length, arrives)
             \/ SpillRecord(o, arrives)
             \/ FreeObjectsRecord(o, arrives)
      PROVE  unranged' = unranged /\ Delivered(arrives)
  BY <1>5 DEF ObjectRecord, WriteRecord, FreeRecord, SpillRecord, FreeObjectsRecord
<1>. QED
  BY <1>1, <1>2, <1>3, <1>4, <1>5 DEF Next, Delivered, Doubt

\* The invariant gives what the MAC promises.
LEMMA InvAuthenticated == Inv => AuthenticatedAnyway
<1>1. SUFFICES ASSUME Inv, published # None, sidecar.snap[Target] # None
               PROVE  LET d == sidecar.snap[Target]
                      IN  /\ published.len = LogicalSize(d)
                          /\ \A b \in Blk : d.blocks[b] # Hole
                                               => ReadByte(published, b) = d.blocks[b]
                          /\ \A o \in Obj : Covered(sidecar.raw_state[o])
                                               = Covered(sidecar.snap[o])
  BY DEF AuthenticatedAnyway
<1>2. /\ Output /\ sidecar.snap \in Dnodes /\ sidecar.raw_state \in Dnodes
      /\ Target \in Obj
  BY <1>1, TypeFacts, SnapshotDnode DEF Inv, Types
<1>3. Alike(sidecar.raw_state, sidecar.snap)
  BY <1>1, <1>2 DEF Output, NoDnodes
<1>4. sidecar.raw_state[Target] # None
      /\ sidecar.raw_state[Target].blocks = sidecar.snap[Target].blocks
  BY <1>1, <1>2, <1>3, CoveredFields DEF Alike, Dnodes
<1>. QED
  BY <1>1, <1>2, <1>3, <1>4 DEF Output, Holds, Alike

\* Whatever records the medium loses, in whatever runs: as long as none of
\* them was an OBJECT_RANGE of the block, the published file has the length
\* of the named snapshot and every block of it that has a pointer, and the
\* state in the sidecar passes that snapshot's MAC.
THEOREM RawAuthenticatedAnyway == Spec => []AuthenticatedAnyway
<1>1. Spec => [](Inv \/ Doubt)
  BY InvInit, InvNext, DoubtNext, PTL DEF Spec
<1>2. Doubt => AuthenticatedAnyway
  BY DEF Doubt, AuthenticatedAnyway
<1>. QED
  BY <1>1, <1>2, InvAuthenticated, PTL

-----------------------------------------------------------------------------
(* A stream that arrives whole.                                            *)

\* The program knows of the objects that the receiver has.
SameObjects == \A o \in Obj : raw_dnodes[o] = None <=> ideal[o] = None

\* A block reads as the receiver's, or as the snapshot's already.
Reads(b) ==
    \/ ReadByte(file, b) = Block(ideal[Target], b)
    \/ goal[Target] # None /\ ReadByte(file, b) = Block(goal[Target], b)

\* A block that is not due is a hole of the receiver's or the snapshot's.
Settled(b) ==
    \/ ideal[Target].blocks[b] = Hole
    \/ Block(ideal[Target], b) = Block(goal[Target], b)

\* The middle of a run.
Replays ==
    /\ SameObjects
    /\ mode = "apply" => goal # NoDnodes
    /\ ideal[Target] # None /\ ~target_deleted => \A b \in Blk \ due : Reads(b)
    /\ ideal[Target] # None /\ goal[Target] # None => \A b \in Blk \ due : Settled(b)

\* Nothing was lost and no update freed the whole block.
Exact ==
    lost = 0 => /\ mode # "idle" => Replays
                /\ published # None => sidecar.snap # NoDnodes
                /\ RawReconstructed

\* A record in the range, for Exact.
LEMMA RecordExact ==
    ASSUME Inv, Exact, Framed, NEW arrives \in BOOLEAN, Delivered(arrives),
           arrives /\ Replays => Replays'
    PROVE  Exact'
<1>1. CASE lost' # 0
  BY <1>1 DEF Exact
<1>2. CASE lost' = 0
  <2>1. arrives /\ lost = 0 /\ mode # "idle"
    BY <1>2, LostCounted DEF Framed, InRange
  <2>2. Replays /\ (published # None => sidecar.snap # NoDnodes) /\ RawReconstructed
    BY <2>1 DEF Exact
  <2>3. Replays'
    BY <2>1, <2>2
  <2>4. mode' # "idle" /\ published' = published /\ sidecar' = sidecar
    BY DEF Framed, InRange
  <2>5. RawReconstructed'
    BY <1>2, <2>1, <2>2, <2>4 DEF RawReconstructed
  <2>. QED
    BY <1>2, <2>2, <2>3, <2>4, <2>5 DEF Exact
<1>. QED
  BY <1>1, <1>2

\* A record of the neighbour does not touch the target.
LEMMA NeighbourReplays ==
    ASSUME Replays, Framed, raw_dnodes'[Target] = raw_dnodes[Target],
           ideal'[Target] = ideal[Target], due' = due, file' = file,
           target_deleted' = target_deleted, SameObjects'
    PROVE  Replays'
<1>1. goal' = goal /\ mode' = mode
  BY DEF Framed
<1>2. \A b \in Blk : (Reads(b) => Reads(b)') /\ (Settled(b) => Settled(b)')
  BY <1>1 DEF Reads, Settled
<1>. QED
  BY <1>1, <1>2 DEF Replays

\* OBJECT in a receiver.
LEMMA ObjectIdeal ==
    ASSUME Inv, NEW o \in Obj, ObjectRecord(o, TRUE)
    PROVE  LET p == ideal[o]
               e == ideal'[o]
           IN  /\ \A q \in Obj : q # o => ideal'[q] = ideal[q]
               /\ e \in Dnode /\ SameHead(e, goal[o]) /\ e.spill = None /\ due' = due
               /\ \A b \in Blk : e.blocks[b] =
                     IF p # None /\ p.levels <= goal[o].levels /\ b <= goal[o].max
                     THEN p.blocks[b] ELSE Hole
<1> DEFINE e == Received(ideal[o], goal[o])
<1>1. goal[o] \in Dnode /\ ideal[o] \in Dnode \cup {None}
  BY TypeFacts DEF ObjectRecord
<1>2. Ideal(o, e, {})
  BY DEF ObjectRecord
<1>3. /\ e \in Dnode /\ SameHead(e, goal[o]) /\ e.spill = None
      /\ \A b \in Blk : e.blocks[b] =
            IF ideal[o] # None /\ ideal[o].levels <= goal[o].levels /\ b <= goal[o].max
            THEN ideal[o].blocks[b] ELSE Hole
  BY <1>1, ReceivedFields
<1> HIDE DEF e
<1>4. ideal'[o] = e /\ \A q \in Obj : q # o => ideal'[q] = ideal[q]
  BY <1>2, <1>3, IdealReplaced
<1>5. due' = due
  BY <1>2 DEF Ideal
<1>. QED
  BY <1>3, <1>4, <1>5

\* OBJECT: a block that the new layout drops was the snapshot's hole, or is
\* due, or reads as the snapshot's; a target that is new starts empty.
LEMMA ObjectReplays ==
    ASSUME Inv, Replays, NEW o \in Obj, ObjectRecord(o, TRUE)
    PROVE  Replays'
<1>1. /\ Framed /\ goal[o] # None
      /\ raw_dnodes'[o] # None /\ ideal'[o] # None
      /\ \A q \in Obj : q # o => raw_dnodes'[q] = raw_dnodes[q] /\ ideal'[q] = ideal[q]
  <2>1. /\ Framed /\ goal[o] \in Dnode /\ raw_dnodes'[o] \in Dnode
        /\ \A q \in Obj : q # o => raw_dnodes'[q] = raw_dnodes[q]
    BY ObjectRaw
  <2>2. /\ ideal'[o] \in Dnode
        /\ \A q \in Obj : q # o => ideal'[q] = ideal[q]
    BY ObjectIdeal
  <2>3. goal[o] # None /\ raw_dnodes'[o] # None /\ ideal'[o] # None
    BY <2>1, <2>2, DnodeFields
  <2>. QED
    BY <2>1, <2>2, <2>3
<1>2. SameObjects'
  BY <1>1 DEF Replays, SameObjects
<1>3. goal' = goal /\ mode' = mode /\ due' = due /\ Target \in Obj
      /\ (mode = "extract" \/ mode = "apply")
  BY <1>1, ObjectIdeal, TypeFacts DEF Framed, InRange, Types
<1>4. /\ target_deleted' = (target_deleted \/
             (mode = "apply" /\ o = Target /\ raw_dnodes[o] = None))
      /\ file' = IF mode = "extract" /\ o = Target /\ ~object_exists
                 THEN SetLen(file, 0) ELSE file
  BY ObjectRaw
<1>5. target_deleted \in BOOLEAN
  BY DEF Inv, Types
<1>6. CASE o # Target
  BY <1>1, <1>2, <1>3, <1>4, <1>5, <1>6, NeighbourReplays
<1>7. CASE o = Target /\ ideal[Target] = None
  <2>1. raw_dnodes[Target] = None
    BY <1>3, <1>7 DEF Replays, SameObjects
  <2>2. mode = "apply" => target_deleted'
    BY <1>4, <1>7, <2>1
  <2>3. mode = "extract" => file' = SetLen(file, 0)
    BY <1>4, <1>7, <2>1 DEF Inv, Known
  <2>4. \A b \in Blk : ReadByte(SetLen(file, 0), b) = Zero
    <3>1. file \in File /\ 0 \in 0..MaxBytes
      BY SparseFileAssumption DEF Inv, Types
    <3>2. \A b \in Pos : ~(b < 0)
      BY SparseFileAssumption DEF Pos
    <3>. QED
      BY <3>1, <3>2, SetLenRead DEF Blk
  <2>5. \A b \in Blk : ideal'[Target].blocks[b] = Hole
    BY <1>7, ObjectIdeal
  <2>6. \A b \in Blk : Settled(b)'
    BY <2>5 DEF Settled
  <2>7. mode = "extract" => \A b \in Blk : Reads(b)'
    BY <2>3, <2>4, <2>5 DEF Reads, Block
  <2>. QED
    BY <1>2, <1>3, <2>2, <2>6, <2>7 DEF Replays
<1>8. CASE o = Target /\ ideal[Target] # None
  <2>1. raw_dnodes[Target] # None
    BY <1>3, <1>8 DEF Replays, SameObjects
  <2>2. file' = file /\ target_deleted' = target_deleted
    BY <1>4, <1>5, <1>8, <2>1 DEF Inv, Known
  <2>3. \A b \in Blk : \/ ideal'[Target].blocks[b] = Hole
                       \/ ideal'[Target].blocks[b] = ideal[Target].blocks[b]
    BY <1>8, ObjectIdeal
  <2>4. ASSUME NEW b \in Blk \ due PROVE Settled(b)
    BY <1>1, <1>8 DEF Replays
  <2>5. ASSUME NEW b \in Blk \ due PROVE Settled(b)'
    BY <1>3, <2>3, <2>4 DEF Settled, Block
  <2>6. ASSUME NEW b \in Blk \ due, Reads(b) PROVE Reads(b)'
    BY <1>1, <1>3, <1>8, <2>2, <2>3, <2>4, <2>6 DEF Reads, Settled, Block
  <2>. QED
    BY <1>2, <1>3, <1>8, <2>2, <2>5, <2>6 DEF Replays
<1>. QED
  BY <1>6, <1>7, <1>8

\* WRITE in a receiver.
LEMMA WriteIdeal ==
    ASSUME Inv, NEW o \in Obj, NEW k \in Blk, WriteRecord(o, k, TRUE)
    PROVE  LET p == ideal[o]
               e == ideal'[o]
           IN  /\ \A q \in Obj : q # o => ideal'[q] = ideal[q]
               /\ p \in Dnode /\ e \in Dnode /\ SameHead(e, p) /\ e.spill = p.spill
               /\ \A b \in Blk : e.blocks[b] = IF b = k THEN goal[o].blocks[k]
                                                        ELSE p.blocks[b]
               /\ due' = IF o = Target THEN due \ {k} ELSE due
<1> DEFINE e == [ideal[o] EXCEPT !.blocks[k] = goal[o].blocks[k]]
<1>1. Ideal(o, e, {k}) /\ Announced(o)
  BY DEF WriteRecord
<1>2. ideal[o] \in Dnode /\ goal[o].blocks[k] \in Byte \cup {Hole}
  BY <1>1, IdealDnodes, DnodeFields
<1>3. /\ e \in Dnode /\ SameHead(e, ideal[o]) /\ e.spill = ideal[o].spill
      /\ \A b \in Blk : e.blocks[b] = IF b = k THEN goal[o].blocks[k]
                                               ELSE ideal[o].blocks[b]
  BY <1>2, BlockFields
<1> HIDE DEF e
<1>4. /\ ideal'[o] = e /\ due' = IF o = Target THEN due \ {k} ELSE due
      /\ \A q \in Obj : q # o => ideal'[q] = ideal[q]
  BY <1>1, <1>3, IdealReplaced
<1>. QED
  BY <1>2, <1>3, <1>4

\* WRITE: the block is the snapshot's in the file and in the receiver.
LEMMA WriteReplays ==
    ASSUME Inv, Replays, NEW o \in Obj, NEW k \in Blk, WriteRecord(o, k, TRUE)
    PROVE  Replays'
<1>1. /\ Framed /\ goal[o] # None /\ goal[o].blocks[k] \in Byte
      /\ goal[o].blocks[k] # Hole
      /\ raw_dnodes[o] # None /\ raw_dnodes'[o] # None
      /\ ideal[o] # None /\ ideal'[o] # None
      /\ \A q \in Obj : q # o => raw_dnodes'[q] = raw_dnodes[q] /\ ideal'[q] = ideal[q]
  <2>1. goal[o] # None /\ goal[o].blocks[k] # Hole
    BY DEF WriteRecord, Announced
  <2>2. /\ Framed /\ goal[o].blocks[k] \in Byte
        /\ raw_dnodes[o] # None /\ raw_dnodes'[o] # None
        /\ \A q \in Obj : q # o => raw_dnodes'[q] = raw_dnodes[q]
    BY WriteRaw, DnodeFields
  <2>3. /\ ideal[o] # None /\ ideal'[o] # None
        /\ \A q \in Obj : q # o => ideal'[q] = ideal[q]
    BY WriteIdeal, DnodeFields
  <2>. QED
    BY <2>1, <2>2, <2>3
<1>2. SameObjects'
  BY <1>1 DEF Replays, SameObjects
<1>3. /\ goal' = goal /\ mode' = mode /\ Target \in Obj
      /\ target_deleted' = target_deleted
      /\ file' = IF o = Target THEN WriteBlock(file, k, goal[o].blocks[k]) ELSE file
      /\ due' = IF o = Target THEN due \ {k} ELSE due
  BY <1>1, WriteRaw, WriteIdeal, TypeFacts DEF Framed
<1>4. CASE o # Target
  BY <1>1, <1>2, <1>3, <1>4, NeighbourReplays
<1>5. CASE o = Target
  <2>1. \A b \in Blk : ReadByte(file', b) = IF b = k THEN goal[Target].blocks[k]
                                                     ELSE ReadByte(file, b)
    BY <1>1, <1>3, <1>5, WriteBlockRead, TypeFacts DEF ProgramTyped
  <2>2. \A b \in Blk : ideal'[Target].blocks[b] =
                          IF b = k THEN goal[Target].blocks[k] ELSE ideal[Target].blocks[b]
    BY <1>5, WriteIdeal
  <2>3. Reads(k)' /\ Settled(k)'
    BY <1>1, <1>3, <1>5, <2>1, <2>2 DEF Reads, Settled, Block
  <2>4. ASSUME NEW b \in Blk, b # k
        PROVE  (Reads(b) => Reads(b)') /\ (Settled(b) => Settled(b)')
    BY <1>3, <2>1, <2>2, <2>4 DEF Reads, Settled, Block
  <2>. QED
    BY <1>1, <1>2, <1>3, <1>5, <2>3, <2>4 DEF Replays
<1>. QED
  BY <1>4, <1>5

\* FREE in a receiver.
LEMMA FreeIdeal ==
    ASSUME Inv, NEW o \in Obj, NEW from \in Blk,
           NEW length \in 1..(MaxBytes - from) \cup {U64Max},
           FreeRecord(o, from, length, TRUE)
    PROVE  LET p == ideal[o]
               e == ideal'[o]
               K == FreedExtent(from, length)
           IN  /\ \A q \in Obj : q # o => ideal'[q] = ideal[q]
               /\ p \in Dnode /\ e \in Dnode /\ SameHead(e, p) /\ e.spill = p.spill
               /\ Emptied(e, p, K)
               /\ due' = IF o = Target THEN due \ K ELSE due
<1> DEFINE K == FreedExtent(from, length)
           e == FreeBlocks(ideal[o], from, FreeTo(from, length))
<1>1. Ideal(o, e, K) /\ Announced(o)
  BY DEF FreeRecord, FreeTo, FreedExtent
<1>2. ideal[o] \in Dnode
  BY <1>1, IdealDnodes
<1>3. /\ e \in Dnode /\ SameHead(e, ideal[o]) /\ e.spill = ideal[o].spill
      /\ Emptied(e, ideal[o], K)
  BY <1>2, FreeFields DEF FreedExtent, FreeTo, Emptied
<1> HIDE DEF e, K
<1>4. /\ ideal'[o] = e /\ due' = IF o = Target THEN due \ K ELSE due
      /\ \A q \in Obj : q # o => ideal'[q] = ideal[q]
  BY <1>1, <1>3, IdealReplaced
<1>. QED
  BY <1>2, <1>3, <1>4 DEF K

\* FREE: the blocks read as zero, and the receiver has holes there.
LEMMA FreeReplays ==
    ASSUME Inv, Replays, NEW o \in Obj, NEW from \in Blk,
           NEW length \in 1..(MaxBytes - from) \cup {U64Max},
           FreeRecord(o, from, length, TRUE)
    PROVE  Replays'
<1> DEFINE K == FreedExtent(from, length)
<1>1. /\ Framed
      /\ raw_dnodes[o] = None <=> raw_dnodes'[o] = None
      /\ ideal[o] # None /\ ideal'[o] # None
      /\ \A q \in Obj : q # o => raw_dnodes'[q] = raw_dnodes[q] /\ ideal'[q] = ideal[q]
  <2>1. /\ Framed
        /\ raw_dnodes[o] = None <=> raw_dnodes'[o] = None
        /\ \A q \in Obj : q # o => raw_dnodes'[q] = raw_dnodes[q]
    BY FreeRaw, DnodeFields
  <2>2. /\ ideal[o] # None /\ ideal'[o] # None
        /\ \A q \in Obj : q # o => ideal'[q] = ideal[q]
    BY FreeIdeal, DnodeFields
  <2>. QED
    BY <2>1, <2>2
<1>2. SameObjects'
  BY <1>1 DEF Replays, SameObjects
<1>3. /\ goal' = goal /\ mode' = mode /\ Target \in Obj
      /\ target_deleted' = target_deleted
      /\ file' = IF o = Target THEN ZeroRange(file, from, length) ELSE file
      /\ due' = IF o = Target THEN due \ K ELSE due
  <2>1. /\ target_deleted' = target_deleted
        /\ file' = IF o = Target THEN ZeroRange(file, from, length) ELSE file
    BY FreeRaw
  <2>2. due' = IF o = Target THEN due \ K ELSE due
    BY FreeIdeal
  <2>. QED
    BY <1>1, <2>1, <2>2, TypeFacts DEF Framed
<1>4. CASE o # Target
  BY <1>1, <1>2, <1>3, <1>4, NeighbourReplays
<1>5. CASE o = Target
  <2>1. \A b \in Blk : ReadByte(file', b) = IF b \in K THEN Zero ELSE ReadByte(file, b)
    BY <1>3, <1>5, ZeroRangeBlocks, TypeFacts DEF ProgramTyped
  <2>2. \A b \in Blk : ideal'[Target].blocks[b] =
                          IF b \in K THEN Hole ELSE ideal[Target].blocks[b]
    BY <1>5, FreeIdeal DEF Emptied
  <2> HIDE DEF K
  <2>3. ASSUME NEW b \in Blk, b \in K PROVE Reads(b)' /\ Settled(b)'
    BY <2>1, <2>2, <2>3 DEF Reads, Settled, Block
  <2>4. ASSUME NEW b \in Blk, b \notin K
        PROVE  (Reads(b) => Reads(b)') /\ (Settled(b) => Settled(b)')
    BY <1>3, <2>1, <2>2, <2>4 DEF Reads, Settled, Block
  <2>. QED
    BY <1>1, <1>2, <1>3, <1>5, <2>3, <2>4 DEF Replays
<1>. QED
  BY <1>4, <1>5

\* SPILL in a receiver.
LEMMA SpillIdeal ==
    ASSUME Inv, NEW o \in Obj, SpillRecord(o, TRUE)
    PROVE  LET p == ideal[o]
               e == ideal'[o]
           IN  /\ \A q \in Obj : q # o => ideal'[q] = ideal[q]
               /\ p \in Dnode /\ e \in Dnode /\ SameHead(e, p)
               /\ e.spill = goal[o].spill /\ e.blocks = p.blocks /\ due' = due
<1> DEFINE e == [ideal[o] EXCEPT !.spill = goal[o].spill]
<1>1. Ideal(o, e, {}) /\ Announced(o)
  BY DEF SpillRecord
<1>2. ideal[o] \in Dnode /\ goal[o].spill \in Size \cup {None}
  BY <1>1, IdealDnodes, DnodeFields
<1>3. /\ e \in Dnode /\ SameHead(e, ideal[o]) /\ e.spill = goal[o].spill
      /\ e.blocks = ideal[o].blocks
  BY <1>2, SpillFields
<1> HIDE DEF e
<1>4. ideal'[o] = e /\ \A q \in Obj : q # o => ideal'[q] = ideal[q]
  BY <1>1, <1>3, IdealReplaced
<1>5. due' = due
  BY <1>1 DEF Ideal
<1>. QED
  BY <1>2, <1>3, <1>4, <1>5

\* SPILL and FREEOBJECTS.
LEMMA OthersReplay ==
    ASSUME Inv, Replays, NEW o \in Obj,
           SpillRecord(o, TRUE) \/ FreeObjectsRecord(o, TRUE)
    PROVE  Replays'
<1>1. CASE SpillRecord(o, TRUE)
  <2>1. /\ Framed /\ raw_dnodes[o] # None /\ raw_dnodes'[o] # None
        /\ ideal[o] # None /\ ideal'[o] # None /\ ideal'[o].blocks = ideal[o].blocks
        /\ \A q \in Obj : q # o => raw_dnodes'[q] = raw_dnodes[q] /\ ideal'[q] = ideal[q]
    <3>1. /\ Framed /\ raw_dnodes[o] \in Dnode /\ raw_dnodes'[o] \in Dnode
          /\ \A q \in Obj : q # o => raw_dnodes'[q] = raw_dnodes[q]
      BY <1>1, SpillRaw
    <3>2. /\ ideal[o] \in Dnode /\ ideal'[o] \in Dnode
          /\ ideal'[o].blocks = ideal[o].blocks
          /\ \A q \in Obj : q # o => ideal'[q] = ideal[q]
      BY <1>1, SpillIdeal
    <3>3. /\ raw_dnodes[o] # None /\ raw_dnodes'[o] # None
          /\ ideal[o] # None /\ ideal'[o] # None
      BY <3>1, <3>2, DnodeFields
    <3>. QED
      BY <3>1, <3>2, <3>3
  <2>2. SameObjects'
    BY <2>1 DEF Replays, SameObjects
  <2>3. /\ goal' = goal /\ mode' = mode /\ Target \in Obj /\ file' = file
        /\ target_deleted' = target_deleted /\ due' = due
    BY <1>1, <2>1, SpillRaw, SpillIdeal, TypeFacts DEF Framed
  <2>4. ideal'[Target].blocks = ideal[Target].blocks
        /\ (ideal'[Target] # None => ideal[Target] # None)
    BY <2>1, <2>3
  <2>5. \A b \in Blk : (Reads(b) => Reads(b)') /\ (Settled(b) => Settled(b)')
    BY <2>3, <2>4 DEF Reads, Settled, Block
  <2>. QED
    BY <2>2, <2>3, <2>4, <2>5 DEF Replays
<1>2. CASE FreeObjectsRecord(o, TRUE)
  <2>1. Framed /\ Freed({o}) /\ Ideal(o, None, Blk)
    <3>1. Heeded(TRUE)
      BY <1>2, InOurs DEF FreeObjectsRecord
    <3>. QED
      BY <1>2, <3>1 DEF FreeObjectsRecord, Framed, Ideal, output
  <2>2. /\ ideal'[o] = None /\ \A q \in Obj : q # o => ideal'[q] = ideal[q]
        /\ due' = IF o = Target THEN due \ Blk ELSE due
    BY <2>1, IdealReplaced
  <2>3. raw_dnodes'[o] = None /\ \A q \in Obj : q # o => raw_dnodes'[q] = raw_dnodes[q]
    BY <2>1, FreedKnown DEF Framed, InRange
  <2>4. SameObjects'
    BY <2>2, <2>3 DEF Replays, SameObjects
  <2>5. CASE o = Target
    BY <2>1, <2>2, <2>4, <2>5 DEF Replays, Framed
  <2>6. CASE o # Target
    <3>1. file' = file /\ target_deleted' = target_deleted
      BY <2>1, <2>6 DEF Freed
    <3>. QED
      BY <2>1, <2>2, <2>3, <2>4, <2>6, <3>1, NeighbourReplays, TypeFacts
  <2>. QED
    BY <2>5, <2>6
<1>. QED
  BY <1>1, <1>2

\* Every record keeps Exact.
LEMMA RecordsExact ==
    ASSUME Inv, Exact, NEW o \in Obj, NEW arrives \in BOOLEAN,
           \/ ObjectRecord(o, arrives)
           \/ \E b \in Blk : WriteRecord(o, b, arrives)
           \/ \E from \in Blk :
                 \E length \in 1..(MaxBytes - from) \cup {U64Max} :
                    FreeRecord(o, from, length, arrives)
           \/ SpillRecord(o, arrives)
           \/ FreeObjectsRecord(o, arrives)
    PROVE  Exact'
<1>1. Framed /\ Delivered(arrives)
  BY DEF ObjectRecord, WriteRecord, FreeRecord, SpillRecord, FreeObjectsRecord, Framed,
         Ideal, output
<1>2. ASSUME arrives, Replays PROVE Replays'
  <2>1. arrives = TRUE
    BY <1>2
  <2>2. \/ ObjectRecord(o, TRUE)
        \/ \E b \in Blk : WriteRecord(o, b, TRUE)
        \/ \E from \in Blk :
              \E length \in 1..(MaxBytes - from) \cup {U64Max} :
                 FreeRecord(o, from, length, TRUE)
        \/ SpillRecord(o, TRUE)
        \/ FreeObjectsRecord(o, TRUE)
    BY <2>1
  <2>. QED
    BY <1>2, <2>2, ObjectReplays, WriteReplays, FreeReplays, OthersReplay
<1>. QED
  BY <1>1, <1>2, RecordExact

\* BEGIN: the file is that of the last snapshot, and what changes is due.
LEMMA BeginExact ==
    ASSUME BlockFreed = FALSE, Inv, Exact, NEW g \in Range, BeginRecord(g)
    PROVE  Exact'
<1>1. /\ mode # "idle" /\ ~open /\ goal' = g
      /\ mode = "apply" /\ g = NoDnodes => BlockFreed
      /\ due' = {b \in Blk : /\ goal[Target] # None /\ g[Target] # None
                             /\ Block(goal[Target], b) # Block(g[Target], b)}
      /\ mode' = mode /\ raw_dnodes' = raw_dnodes /\ target_deleted' = target_deleted
      /\ file' = file /\ ideal' = ideal /\ lost' = lost /\ published' = published
      /\ sidecar' = sidecar
  BY DEF BeginRecord, medium, output
<1>2. ideal = goal /\ due = {}
  BY <1>1 DEF Inv, Quiet, Complete
<1>3. SUFFICES ASSUME lost' = 0
               PROVE  Replays' /\ (published' # None => sidecar'.snap # NoDnodes)
                      /\ RawReconstructed'
  BY DEF Exact
<1>4. Replays /\ (published # None => sidecar.snap # NoDnodes) /\ RawReconstructed
  BY <1>1, <1>3 DEF Exact
<1>5. SameObjects'
  BY <1>1, <1>4 DEF Replays, SameObjects
<1>6. ASSUME NEW b \in Blk, ideal[Target] # None, ~target_deleted PROVE Reads(b)'
  BY <1>1, <1>2, <1>4, <1>6 DEF Replays, Reads
<1>7. ASSUME NEW b \in Blk \ due', ideal[Target] # None, g[Target] # None
      PROVE  Settled(b)'
  BY <1>1, <1>2, <1>7 DEF Settled
<1>8. Replays'
  BY <1>1, <1>5, <1>6, <1>7 DEF Replays
<1>. QED
  BY <1>1, <1>3, <1>4, <1>8 DEF RawReconstructed

\* The other steps inside a substream.
LEMMA RangesExact ==
    ASSUME Inv, Exact, NEW arrives \in BOOLEAN,
           \/ ObjectRange(arrives) \/ OtherRange(arrives) \/ FreeDnodeBlock(arrives)
           \/ EndRecord
    PROVE  Exact'
<1>0. SUFFICES ASSUME lost' = 0 PROVE Exact'
  BY DEF Exact
<1>1. lost = 0 /\ (FreeDnodeBlock(arrives) => arrives)
  BY <1>0, LostCounted DEF ObjectRange, OtherRange, FreeDnodeBlock, EndRecord, medium
<1>2. CASE ObjectRange(arrives) \/ OtherRange(arrives) \/ EndRecord
  <2>1. /\ mode' = mode /\ raw_dnodes' = raw_dnodes /\ target_deleted' = target_deleted
        /\ file' = file /\ goal' = goal /\ ideal' = ideal /\ due' = due
        /\ published' = published /\ sidecar' = sidecar
    BY <1>2 DEF ObjectRange, OtherRange, EndRecord, output
  <2>. QED
    BY <1>0, <1>1, <2>1 DEF Exact, Replays, SameObjects, Reads, Settled, RawReconstructed
<1>3. CASE FreeDnodeBlock(arrives)
  <2>1. /\ mode # "idle" /\ goal = NoDnodes /\ mode' = mode /\ goal' = goal
        /\ published' = published /\ sidecar' = sidecar
    BY <1>3 DEF FreeDnodeBlock, output
  <2>2. Replays /\ (published # None => sidecar.snap # NoDnodes) /\ RawReconstructed
    BY <1>1, <2>1 DEF Exact
  <2>3. mode = "extract"
    BY <2>1, <2>2 DEF Replays, Inv, Types
  <2>4. ideal' = NoDnodes /\ \A o \in Obj : raw_dnodes'[o] = None
    BY <1>1, <1>3, <2>3, FreeDnodeBlockKeeps
  <2>5. \A o \in Obj : NoDnodes[o] = None
    BY DEF NoDnodes
  <2>6. Target \in Obj
    BY TypeFacts
  <2>7. Replays'
    BY <2>1, <2>3, <2>4, <2>5, <2>6 DEF Replays, SameObjects
  <2>. QED
    BY <1>0, <1>1, <2>1, <2>2, <2>7 DEF Exact, RawReconstructed
<1>. QED
  BY <1>2, <1>3

\* A run that starts: from nothing, or from what was published.
LEMMA StartsExact ==
    ASSUME Inv, Exact, StartExtract \/ StartApply
    PROVE  Exact'
<1>1. lost' = lost /\ published' = published /\ sidecar' = sidecar /\ mode = "idle"
  BY DEF StartExtract, StartApply, sender, medium, output
<1>2. SUFFICES ASSUME lost' = 0
               PROVE  Replays' /\ (published' # None => sidecar'.snap # NoDnodes)
                      /\ RawReconstructed'
  BY DEF Exact
<1>3. (published # None => sidecar.snap # NoDnodes) /\ RawReconstructed /\ lost = 0
  BY <1>1, <1>2 DEF Exact
<1>4. RawReconstructed'
  BY <1>1, <1>3 DEF RawReconstructed
<1>5. CASE StartExtract
  <2>1. mode' = "extract" /\ raw_dnodes' = NoDnodes /\ ideal' = NoDnodes
    BY <1>1, <1>5 DEF StartExtract, program, sender, Inv, Quiet, Complete
  <2>2. NoDnodes[Target] = None
    BY TypeFacts DEF NoDnodes
  <2>3. Replays'
    BY <2>1, <2>2 DEF Replays, SameObjects
  <2>. QED
    BY <1>1, <1>3, <1>4, <2>3
<1>6. CASE StartApply
  <2>1. /\ published # None /\ mode' = "apply"
        /\ raw_dnodes' = sidecar.raw_state /\ file' = Copy(published)
        /\ goal' = sidecar.snap /\ ideal' = sidecar.snap
    BY <1>6 DEF StartApply
  <2>2. /\ published \in File /\ sidecar.raw_state \in Dnodes /\ sidecar.snap \in Dnodes
    BY <2>1, SnapshotDnode DEF Inv, Types
  <2>3. \A b \in Blk : ReadByte(file', b) = ReadByte(published, b)
    BY <2>1, <2>2, CopyRead DEF Blk
  <2>4. Alike(sidecar.raw_state, sidecar.snap)
    BY <1>3, <2>1 DEF Inv, Output
  <2>5. SameObjects'
    BY <2>1, <2>2, <2>4, CoveredFields DEF Alike, SameObjects, Dnodes
  <2>6. ideal'[Target] # None => \A b \in Blk : Reads(b)'
    BY <1>3, <2>1, <2>3 DEF RawReconstructed, Reads
  <2>7. \A b \in Blk : Settled(b)'
    BY <2>1 DEF Settled
  <2>8. Replays'
    BY <1>3, <2>1, <2>5, <2>6, <2>7 DEF Replays
  <2>. QED
    BY <1>1, <1>3, <1>4, <2>8
<1>. QED
  BY <1>5, <1>6

\* A run that ends: what it publishes is the snapshot's file.
LEMMA EndsExact ==
    ASSUME Inv, Exact, FinishExtract \/ FinishApply \/ Fail
    PROVE  Exact'
<1>1. mode # "idle" /\ mode' = "idle" /\ lost' = lost
  BY DEF FinishExtract, FinishApply, Fail, Return, medium
<1>2. SUFFICES ASSUME lost' = 0
               PROVE  (published' # None => sidecar'.snap # NoDnodes) /\ RawReconstructed'
  BY <1>1 DEF Exact
<1>3. Replays /\ (published # None => sidecar.snap # NoDnodes) /\ RawReconstructed
  BY <1>1, <1>2 DEF Exact
<1>4. CASE Fail
  BY <1>1, <1>2, <1>3, <1>4 DEF Fail, output, RawReconstructed
<1>5. CASE FinishExtract \/ FinishApply
  <2>1. /\ sidecar'.snap = goal /\ published' \in File
        /\ published' = SetLen(file, published'.len)
        /\ goal[Target] # None => published'.len = LogicalSize(goal[Target])
    BY <1>5, FinishKeeps
  <2>2. ideal = goal /\ due = {} /\ ~target_deleted
    BY <1>5 DEF FinishExtract, FinishApply, Inv, Quiet, Complete, Known
  <2>3. goal # NoDnodes
    <3>1. CASE FinishExtract
      BY <3>1, TypeFacts DEF FinishExtract, NoDnodes
    <3>2. CASE FinishApply
      BY <1>3, <3>2 DEF FinishApply, Replays
    <3>. QED
      BY <1>5, <3>1, <3>2
  <2>4. ASSUME goal[Target] # None, NEW b \in Blk
        PROVE  ReadByte(published', b) = Block(goal[Target], b)
    <3>1. ReadByte(file, b) = Block(goal[Target], b)
      BY <1>3, <2>2, <2>4 DEF Replays, Reads
    <3>2. LogicalSize(goal[Target]) \in Size
          /\ (b >= LogicalSize(goal[Target]) => goal[Target].blocks[b] = Hole)
      BY <2>4, SnapshotDnode DEF Inv, Types
    <3>3. ReadByte(published', b) = IF b < published'.len THEN ReadByte(file, b) ELSE Zero
      <4>1. file \in File /\ published'.len \in 0..MaxBytes
        BY <2>1 DEF Inv, Types, File
      <4>. QED
        BY <2>1, <4>1, SetLenRead DEF Blk
    <3>4. b < published'.len \/ b >= published'.len
      BY <2>1, <2>4, <3>2, SparseFileAssumption DEF Blk, Pos, Size
    <3>. QED
      BY <2>1, <2>4, <3>1, <3>2, <3>3, <3>4 DEF Block
  <2>5. RawReconstructed'
    BY <2>1, <2>4 DEF RawReconstructed
  <2>. QED
    BY <2>1, <2>3, <2>5
<1>. QED
  BY <1>4, <1>5

\* If no update frees the whole dnode block, every step keeps Exact.
LEMMA ExactNext ==
    ASSUME BlockFreed = FALSE
    PROVE  Inv /\ Exact /\ [Next]_vars => Exact'
<1>1. SUFFICES ASSUME Inv, Exact, [Next]_vars PROVE Exact'
  OBVIOUS
<1>2. ASSUME UNCHANGED vars PROVE Exact'
  BY <1>1, <1>2 DEF vars, program, sender, medium, output, Exact, Replays, SameObjects,
                    Reads, Settled, RawReconstructed
<1>3. ASSUME Next PROVE Exact'
  BY <1>1, <1>3, RecordsExact, BeginExact, RangesExact, StartsExact, EndsExact DEF Next
<1>. QED
  BY <1>1, <1>2, <1>3

\* If no record is lost and no update frees the whole dnode block, the
\* published file is that of the named snapshot in every block, whether or
\* not a block has a pointer.
THEOREM RawReconstructedWhole ==
    ASSUME BlockFreed = FALSE
    PROVE  Spec => []RawReconstructed
<1>1. Init => Inv /\ Exact
  BY InvInit DEF Init, Exact, RawReconstructed
<1>2. ((Inv /\ Exact) \/ Doubt) /\ [Next]_vars => (Inv /\ Exact)' \/ Doubt'
  BY InvNext, ExactNext, DoubtNext
<1>3. Inv /\ Exact => RawReconstructed
  BY DEF Exact, RawReconstructed
<1>4. Doubt => RawReconstructed
  BY DEF Doubt, RawReconstructed
<1>. QED
  BY <1>1, <1>2, <1>3, <1>4, PTL DEF Spec

-----------------------------------------------------------------------------
(* The dnodes whose tree did not grow are the receiver's, but for spill    *)
(* blocks that will be sent again.                                         *)

Tracks(o) ==
    ideal[o] # None /\ o \notin grown =>
        /\ SameHead(raw_dnodes[o], ideal[o]) /\ raw_dnodes[o].blocks = ideal[o].blocks
        /\ ideal[o].spill # None => raw_dnodes[o].spill = ideal[o].spill

Tracked == lost = 0 /\ mode # "idle" => \A o \in Obj : Tracks(o)

\* The blocks of a dnode are a function.
LEMMA SameBlocks ==
    ASSUME NEW d \in Dnode, NEW e \in Dnode, \A b \in Blk : d.blocks[b] = e.blocks[b]
    PROVE  d.blocks = e.blocks
BY DnodeFields

\* OBJECT: the program and the receiver carry the same blocks over, unless
\* the tree grows over blocks that stay.
LEMMA ObjectTracks ==
    ASSUME Inv, Replays, NEW o \in Obj, Tracks(o), ObjectRecord(o, TRUE)
    PROVE  Tracks(o)'
<1>0. SUFFICES ASSUME o \notin grown' PROVE Tracks(o)'
  BY DEF Tracks
<1>1. /\ goal[o] \in Dnode
      /\ raw_dnodes'[o] \in Dnode /\ SameHead(raw_dnodes'[o], goal[o])
      /\ \A b \in Blk : raw_dnodes'[o].blocks[b] =
            IF LayoutCompatible(raw_dnodes[o], goal[o]) /\ b <= goal[o].max
            THEN raw_dnodes[o].blocks[b] ELSE Hole
  BY ObjectRaw
<1>2. /\ ideal'[o] \in Dnode /\ SameHead(ideal'[o], goal[o]) /\ ideal'[o].spill = None
      /\ \A b \in Blk : ideal'[o].blocks[b] =
            IF ideal[o] # None /\ ideal[o].levels <= goal[o].levels /\ b <= goal[o].max
            THEN ideal[o].blocks[b] ELSE Hole
  BY ObjectIdeal
<1>3. raw_dnodes[o] = None <=> ideal[o] = None
  BY DEF Replays, SameObjects
<1>4. goal[o].levels \in Nat /\ (ideal[o] # None => ideal[o].levels \in Nat)
      /\ goal[o] # None
  BY <1>1, TypeFacts, DnodeFields
<1>5. ~Grows(o) /\ o \notin grown
  BY <1>0 DEF ObjectRecord
<1>6. \A b \in Blk : raw_dnodes'[o].blocks[b] = ideal'[o].blocks[b]
  <2>1. CASE ideal[o] = None
    BY <1>1, <1>2, <1>3, <2>1 DEF LayoutCompatible
  <2>2. CASE ideal[o] # None /\ ideal[o].levels < goal[o].levels
    <3>1. ~LayoutCompatible(raw_dnodes[o], goal[o])
      BY <1>4, <1>5, <2>2 DEF Tracks, SameHead, LayoutCompatible
    <3>2. \A b \in Blk : b <= goal[o].max => ideal[o].blocks[b] = Hole
      BY <1>5, <2>2 DEF Grows
    <3>. QED
      BY <1>1, <1>2, <3>1, <3>2
  <2>3. CASE ideal[o] # None /\ ~(ideal[o].levels < goal[o].levels)
    <3>1. LayoutCompatible(raw_dnodes[o], goal[o]) <=> ideal[o].levels <= goal[o].levels
      BY <1>3, <1>4, <1>5, <2>3 DEF Tracks, SameHead, LayoutCompatible
    <3>2. raw_dnodes[o].blocks = ideal[o].blocks
      BY <1>5, <2>3 DEF Tracks
    <3>. QED
      BY <1>1, <1>2, <2>3, <3>1, <3>2
  <2>. QED
    BY <2>1, <2>2, <2>3
<1>7. raw_dnodes'[o].blocks = ideal'[o].blocks
  BY <1>1, <1>2, <1>6, SameBlocks
<1>. QED
  BY <1>1, <1>2, <1>7 DEF Tracks, SameHead

\* WRITE.
LEMMA WriteTracks ==
    ASSUME Inv, NEW o \in Obj, Tracks(o), NEW k \in Blk, WriteRecord(o, k, TRUE)
    PROVE  Tracks(o)'
<1>0. SUFFICES ASSUME o \notin grown PROVE Tracks(o)'
  BY DEF Tracks, WriteRecord
<1>1. /\ raw_dnodes[o] \in Dnode
      /\ raw_dnodes'[o] \in Dnode /\ SameHead(raw_dnodes'[o], raw_dnodes[o])
      /\ raw_dnodes'[o].spill = raw_dnodes[o].spill
      /\ \A b \in Blk : raw_dnodes'[o].blocks[b] =
            IF b = k THEN goal[o].blocks[k] ELSE raw_dnodes[o].blocks[b]
  BY WriteRaw
<1>2. /\ ideal[o] \in Dnode /\ ideal'[o] \in Dnode /\ SameHead(ideal'[o], ideal[o])
      /\ ideal'[o].spill = ideal[o].spill
      /\ \A b \in Blk : ideal'[o].blocks[b] =
            IF b = k THEN goal[o].blocks[k] ELSE ideal[o].blocks[b]
  BY WriteIdeal
<1>3. ideal[o] # None
  BY <1>2, DnodeFields
<1>4. raw_dnodes'[o].blocks = ideal'[o].blocks
  BY <1>0, <1>1, <1>2, <1>3, SameBlocks DEF Tracks
<1>. QED
  BY <1>0, <1>1, <1>2, <1>3, <1>4 DEF Tracks, SameHead

\* FREE.
LEMMA FreeTracks ==
    ASSUME Inv, Replays, NEW o \in Obj, Tracks(o), NEW from \in Blk,
           NEW length \in 1..(MaxBytes - from) \cup {U64Max},
           FreeRecord(o, from, length, TRUE)
    PROVE  Tracks(o)'
<1> DEFINE K == FreedExtent(from, length)
<1>0. SUFFICES ASSUME o \notin grown PROVE Tracks(o)'
  BY DEF Tracks, FreeRecord
<1>1. /\ ideal[o] \in Dnode /\ ideal'[o] \in Dnode /\ SameHead(ideal'[o], ideal[o])
      /\ ideal'[o].spill = ideal[o].spill /\ Emptied(ideal'[o], ideal[o], K)
  BY FreeIdeal
<1>2. ideal[o] # None /\ raw_dnodes[o] # None
  BY <1>1, DnodeFields DEF Replays, SameObjects
<1>3. /\ raw_dnodes'[o] \in Dnode /\ SameHead(raw_dnodes'[o], raw_dnodes[o])
      /\ raw_dnodes'[o].spill = raw_dnodes[o].spill
      /\ Emptied(raw_dnodes'[o], raw_dnodes[o], K)
  BY <1>2, FreeRaw
<1> HIDE DEF K
<1>4. \A b \in Blk : raw_dnodes'[o].blocks[b] = ideal'[o].blocks[b]
  BY <1>0, <1>1, <1>2, <1>3 DEF Tracks, Emptied
<1>5. raw_dnodes'[o].blocks = ideal'[o].blocks
  BY <1>1, <1>3, <1>4, SameBlocks
<1>. QED
  BY <1>0, <1>1, <1>2, <1>3, <1>5 DEF Tracks, SameHead

\* SPILL and FREEOBJECTS.
LEMMA OthersTrack ==
    ASSUME Inv, NEW o \in Obj, Tracks(o),
           SpillRecord(o, TRUE) \/ FreeObjectsRecord(o, TRUE)
    PROVE  Tracks(o)'
<1>1. CASE SpillRecord(o, TRUE)
  <2>1. /\ raw_dnodes'[o].spill = goal[o].spill
        /\ SameHead(raw_dnodes'[o], raw_dnodes[o])
        /\ raw_dnodes'[o].blocks = raw_dnodes[o].blocks
    BY <1>1, SpillRaw
  <2>2. /\ ideal[o] \in Dnode /\ SameHead(ideal'[o], ideal[o])
        /\ ideal'[o].spill = goal[o].spill /\ ideal'[o].blocks = ideal[o].blocks
    BY <1>1, SpillIdeal
  <2>3. ideal[o] # None /\ grown' = grown
    BY <1>1, <2>2, DnodeFields DEF SpillRecord
  <2>. QED
    BY <2>1, <2>2, <2>3 DEF Tracks, SameHead
<1>2. CASE FreeObjectsRecord(o, TRUE)
  <2>1. Ideal(o, None, Blk)
    BY <1>2 DEF FreeObjectsRecord
  <2>2. ideal'[o] = None
    BY <2>1, IdealReplaced
  <2>. QED
    BY <2>2 DEF Tracks
<1>. QED
  BY <1>1, <1>2

\* Every record keeps Tracked.
LEMMA RecordsTracked ==
    ASSUME Inv, Exact, Tracked, NEW o \in Obj, NEW arrives \in BOOLEAN,
           \/ ObjectRecord(o, arrives)
           \/ \E b \in Blk : WriteRecord(o, b, arrives)
           \/ \E from \in Blk :
                 \E length \in 1..(MaxBytes - from) \cup {U64Max} :
                    FreeRecord(o, from, length, arrives)
           \/ SpillRecord(o, arrives)
           \/ FreeObjectsRecord(o, arrives)
    PROVE  Tracked'
<1>1. Framed /\ Delivered(arrives)
  BY DEF ObjectRecord, WriteRecord, FreeRecord, SpillRecord, FreeObjectsRecord, Framed,
         Ideal, output
<1>2. SUFFICES ASSUME lost' = 0 PROVE \A q \in Obj : Tracks(q)'
  BY DEF Tracked
<1>3. arrives = TRUE /\ lost = 0 /\ mode # "idle"
  BY <1>1, <1>2, LostCounted DEF Framed, InRange
<1>4. Replays /\ \A q \in Obj : Tracks(q)
  BY <1>3 DEF Exact, Tracked
<1>5. \/ ObjectRecord(o, TRUE)
      \/ \E b \in Blk : WriteRecord(o, b, TRUE)
      \/ \E from \in Blk :
            \E length \in 1..(MaxBytes - from) \cup {U64Max} :
               FreeRecord(o, from, length, TRUE)
      \/ SpillRecord(o, TRUE)
      \/ FreeObjectsRecord(o, TRUE)
  BY <1>3
<1>6. Tracks(o)'
  BY <1>4, <1>5, ObjectTracks, WriteTracks, FreeTracks, OthersTrack
<1>7. \A q \in Obj : q # o => raw_dnodes'[q] = raw_dnodes[q] /\ ideal'[q] = ideal[q]
  <2>1. CASE ObjectRecord(o, TRUE)
    <3>1. \A q \in Obj : q # o => raw_dnodes'[q] = raw_dnodes[q]
      BY <2>1, ObjectRaw
    <3>2. \A q \in Obj : q # o => ideal'[q] = ideal[q]
      BY <2>1, ObjectIdeal
    <3>. QED
      BY <3>1, <3>2
  <2>2. CASE \E b \in Blk : WriteRecord(o, b, TRUE)
    <3>1. \A q \in Obj : q # o => raw_dnodes'[q] = raw_dnodes[q]
      BY <2>2, WriteRaw
    <3>2. \A q \in Obj : q # o => ideal'[q] = ideal[q]
      BY <2>2, WriteIdeal
    <3>. QED
      BY <3>1, <3>2
  <2>3. CASE \E from \in Blk : \E length \in 1..(MaxBytes - from) \cup {U64Max} :
                FreeRecord(o, from, length, TRUE)
    <3>1. \A q \in Obj : q # o => raw_dnodes'[q] = raw_dnodes[q]
      BY <2>3, FreeRaw
    <3>2. \A q \in Obj : q # o => ideal'[q] = ideal[q]
      BY <2>3, FreeIdeal
    <3>. QED
      BY <3>1, <3>2
  <2>4. CASE SpillRecord(o, TRUE)
    BY <2>4, SpillRaw, SpillIdeal
  <2>5. CASE FreeObjectsRecord(o, TRUE)
    <3>1. Freed({o}) /\ Ideal(o, None, Blk)
      BY <1>1, <2>5, InOurs DEF FreeObjectsRecord, Framed
    <3>2. \A q \in Obj : q # o => ideal'[q] = ideal[q]
      BY <3>1, IdealReplaced
    <3>3. \A q \in Obj : q # o => raw_dnodes'[q] = raw_dnodes[q]
      BY <1>1, <3>1, FreedKnown DEF Framed, InRange
    <3>. QED
      BY <3>2, <3>3
  <2>. QED
    BY <1>5, <2>1, <2>2, <2>3, <2>4, <2>5
<1>8. \A q \in Obj : q # o => (q \in grown' <=> q \in grown)
  BY <1>5 DEF ObjectRecord, WriteRecord, FreeRecord, SpillRecord, FreeObjectsRecord
<1>9. ASSUME NEW q \in Obj, q # o PROVE Tracks(q)'
  BY <1>4, <1>7, <1>8, <1>9 DEF Tracks
<1>. QED
  BY <1>6, <1>9

\* Dnodes that the MAC cannot tell apart.
LEMMA AlikeTracks ==
    ASSUME NEW g \in Dnodes, NEW h \in Range, Alike(g, h), NEW o \in Obj, h[o] # None
    PROVE  /\ SameHead(g[o], h[o]) /\ g[o].blocks = h[o].blocks
           /\ h[o].spill # None => g[o].spill = h[o].spill
<1>1. g[o] \in Dnode \cup {None} /\ h[o] \in Dnode \cup {None}
      /\ Covered(g[o]) = Covered(h[o])
  BY SnapshotDnode DEF Dnodes, Alike
<1>2. /\ SameHead(g[o], h[o]) /\ g[o].blocks = h[o].blocks
      /\ g[o].flag => g[o].spill = h[o].spill
  BY <1>1, CoveredFields
<1>3. h[o].spill # None => h[o].flag
  BY SnapshotDnode
<1>. QED
  BY <1>2, <1>3 DEF SameHead

\* The other steps keep Tracked: a run starts, and a substream begins, with
\* dnodes that passed the MAC.
LEMMA StepsTracked ==
    ASSUME Inv, Exact, Tracked, Exact', NEW arrives \in BOOLEAN,
           \/ StartExtract \/ StartApply \/ \E g \in Range : BeginRecord(g)
           \/ ObjectRange(arrives) \/ OtherRange(arrives) \/ FreeDnodeBlock(arrives)
           \/ EndRecord \/ FinishExtract \/ FinishApply \/ Fail
    PROVE  Tracked'
<1>1. SUFFICES ASSUME lost' = 0, mode' # "idle", NEW o \in Obj PROVE Tracks(o)'
  BY DEF Tracked
<1>2. lost = 0
  BY <1>1, LostCounted
     DEF StartExtract, StartApply, BeginRecord, ObjectRange, OtherRange, EndRecord,
         FreeDnodeBlock, FinishExtract, FinishApply, Fail, Return, sender, medium
<1>3. CASE StartExtract
  <2>1. ideal' = NoDnodes
    BY <1>3 DEF StartExtract, sender, Inv, Quiet, Complete
  <2>. QED
    BY <2>1 DEF Tracks, NoDnodes
<1>4. CASE StartApply
  <2>1. /\ published # None /\ raw_dnodes' = sidecar.raw_state
        /\ ideal' = sidecar.snap
    BY <1>4 DEF StartApply
  <2>2. sidecar.raw_state \in Dnodes /\ sidecar.snap \in Range
    BY DEF Inv, Types
  <2>3. Alike(sidecar.raw_state, sidecar.snap)
    BY <1>2, <2>1 DEF Exact, Inv, Output
  <2>. QED
    BY <2>1, <2>2, <2>3, AlikeTracks DEF Tracks
<1>5. CASE \E g \in Range : BeginRecord(g)
  <2> PICK g \in Range : BeginRecord(g)
    BY <1>5
  <2>1. raw_dnodes' = raw_dnodes /\ ideal' = ideal /\ mode # "idle" /\ ~open
    BY DEF BeginRecord
  <2>2. current_range # "ours"
    BY <2>1 DEF Inv, Quiet
  <2>3. raw_dnodes \in Dnodes /\ ideal \in Range /\ (ideal # NoDnodes => Alike(raw_dnodes, ideal))
    BY <2>1, <2>2 DEF Inv, Types, Closed
  <2>4. ideal[o] # None => ideal # NoDnodes
    BY DEF NoDnodes
  <2>. QED
    BY <2>1, <2>3, <2>4, AlikeTracks DEF Tracks
<1>6. CASE ObjectRange(arrives) \/ OtherRange(arrives) \/ EndRecord
  <2>1. raw_dnodes' = raw_dnodes /\ ideal' = ideal /\ grown' = grown /\ mode # "idle"
    BY <1>6 DEF ObjectRange, OtherRange, EndRecord
  <2>. QED
    BY <1>2, <2>1 DEF Tracks, Tracked
<1>7. CASE FreeDnodeBlock(arrives)
  <2>1. ideal' = NoDnodes
    BY <1>7 DEF FreeDnodeBlock
  <2>. QED
    BY <2>1 DEF Tracks, NoDnodes
<1>8. CASE FinishExtract \/ FinishApply \/ Fail
  BY <1>1, <1>8 DEF FinishExtract, FinishApply, Fail, Return
<1>. QED
  BY <1>3, <1>4, <1>5, <1>6, <1>7, <1>8

\* A dnode that tracks the snapshot's passes its MAC.
LEMMA TrackedAccepted == Inv /\ Exact /\ Tracked => FaithfulAccepted
<1>1. SUFFICES ASSUME Inv, Exact, Tracked, InRange, Complete, lost = 0,
                      NEW o \in Obj \ grown
               PROVE  Matches(raw_dnodes, o)
  BY DEF FaithfulAccepted
<1>2. Replays /\ ideal = goal /\ Tracks(o)
  BY <1>1 DEF Exact, Tracked, InRange, Complete
<1>3. /\ raw_dnodes[o] = None <=> goal[o] = None
      /\ raw_dnodes[o] \in Dnode \cup {None} /\ goal[o] \in Dnode \cup {None}
  BY <1>1, <1>2, TypeFacts DEF Replays, SameObjects
<1>4. CASE goal[o] = None
  BY <1>3, <1>4 DEF Matches
<1>5. CASE goal[o] # None
  <2>1. /\ SameHead(raw_dnodes[o], goal[o]) /\ raw_dnodes[o].blocks = goal[o].blocks
        /\ goal[o].spill # None => raw_dnodes[o].spill = goal[o].spill
    BY <1>1, <1>2, <1>5 DEF Tracks
  <2>2. goal[o].flag => goal[o].spill # None
    BY <1>1, <1>5, SnapshotDnode DEF Inv, Types
  <2>3. raw_dnodes[o].flag => raw_dnodes[o].spill = goal[o].spill /\ goal[o].spill # None
    BY <2>1, <2>2 DEF SameHead
  <2>. QED
    BY <1>3, <1>5, <2>1, <2>3, CoveredFields DEF Matches
<1>. QED
  BY <1>4, <1>5

\* If no record is lost and no update frees the whole dnode block, every
\* dnode of a range that the sender has completed passes the MAC, unless its
\* tree grew in this substream over blocks that are not sent again.
THEOREM RawFaithfulAccepted ==
    ASSUME BlockFreed = FALSE
    PROVE  Spec => []FaithfulAccepted
<1>1. Init => Inv /\ Exact /\ Tracked
  BY InvInit DEF Init, Exact, RawReconstructed, Tracked
<1>2. ((Inv /\ Exact /\ Tracked) \/ Doubt) /\ [Next]_vars
         => (Inv /\ Exact /\ Tracked)' \/ Doubt'
  <2>1. SUFFICES ASSUME Inv, Exact, Tracked, [Next]_vars
                 PROVE  (Inv' /\ Exact' /\ Tracked') \/ Doubt'
    BY DoubtNext
  <2>2. (Inv' \/ Doubt') /\ Exact'
    BY <2>1, InvNext, ExactNext
  <2>3. ASSUME UNCHANGED vars PROVE Tracked'
    BY <2>1, <2>3 DEF vars, program, sender, medium, Tracked, Tracks
  <2>4. ASSUME Next PROVE Tracked'
    BY <2>1, <2>2, <2>4, RecordsTracked, StepsTracked DEF Next
  <2>. QED
    BY <2>1, <2>2, <2>3, <2>4
<1>3. Doubt => FaithfulAccepted
  BY DEF Doubt, FaithfulAccepted
<1>. QED
  BY <1>1, <1>2, <1>3, TrackedAccepted, PTL DEF Spec
=============================================================================
