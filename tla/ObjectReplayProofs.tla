------------------------- MODULE ObjectReplayProofs -------------------------
(***************************************************************************)
(* ObjectReplay publishes the file of the snapshot its sidecar names, for  *)
(* every file size, chunk size and byte alphabet and for chains of any     *)
(* length, as long as ZPL_SIZE does not move within the dnode.             *)
(***************************************************************************)
EXTENDS ObjectReplay, TLAPS

-----------------------------------------------------------------------------
(* What the operations on a sparse file do to the bytes that a reader of   *)
(* it sees.                                                                *)

\* File::set_len keeps the bytes below the new length; the rest reads as zero.
LEMMA SetLenRead ==
    ASSUME NEW f \in File, NEW n \in 0..MaxBytes
    PROVE  /\ SetLen(f, n) \in File
           /\ SetLen(f, n).len = n
           /\ \A b \in Pos : ReadByte(SetLen(f, n), b) =
                                IF b < n THEN ReadByte(f, b) ELSE Zero
BY SparseFileAssumption DEF File, SetLen, ReadByte, Pos

\* A write changes what its extent reads as, and nothing else: the gap it
\* may leave behind the old end reads as zero before and after.
LEMMA WriteAtRead ==
    ASSUME NEW f \in File, NEW from \in 0..MaxBytes, NEW to \in 0..MaxBytes,
           NEW bytes \in [Pos -> Byte]
    PROVE  /\ WriteAt(f, from, to, bytes) \in File
           /\ \A b \in Pos : ReadByte(WriteAt(f, from, to, bytes), b) =
                                IF b \in Extent(from, to) THEN bytes[b]
                                                          ELSE ReadByte(f, b)
BY SparseFileAssumption DEF File, WriteAt, ReadByte, Pos, Extent

\* Within a file, write_zeros and punch_hole leave the same length and bytes:
\* it does not matter whether the host can punch holes.
LEMMA WriteZerosPunches ==
    ASSUME NEW f \in File, NEW from \in 0..MaxBytes, NEW to \in 0..MaxBytes, to <= f.len
    PROVE  /\ WriteZeros(f, from, to).len = PunchHole(f, from, to).len
           /\ \A b \in Pos : ReadByte(WriteZeros(f, from, to), b)
                               = ReadByte(PunchHole(f, from, to), b)
BY SparseFileAssumption DEF WriteZeros, PunchHole, WriteAt, File, ReadByte, Pos, Extent

\* The extent a FREE of `length' bytes names.
FreedExtent(offset, length) ==
    Extent(offset, IF length = U64Max THEN MaxBytes ELSE offset + length)

\* zero_range makes its range read as zero and nothing else, although it
\* clips the range to the file, shortens the file for an open-ended range
\* and does nothing past the end.
LEMMA ZeroRangeRead ==
    ASSUME NEW f \in File, NEW offset \in 0..MaxBytes,
           NEW length \in 0..(MaxBytes - offset) \cup {U64Max}
    PROVE  /\ ZeroRange(f, offset, length) \in File
           /\ \A b \in Pos : ReadByte(ZeroRange(f, offset, length), b) =
                                IF b \in FreedExtent(offset, length) THEN Zero
                                                     ELSE ReadByte(f, b)
<1> USE SparseFileAssumption
<1>1. CASE offset >= f.len \/ length = 0
  BY <1>1 DEF ZeroRange, File, ReadByte, Pos, Extent, FreedExtent
<1>2. CASE offset < f.len /\ length = U64Max
  <2>1. ZeroRange(f, offset, length) = SetLen(f, offset)
    BY <1>2 DEF ZeroRange, File
  <2>2. \A b \in Pos : b \in FreedExtent(offset, length) <=> b >= offset
    BY <1>2 DEF FreedExtent, Extent, Pos
  <2> QED BY <2>1, <2>2, SetLenRead DEF Pos
<1>3. CASE offset < f.len /\ length # 0 /\ length # U64Max
  <2> DEFINE end == IF length < f.len - offset THEN offset + length ELSE f.len
  <2>1. ZeroRange(f, offset, length) = PunchHole(f, offset, end)
    BY <1>3 DEF ZeroRange, File
  <2>2. end \in 0..MaxBytes /\ end <= f.len
    BY <1>3 DEF File
  <2>3. \A b \in Pos : b < f.len =>
          (b \in FreedExtent(offset, length) <=> b \in Extent(offset, end))
    BY <1>3 DEF FreedExtent, Extent, Pos, File
  <2> QED BY <2>1, <2>2, <2>3 DEF PunchHole, File, ReadByte, Pos
<1> QED BY <1>1, <1>2, <1>3 DEF File

\* A chunk of write_extent reads back as the payload whether it was written
\* or, being all zero, only punched out of the file.
LEMMA WriteChunkRead ==
    ASSUME NEW f \in File, NEW from \in 0..MaxBytes, NEW to \in 0..MaxBytes,
           from <= to, NEW bytes \in [Pos -> Byte]
    PROVE  /\ WriteChunk(f, from, to, bytes) \in File
           /\ \A b \in Pos : ReadByte(WriteChunk(f, from, to, bytes), b) =
                                IF b \in Extent(from, to) THEN bytes[b]
                                                          ELSE ReadByte(f, b)
<1> USE SparseFileAssumption
<1>1. CASE \A b \in Extent(from, to) : bytes[b] = Zero
  <2>1. to - from \in 0..(MaxBytes - from) /\ to - from # U64Max
    OBVIOUS
  <2>2. FreedExtent(from, to - from) = Extent(from, to)
    BY <2>1 DEF FreedExtent
  <2> QED BY <1>1, <2>1, <2>2, ZeroRangeRead DEF WriteChunk
<1>2. CASE ~ \A b \in Extent(from, to) : bytes[b] = Zero
  BY <1>2, WriteAtRead DEF WriteChunk
<1> QED BY <1>1, <1>2

\* sparse::copy yields a file that reads as the original.
LEMMA CopyRead ==
    ASSUME NEW f \in File
    PROVE  /\ Copy(f) \in File
           /\ \A b \in Pos : ReadByte(Copy(f), b) = ReadByte(f, b)
<1>1. EmptyFile \in File /\ f.len \in 0..MaxBytes /\ f.data \in [Pos -> Byte]
  BY SparseFileAssumption DEF EmptyFile, File, Pos
<1>2. SetLen(EmptyFile, f.len) \in File
  BY <1>1, SetLenRead
<1>3. \A b \in Pos : ReadByte(SetLen(EmptyFile, f.len), b) = Zero
  BY <1>1, SetLenRead DEF EmptyFile, ReadByte
<1>4. \A b \in Pos : b \in Extent(0, f.len) <=> b < f.len
  BY <1>1 DEF Extent, Pos
<1>5. /\ Copy(f) \in File
      /\ \A b \in Pos : ReadByte(Copy(f), b) =
                           IF b \in Extent(0, f.len) THEN f.data[b]
                           ELSE ReadByte(SetLen(EmptyFile, f.len), b)
  <2>1. 0 \in 0..MaxBytes
    BY SparseFileAssumption
  <2> QED BY <2>1, <1>1, <1>2, WriteAtRead DEF Copy
<1> QED BY <1>3, <1>4, <1>5 DEF ReadByte

-----------------------------------------------------------------------------
LEMMA AbsentFacts ==
    /\ Absent.size = 0 /\ Absent.at = "none"
    /\ Absent.data \in [Pos -> Byte]
    /\ \A b \in Pos : Absent.data[b] = Zero
    /\ EmptyFile \in File
    /\ \A b \in Pos : ReadByte(EmptyFile, b) = Zero
    /\ DnodeOf(Absent) = NoDnode
    /\ NoDnode \in Dnode
<1> USE SparseFileAssumption
<1>1. /\ Absent.size = 0 /\ Absent.at = "none"
      /\ Absent.data \in [Pos -> Byte]
      /\ \A b \in Pos : Absent.data[b] = Zero
  BY DEF Absent
<1>2. EmptyFile \in File /\ \A b \in Pos : ReadByte(EmptyFile, b) = Zero
  BY DEF EmptyFile, File, ReadByte, Pos
<1>3. DnodeOf(Absent) = NoDnode
  BY <1>1 DEF DnodeOf, NoDnode
<1>4. NoDnode \in Dnode
  BY DEF NoDnode, Dnode
<1> QED BY <1>1, <1>2, <1>3, <1>4

\* Every goal, the absent file included, is a size, bytes that are zero past
\* it and a place of the size.
LEMMA SnapshotFacts ==
    ASSUME NEW s \in Snapshot \cup {Absent}
    PROVE  /\ s.size \in Size /\ s.data \in [Pos -> Byte]
           /\ s.at \in Where \cup {"none"}
           /\ \A b \in Pos : b >= s.size => s.data[b] = Zero
           /\ s # Absent => s \in Snapshot /\ s.at \in Where /\ s.at # "none"
           /\ DnodeOf(s) \in Dnode
<1> USE SparseFileAssumption, ObjectReplayAssumption
<1>1. /\ s.size \in Size /\ s.data \in [Pos -> Byte]
      /\ s.at \in Where \cup {"none"}
      /\ \A b \in Pos : b >= s.size => s.data[b] = Zero
  BY AbsentFacts DEF Snapshot, Size
<1>2. s # Absent => s \in Snapshot /\ s.at \in Where /\ s.at # "none"
  BY DEF Snapshot
<1>3. DnodeOf(s) \in Dnode
  BY <1>1 DEF DnodeOf, Dnode
<1> QED BY <1>1, <1>2, <1>3

\* A size found in the dnode of a present file is the file's.
LEMMA DnodeSize ==
    ASSUME NEW s \in Snapshot
    PROVE  /\ DnodeOf(s).live
           /\ LogicalSize(DnodeOf(s)) = s.size
           /\ s.at = "spill" => DnodeOf(s).spill = s.size
           /\ s.at # "spill" => DnodeOf(s).bonus = s.size
<1>1. s.at \in {"bonus", "shifted", "spill"} /\ s.size \in Size /\ None \notin Size
  BY ObjectReplayAssumption DEF Snapshot, Size
<1>2. s # Absent
  BY <1>1 DEF Absent
<1> QED BY <1>1, <1>2 DEF DnodeOf, LogicalSize

\* Zeroing an extent of the file, and bringing the sender's account of it up
\* to date, keeps the file faithful.
LEMMA ZeroedFaithful ==
    ASSUME TypeOK, NEW offset \in Size,
           NEW length \in 0..(MaxBytes - offset) \cup {U64Max},
           \A b \in done : ReadByte(file, b) = goal.data[b]
    PROVE  \A b \in Zeroed(offset, IF length = U64Max THEN MaxBytes
                                                      ELSE offset + length) :
              ReadByte(ZeroRange(file, offset, length), b) = goal.data[b]
<1>1. \A b \in Pos : ReadByte(ZeroRange(file, offset, length), b) =
            IF b \in FreedExtent(offset, length) THEN Zero ELSE ReadByte(file, b)
  BY ZeroRangeRead DEF TypeOK, Size
<1>2. done \subseteq Pos
  BY DEF TypeOK
<1> QED BY <1>1, <1>2 DEF Zeroed, FreedExtent, Extent

-----------------------------------------------------------------------------
LEMMA InitIInv == Init => IInv
<1> SUFFICES ASSUME Init PROVE IInv
  OBVIOUS
<1> USE AbsentFacts DEF Init, Idle
<1>1. TypeOK
  <2>1. 0 \in Size
    BY SparseFileAssumption DEF Size
  <2>2. /\ pending \in [from : Size, to : Size]
        /\ sidecar \in [snap : Snapshot \cup {Absent}, logical_size : Size,
                        at : Where \cup {"none"}]
    BY <2>1 DEF NoWrite, NoSidecar
  <2> QED BY <2>1, <2>2 DEF TypeOK
<1>2. IdleClean /\ WriteInProgress /\ OutputNamed /\ Reconstructed
  BY DEF IdleClean, WriteInProgress, OutputNamed, Reconstructed, NoWrite, Quiet
<1>3. /\ FaithfulSoFar /\ BetweenSubstreams /\ SizeTracked /\ UnchangedSoFar
      /\ RefusalMeansUnchanged /\ ExistsTracked
  BY DEF ExistsTracked, FaithfulSoFar, BetweenSubstreams, SizeTracked, UnchangedSoFar,
     RefusalMeansUnchanged
<1> QED BY <1>1, <1>2, <1>3 DEF IInv

LEMMA StartExtractIInv == IInv /\ StartExtract => IInv'
<1> SUFFICES ASSUME IInv, StartExtract PROVE IInv'
  OBVIOUS
<1> USE DEF StartExtract, replay, applying, sender, output
<1>1. Idle /\ mode' = "extract"
  BY DEF IInv, IdleClean
<1>2. TypeOK' /\ IdleClean' /\ WriteInProgress' /\ OutputNamed'
  BY <1>1 DEF IInv, TypeOK, IdleClean, WriteInProgress, OutputNamed, Idle, Quiet,
     NoWrite
<1>3. Reconstructed'
  BY DEF IInv, Reconstructed, Holds
<1>4. BetweenSubstreams' /\ ExistsTracked'
  BY <1>1, AbsentFacts DEF Idle, BetweenSubstreams, ExistsTracked, NoDnode
<1>5. FaithfulSoFar' /\ SizeTracked' /\ UnchangedSoFar' /\ RefusalMeansUnchanged'
  BY <1>1 DEF Idle, FaithfulSoFar, SizeTracked, UnchangedSoFar,
     RefusalMeansUnchanged
<1> QED BY <1>2, <1>3, <1>4, <1>5 DEF IInv

LEMMA StartApplyIInv == IInv /\ StartApply => IInv'
<1> SUFFICES ASSUME IInv, StartApply PROVE IInv'
  OBVIOUS
<1> USE DEF StartApply, output
<1>1. Idle /\ mode' = "apply"
  BY DEF IInv, IdleClean
<1>2. /\ published \in File /\ sidecar.snap \in Snapshot
      /\ sidecar.at = sidecar.snap.at
      /\ Holds(published, sidecar.snap)
      /\ sidecar.logical_size = sidecar.snap.size
  BY DEF IInv, TypeOK, OutputNamed, Reconstructed
<1>3. /\ file' \in File
      /\ \A b \in Pos : ReadByte(file', b) = sidecar.snap.data[b]
  BY <1>2, CopyRead DEF Holds
<1>4. TypeOK'
  BY <1>1, <1>2, <1>3, SnapshotFacts DEF IInv, TypeOK, Idle
<1>5. IdleClean' /\ WriteInProgress' /\ OutputNamed'
  BY <1>1, <1>2 DEF IdleClean, WriteInProgress, OutputNamed, Idle, Quiet, NoWrite
<1>6. Reconstructed'
  BY <1>2 DEF Reconstructed, Holds
<1>7. BetweenSubstreams' /\ ExistsTracked'
  BY <1>3 DEF BetweenSubstreams, ExistsTracked
<1>8. SizeTracked'
  BY <1>2, DnodeSize DEF SizeTracked
<1>9. FaithfulSoFar' /\ UnchangedSoFar' /\ RefusalMeansUnchanged'
  BY <1>1 DEF Idle, FaithfulSoFar, UnchangedSoFar, RefusalMeansUnchanged
<1> QED BY <1>4, <1>5, <1>6, <1>7, <1>8, <1>9 DEF IInv

LEMMA BeginIInv ==
    ASSUME LayoutMoves = FALSE, IInv,
           NEW g \in Snapshot \cup {Absent}, BeginRecord(g)
    PROVE  IInv'
<1> USE DEF BeginRecord, output, applying
<1>1. TypeOK'
  BY SnapshotFacts DEF IInv, TypeOK
<1>2. IdleClean' /\ WriteInProgress' /\ OutputNamed'
  BY DEF IInv, IdleClean, WriteInProgress, OutputNamed, Quiet
<1>3. Reconstructed'
  BY DEF IInv, Reconstructed, Holds
<1>4. FaithfulSoFar'
  BY DEF IInv, BetweenSubstreams, FaithfulSoFar
<1>5. SizeTracked'
  BY SnapshotFacts, AbsentFacts DEF IInv, TypeOK, SizeTracked, OutputNamed,
     UnchangedSoFar, BetweenSubstreams, DnodeOf, NoDnode
<1>6. UnchangedSoFar'
  BY DEF IInv, UnchangedSoFar
<1>7. BetweenSubstreams' /\ RefusalMeansUnchanged' /\ ExistsTracked'
  BY DEF IInv, BetweenSubstreams, RefusalMeansUnchanged, ExistsTracked
<1> QED BY <1>1, <1>2, <1>3, <1>4, <1>5, <1>6, <1>7 DEF IInv

LEMMA ObjectIInv ==
    ASSUME LayoutMoves = FALSE, IInv, NEW keep \in BOOLEAN, ObjectRecord(keep)
    PROVE  IInv'
<1> USE DEF ObjectRecord, output, applying, Receiving
<1>1. goal \in Snapshot /\ DnodeOf(goal) \in Dnode
  BY SnapshotFacts DEF IInv, TypeOK
<1>2. /\ file' \in File
      /\ ~target_deleted => file' = file \/ file' = SetLen(file, 0)
  BY SetLenRead, SparseFileAssumption DEF IInv, TypeOK
<1>3. new_size' \in Size
  BY <1>1, SnapshotFacts DEF IInv, TypeOK, StoredSize
<1>4. TypeOK'
  BY <1>1, <1>2, <1>3 DEF IInv, TypeOK, Dnode
<1>5. IdleClean' /\ WriteInProgress' /\ OutputNamed'
  BY DEF IInv, IdleClean, WriteInProgress, OutputNamed, Quiet
<1>6. Reconstructed'
  BY DEF IInv, Reconstructed, Holds
<1>7. FaithfulSoFar'
  <2> SUFFICES ASSUME ~target_deleted, NEW b \in done
               PROVE  ReadByte(file', b) = goal.data[b]
    BY DEF FaithfulSoFar, IInv, OutputNamed
  <2>1. b \in Pos /\ ReadByte(file, b) = goal.data[b]
    BY DEF IInv, TypeOK, FaithfulSoFar
  <2>2. CASE file' = file
    BY <2>1, <2>2
  <2>3. CASE mode = "extract" /\ ~object_exists
    BY <2>1, <2>3, SetLenRead, SparseFileAssumption
       DEF IInv, TypeOK, ExistsTracked, Pos
  <2> QED BY <2>2, <2>3
<1>8. SizeTracked'
  <2> SUFFICES ASSUME mode = "apply", ~target_deleted
               PROVE  SizeTracked'
    BY DEF SizeTracked
  <2>1. goal.at = sidecar.at /\ goal # Absent
    BY DEF IInv, SizeTracked
  <2>2. CASE sidecar.at = "spill"
    BY <2>1, <2>2 DEF IInv, SizeTracked
  <2>3. CASE sidecar.at # "spill"
    BY <2>1, <2>3, <1>1, DnodeSize DEF IInv, SizeTracked, StoredSize
  <2> QED BY <2>2, <2>3
<1>9. UnchangedSoFar' /\ BetweenSubstreams' /\ RefusalMeansUnchanged'
  BY DEF UnchangedSoFar, BetweenSubstreams, RefusalMeansUnchanged
<1>10. ExistsTracked'
  BY DEF ExistsTracked
<1> QED BY <1>4, <1>5, <1>6, <1>7, <1>8, <1>9, <1>10 DEF IInv

LEMMA SpillIInv ==
    ASSUME LayoutMoves = FALSE, IInv, SpillRecord
    PROVE  IInv'
<1> USE DEF SpillRecord, output, applying, replay, Receiving
<1>1. goal \in Snapshot /\ DnodeOf(goal) \in Dnode
  BY SnapshotFacts DEF IInv, TypeOK
<1>2. new_size' \in Size
  BY <1>1, SnapshotFacts DEF IInv, TypeOK, StoredSize
<1>3. TypeOK'
  BY <1>1, <1>2 DEF IInv, TypeOK, Dnode
<1>4. /\ IdleClean' /\ WriteInProgress' /\ OutputNamed' /\ Reconstructed'
      /\ ExistsTracked' /\ FaithfulSoFar'
  BY DEF IInv, TypeOK, Dnode, IdleClean, WriteInProgress, OutputNamed, Quiet,
     Reconstructed, Holds, ExistsTracked, FaithfulSoFar
<1>5. SizeTracked'
  <2> SUFFICES ASSUME mode = "apply", ~target_deleted
               PROVE  SizeTracked'
    BY DEF SizeTracked
  <2>1. goal.at = sidecar.at /\ dnode'.live /\ dnode'.bonus = dnode.bonus
        /\ dnode'.spill = DnodeOf(goal).spill
    BY DEF IInv, SizeTracked, TypeOK, Dnode
  <2>2. CASE sidecar.at = "spill"
    BY <2>1, <2>2, <1>1, DnodeSize DEF IInv, SizeTracked, StoredSize
  <2>3. CASE sidecar.at # "spill"
    BY <2>1, <2>3 DEF IInv, SizeTracked
  <2> QED BY <2>2, <2>3
<1>6. UnchangedSoFar' /\ BetweenSubstreams' /\ RefusalMeansUnchanged'
  BY DEF UnchangedSoFar, BetweenSubstreams, RefusalMeansUnchanged
<1> QED BY <1>3, <1>4, <1>5, <1>6 DEF IInv

LEMMA WriteIInv ==
    ASSUME IInv, NEW from \in Size, NEW to \in Size, WriteRecord(from, to)
    PROVE  IInv'
<1> USE DEF WriteRecord, output, sender, Receiving
<1>1. TypeOK'
  BY DEF IInv, TypeOK
<1>2. IdleClean' /\ OutputNamed' /\ Reconstructed'
  BY DEF IInv, IdleClean, OutputNamed, Reconstructed, Holds
<1>3. WriteInProgress'
  <2>1. pending'.from <= pending'.to /\ mode' # "idle" /\ open' /\ begun'
    BY DEF IInv, WriteInProgress, Size
  <2> QED BY <2>1 DEF WriteInProgress
<1>4. ExistsTracked' /\ FaithfulSoFar' /\ BetweenSubstreams' /\ SizeTracked'
  BY DEF IInv, ExistsTracked, FaithfulSoFar, BetweenSubstreams, SizeTracked
<1>5. UnchangedSoFar' /\ RefusalMeansUnchanged'
  BY DEF IInv, UnchangedSoFar, RefusalMeansUnchanged
<1> QED BY <1>1, <1>2, <1>3, <1>4, <1>5 DEF IInv

LEMMA EmbeddedIInv ==
    ASSUME IInv, NEW from \in Size, NEW to \in Size, NEW end \in Size,
           EmbeddedRecord(from, to, end)
    PROVE  IInv'
<1> USE DEF EmbeddedRecord, output, Receiving
<1>1. /\ end - from \in 0..(MaxBytes - from) /\ end - from # U64Max
      /\ from + (end - from) = end
  BY SparseFileAssumption DEF Size
<1>2. file' \in File
  BY <1>1, ZeroRangeRead DEF IInv, TypeOK, Size
<1>3. done' \subseteq Pos
  BY DEF IInv, TypeOK, Zeroed, Extent
<1>4. TypeOK'
  BY <1>2, <1>3 DEF IInv, TypeOK
<1>5. IdleClean' /\ OutputNamed' /\ Reconstructed'
  BY DEF IInv, IdleClean, OutputNamed, Reconstructed, Holds
<1>6. WriteInProgress'
  <2>1. pending'.from <= pending'.to /\ mode' # "idle" /\ open' /\ begun'
    BY DEF IInv, WriteInProgress, Size
  <2> QED BY <2>1 DEF WriteInProgress
<1>7. FaithfulSoFar'
  BY <1>1, ZeroedFaithful DEF IInv, FaithfulSoFar
<1>8. ExistsTracked' /\ BetweenSubstreams' /\ SizeTracked'
  BY DEF IInv, ExistsTracked, BetweenSubstreams, SizeTracked
<1>9. UnchangedSoFar' /\ RefusalMeansUnchanged'
  BY DEF IInv, UnchangedSoFar, RefusalMeansUnchanged
<1> QED BY <1>4, <1>5, <1>6, <1>7, <1>8, <1>9 DEF IInv

LEMMA ChunkIInv == IInv /\ ExtentChunk => IInv'
<1> SUFFICES ASSUME IInv, ExtentChunk PROVE IInv'
  OBVIOUS
<1> DEFINE next == IF pending.to - pending.from > ChunkSize
                   THEN pending.from + ChunkSize ELSE pending.to
<1> USE DEF ExtentChunk, output, applying
<1>1. /\ pending.from \in Size /\ next \in Size /\ pending.to \in Size
      /\ pending.from <= next /\ next <= pending.to
  BY SparseFileAssumption DEF IInv, TypeOK, WriteInProgress, Size
<1>2. goal.data \in [Pos -> Byte]
  BY SnapshotFacts DEF IInv, TypeOK
<1>3. /\ file' \in File
      /\ \A b \in Pos : ReadByte(file', b) =
                 IF b \in Extent(pending.from, next) THEN goal.data[b]
                                                     ELSE ReadByte(file, b)
  BY <1>1, <1>2, WriteChunkRead DEF IInv, TypeOK, Size
<1>4. done' = done \cup Extent(pending.from, next) /\ done' \subseteq Pos
  BY DEF IInv, TypeOK, Extent
<1>5. pending' \in [from : Size, to : Size] /\ pending'.from <= pending'.to
  BY <1>1 DEF IInv, TypeOK
<1>6. TypeOK'
  BY <1>3, <1>4, <1>5 DEF IInv, TypeOK
<1>7. IdleClean' /\ OutputNamed' /\ Reconstructed' /\ WriteInProgress'
  BY <1>5 DEF IInv, IdleClean, OutputNamed, Reconstructed, Holds, WriteInProgress,
     Quiet
<1>8. FaithfulSoFar'
  BY <1>3, <1>4 DEF IInv, FaithfulSoFar
<1>9. /\ mode # "idle" /\ open /\ dnode.live
      /\ mode = "apply" => saw_target_change
  BY DEF IInv, WriteInProgress
<1>10. ExistsTracked' /\ BetweenSubstreams' /\ SizeTracked'
  BY <1>9 DEF IInv, ExistsTracked, BetweenSubstreams, SizeTracked
<1>11. UnchangedSoFar' /\ RefusalMeansUnchanged'
  BY <1>9 DEF IInv, UnchangedSoFar, RefusalMeansUnchanged
<1> QED BY <1>6, <1>7, <1>8, <1>10, <1>11 DEF IInv

LEMMA FreeIInv ==
    ASSUME IInv, NEW offset \in Size,
           NEW length \in 0..(MaxBytes - offset) \cup {U64Max},
           FreeRecord(offset, length)
    PROVE  IInv'
<1> USE DEF FreeRecord, output, Receiving
<1>1. file' \in File
  BY ZeroRangeRead DEF IInv, TypeOK, Size
<1>2. done' \subseteq Pos
  BY DEF IInv, TypeOK, Zeroed, Extent
<1>3. TypeOK'
  BY <1>1, <1>2 DEF IInv, TypeOK
<1>4. IdleClean' /\ OutputNamed' /\ Reconstructed' /\ WriteInProgress'
  BY DEF IInv, IdleClean, OutputNamed, Reconstructed, Holds, WriteInProgress, Quiet
<1>5. FaithfulSoFar'
  BY ZeroedFaithful DEF IInv, FaithfulSoFar
<1>6. ExistsTracked' /\ BetweenSubstreams' /\ SizeTracked'
  BY DEF IInv, ExistsTracked, BetweenSubstreams, SizeTracked
<1>7. UnchangedSoFar' /\ RefusalMeansUnchanged'
  BY DEF IInv, UnchangedSoFar, RefusalMeansUnchanged
<1> QED BY <1>3, <1>4, <1>5, <1>6, <1>7 DEF IInv

LEMMA FreeObjectsIInv == IInv /\ FreeObjectsRecord => IInv'
<1> SUFFICES ASSUME IInv, FreeObjectsRecord PROVE IInv'
  OBVIOUS
<1> USE DEF FreeObjectsRecord, output, Receiving
<1>1. /\ file' \in File
      /\ mode = "extract" => \A b \in Pos : ReadByte(file', b) = Zero
  BY SetLenRead, SparseFileAssumption DEF IInv, TypeOK, Pos
<1>2. done' = {b \in Pos : goal.data[b] = Zero}
  <2>1. Extent(0, MaxBytes) = Pos
    BY SparseFileAssumption DEF Extent, Pos
  <2>2. done \ Pos = {}
    BY DEF IInv, TypeOK
  <2> QED BY <2>1, <2>2 DEF Zeroed
<1>3. TypeOK'
  BY <1>1, <1>2, AbsentFacts DEF IInv, TypeOK
<1>4. mode \in {"extract", "apply"}
  BY DEF IInv, TypeOK
<1>5. IdleClean' /\ OutputNamed' /\ Reconstructed' /\ WriteInProgress'
  BY DEF IInv, IdleClean, OutputNamed, Reconstructed, Holds, WriteInProgress, Quiet
<1>6. FaithfulSoFar' /\ ExistsTracked'
  BY <1>1, <1>2, <1>4 DEF IInv, FaithfulSoFar, ExistsTracked, NoDnode
<1>7. BetweenSubstreams' /\ SizeTracked' /\ UnchangedSoFar' /\ RefusalMeansUnchanged'
  BY <1>4 DEF IInv, BetweenSubstreams, SizeTracked, UnchangedSoFar,
     RefusalMeansUnchanged
<1> QED BY <1>3, <1>5, <1>6, <1>7 DEF IInv

LEMMA EndIInv == IInv /\ EndRecord => IInv'
<1> SUFFICES ASSUME IInv, EndRecord PROVE IInv'
  OBVIOUS
<1> USE DEF EndRecord, output, applying, sender, Receiving
<1>1. TypeOK'
  BY DEF IInv, TypeOK
<1>2. IdleClean' /\ OutputNamed' /\ Reconstructed' /\ WriteInProgress'
  BY DEF IInv, IdleClean, OutputNamed, Reconstructed, Holds, WriteInProgress, Quiet
<1>3. BetweenSubstreams'
  BY DEF IInv, BetweenSubstreams, FaithfulSoFar
<1>4. FaithfulSoFar' /\ ExistsTracked' /\ SizeTracked' /\ UnchangedSoFar'
  BY DEF IInv, FaithfulSoFar, ExistsTracked, SizeTracked, UnchangedSoFar,
     WriteInProgress
<1>5. RefusalMeansUnchanged'
  <2> SUFFICES ASSUME mode = "apply", ~target_deleted, ~saw_target_change
               PROVE  goal = sidecar.snap
    BY DEF RefusalMeansUnchanged
  <2>1. /\ dnode = DnodeOf(sidecar.snap) /\ dnode = DnodeOf(goal) /\ dnode.live
        /\ \A b \in Pos : goal.data[b] = sidecar.snap.data[b]
        /\ goal = Absent \/ goal.at = sidecar.at
    BY DEF IInv, UnchangedSoFar, SizeTracked
  <2>2. sidecar.snap \in Snapshot /\ sidecar.snap.at = sidecar.at
    BY DEF IInv, OutputNamed
  <2>3. goal # Absent /\ goal \in Snapshot
    BY <2>1, AbsentFacts DEF IInv, TypeOK, NoDnode
  <2>4. goal.at = sidecar.snap.at /\ goal.size = sidecar.snap.size
    <3>1. goal.at = sidecar.snap.at
      BY <2>1, <2>2, <2>3
    <3>2. /\ LogicalSize(DnodeOf(goal)) = goal.size
          /\ LogicalSize(DnodeOf(sidecar.snap)) = sidecar.snap.size
      BY <2>2, <2>3, DnodeSize
    <3> QED BY <3>1, <3>2, <2>1
  <2>5. goal.data = sidecar.snap.data
    BY <2>1, <2>2, <2>3 DEF Snapshot
  <2> QED BY <2>2, <2>3, <2>4, <2>5 DEF Snapshot
<1> QED BY <1>1, <1>2, <1>3, <1>4, <1>5 DEF IInv

\* A run that returns leaves only what the output says.
LEMMA ReturnIInv ==
    ASSUME Return, TypeOK', Reconstructed', OutputNamed'
    PROVE  IInv'
<1> USE DEF Return
<1>1. IdleClean' /\ WriteInProgress'
  BY DEF IdleClean, Idle, WriteInProgress, Quiet, NoWrite
<1>2. /\ ExistsTracked' /\ FaithfulSoFar' /\ BetweenSubstreams' /\ SizeTracked'
      /\ UnchangedSoFar' /\ RefusalMeansUnchanged'
  BY DEF ExistsTracked, FaithfulSoFar, BetweenSubstreams, SizeTracked,
     UnchangedSoFar, RefusalMeansUnchanged
<1> QED BY <1>1, <1>2 DEF IInv

LEMMA ReturnType ==
    ASSUME Return, published' \in File \cup {None},
           sidecar' \in [snap : Snapshot \cup {Absent}, logical_size : Size,
                         at : Where \cup {"none"}]
    PROVE  TypeOK'
<1>1. 0 \in Size
  BY SparseFileAssumption DEF Size
<1>2. NoWrite \in [from : Size, to : Size]
  BY <1>1 DEF NoWrite
<1> QED BY <1>1, <1>2, AbsentFacts DEF Return, TypeOK

\* Cutting a file that reads as snapshot s to the size of s yields s.
LEMMA CutHolds ==
    ASSUME NEW f \in File, NEW s \in Snapshot,
           \A b \in Pos : ReadByte(f, b) = s.data[b]
    PROVE  SetLen(f, s.size) \in File /\ Holds(SetLen(f, s.size), s)
<1>1. s.size \in 0..MaxBytes /\ \A b \in Pos : b >= s.size => s.data[b] = Zero
  BY DEF Snapshot, Size
<1>2. \A b \in Pos : ~(b < s.size) => b >= s.size
  BY <1>1 DEF Pos
<1> QED BY <1>1, <1>2, SetLenRead DEF Holds

LEMMA FinishExtractIInv == IInv /\ FinishExtract => IInv'
<1> SUFFICES ASSUME IInv, FinishExtract PROVE IInv'
  OBVIOUS
<1> USE DEF FinishExtract
<1>1. /\ dnode = DnodeOf(goal) /\ file \in File
      /\ \A b \in Pos : ReadByte(file, b) = goal.data[b]
  BY DEF IInv, TypeOK, BetweenSubstreams, OutputNamed
<1>2. goal \in Snapshot
  BY <1>1, AbsentFacts DEF IInv, TypeOK, NoDnode
<1>3. LogicalSize(dnode) = goal.size /\ goal.size \in Size /\ goal.at \in Where
  BY <1>1, <1>2, DnodeSize DEF Snapshot
<1>4. published' \in File /\ Holds(published', goal)
  BY <1>1, <1>2, <1>3, CutHolds
<1>5. TypeOK'
  BY <1>2, <1>3, <1>4, ReturnType
<1>6. Reconstructed' /\ OutputNamed'
  BY <1>2, <1>3, <1>4 DEF Reconstructed, Holds, OutputNamed, Return
<1> QED BY <1>5, <1>6, ReturnIInv

LEMMA FinishApplyIInv == IInv /\ FinishApply => IInv'
<1> SUFFICES ASSUME IInv, FinishApply PROVE IInv'
  OBVIOUS
<1> USE DEF FinishApply
<1>1. /\ dnode = DnodeOf(goal) /\ file \in File /\ dnode.live
      /\ \A b \in Pos : ReadByte(file, b) = goal.data[b]
  BY DEF IInv, TypeOK, BetweenSubstreams, SizeTracked
<1>2. goal \in Snapshot /\ goal # Absent
  BY <1>1, AbsentFacts DEF IInv, TypeOK, NoDnode
<1>3. goal.at = sidecar.at /\ goal.size \in Size /\ None \notin Size
  BY <1>2, ObjectReplayAssumption DEF IInv, SizeTracked, Snapshot, Size
<1>4. new_size = goal.size
  <2>1. CASE goal.at = "spill"
    BY <2>1, <1>1, <1>2, <1>3, DnodeSize DEF IInv, SizeTracked
  <2>2. CASE goal.at # "spill"
    BY <2>2, <1>1, <1>2, <1>3, DnodeSize DEF IInv, SizeTracked
  <2> QED BY <2>1, <2>2
<1>5. published' \in File /\ Holds(published', goal)
  BY <1>1, <1>2, <1>4, CutHolds
<1>6. /\ sidecar'.snap = goal /\ sidecar'.logical_size = goal.size
      /\ sidecar'.at = goal.at
      /\ sidecar' \in [snap : Snapshot \cup {Absent}, logical_size : Size,
                        at : Where \cup {"none"}]
  BY <1>2, <1>3, <1>4 DEF IInv, TypeOK
<1>7. TypeOK'
  BY <1>5, <1>6, ReturnType
<1>8. Reconstructed' /\ OutputNamed'
  BY <1>2, <1>5, <1>6 DEF Reconstructed, Holds, OutputNamed, Return
<1> QED BY <1>7, <1>8, ReturnIInv

LEMMA FailIInv == IInv /\ Fail => IInv'
<1> SUFFICES ASSUME IInv, Fail PROVE IInv'
  OBVIOUS
<1>1. TypeOK'
  BY ReturnType DEF IInv, TypeOK, Fail, output
<1>2. Reconstructed' /\ OutputNamed'
  BY DEF IInv, Fail, output, Return, Reconstructed, Holds, OutputNamed
<1> QED BY <1>1, <1>2, ReturnIInv DEF Fail

LEMMA NextIInv ==
    ASSUME LayoutMoves = FALSE, IInv, [Next]_vars
    PROVE  IInv'
<1>1. CASE StartExtract BY <1>1, StartExtractIInv
<1>2. CASE StartApply BY <1>2, StartApplyIInv
<1>3. CASE \E g \in Snapshot \cup {Absent} : BeginRecord(g) BY <1>3, BeginIInv
<1>4. CASE \E keep \in BOOLEAN : ObjectRecord(keep) BY <1>4, ObjectIInv
<1>5. CASE SpillRecord BY <1>5, SpillIInv
<1>6. CASE \E from, to \in 0..MaxBytes : WriteRecord(from, to)
  BY <1>6, WriteIInv DEF Size
<1>7. CASE \E from, to, end \in 0..MaxBytes : EmbeddedRecord(from, to, end)
  BY <1>7, EmbeddedIInv DEF Size
<1>8. CASE ExtentChunk BY <1>8, ChunkIInv
<1>9. CASE \E offset \in 0..MaxBytes :
             \E length \in 0..(MaxBytes - offset) \cup {U64Max} :
                FreeRecord(offset, length)
  BY <1>9, FreeIInv DEF Size
<1>10. CASE FreeObjectsRecord BY <1>10, FreeObjectsIInv
<1>11. CASE EndRecord BY <1>11, EndIInv
<1>12. CASE FinishExtract BY <1>12, FinishExtractIInv
<1>13. CASE FinishApply BY <1>13, FinishApplyIInv
<1>14. CASE Fail BY <1>14, FailIInv
<1>15. CASE UNCHANGED vars
  BY <1>15 DEF vars, replay, applying, sender, output, IInv, TypeOK, IdleClean,
     Idle, WriteInProgress, Quiet, OutputNamed, ExistsTracked, Reconstructed,
     Holds, FaithfulSoFar, BetweenSubstreams, SizeTracked, UnchangedSoFar,
     RefusalMeansUnchanged
<1> QED
  BY <1>1, <1>2, <1>3, <1>4, <1>5, <1>6, <1>7, <1>8, <1>9, <1>10, <1>11, <1>12,
     <1>13, <1>14, <1>15 DEF Next

-----------------------------------------------------------------------------
LEMMA Invariance ==
    ASSUME LayoutMoves = FALSE
    PROVE  Spec => []IInv
<1>1. IInv /\ [Next]_vars => IInv'
  BY NextIInv
<1> QED BY InitIInv, <1>1, PTL DEF Spec

\* Whatever chain of full and incremental substreams extraction and apply
\* replayed, the published file is the file of the snapshot its sidecar
\* names (extract_resolved_snapshot, apply_incremental_with_key).
THEOREM ReplayReconstructs ==
    ASSUME LayoutMoves = FALSE
    PROVE  Spec => []Reconstructed
<1>1. IInv => Reconstructed
  BY DEF IInv
<1> QED BY <1>1, Invariance, PTL

\* No record leaves a stale byte in the temporary file.
THEOREM ReplayFaithful ==
    ASSUME LayoutMoves = FALSE
    PROVE  Spec => []FaithfulSoFar
<1>1. IInv => FaithfulSoFar
  BY DEF IInv
<1> QED BY <1>1, Invariance, PTL

\* apply's "no changes" refusal is only ever given for an unchanged file.
THEOREM ReplayRefusesOnlyUnchanged ==
    ASSUME LayoutMoves = FALSE
    PROVE  Spec => []RefusalMeansUnchanged
<1>1. IInv => RefusalMeansUnchanged
  BY DEF IInv
<1> QED BY <1>1, Invariance, PTL

\* The variables keep their types.
THEOREM ReplayTypes ==
    ASSUME LayoutMoves = FALSE
    PROVE  Spec => []TypeOK
<1>1. IInv => TypeOK
  BY DEF IInv
<1> QED BY <1>1, Invariance, PTL
=============================================================================
