---------------------------- MODULE ObjectReplay ----------------------------
(***************************************************************************)
(* How one file is rebuilt from send records, the two ways the program     *)
(* does it:                                                                *)
(*                                                                         *)
(*   extract   replay_object of src/operations.rs replays a chain of       *)
(*             substreams into an empty temporary file, which is cut to    *)
(*             the size the ObjectIndex decoded and published;             *)
(*   apply     apply_incremental_with_key copies the published file and    *)
(*             replays one incremental substream over it.                  *)
(*                                                                         *)
(* The sender is external.  It is as liberal as the format allows: it      *)
(* sends WRITE, WRITE_EMBEDDED, FREE, OBJECT, SPILL and FREEOBJECTS        *)
(* records of the file in any order and may repeat itself, and it ends a   *)
(* substream only when a faithful receiver would hold the snapshot being   *)
(* sent (`done' covers every byte, `dnode' holds the size).  Records of    *)
(* other objects are skipped by both replays and are left out.             *)
(***************************************************************************)
EXTENDS SparseFile

CONSTANTS
    Where,        \* the places a dnode may keep ZPL_SIZE in
    LayoutMoves,  \* may ZPL_SIZE move between two snapshots of a file?
    None          \* absent value

ASSUME ObjectReplayAssumption ==
    /\ Where \subseteq {"bonus", "shifted", "spill"}
    /\ LayoutMoves \in BOOLEAN
    /\ None \notin File
    /\ None \notin 0..MaxBytes

VARIABLES
    mode,               \* "idle", "extract" or "apply"
    open,               \* between the BEGIN and the END of a substream
    begun,              \* a BEGIN was accepted in this run
    file,               \* contents of the temporary file
    pending,            \* the part of an extent write_extent has yet to write
    object_exists,      \* replay_object's flag
    target_deleted,     \* apply's flags ...
    saw_target_change,
    new_size,           \* ... and the size it will cut the file to
    goal,               \* the snapshot of the file the sender is sending
    done,               \* bytes on which a faithful receiver has the goal
    dnode,              \* the dnode a faithful receiver (the index) holds
    published,          \* the output file, None before the first extraction
    sidecar             \* the .zfse.json next to it

replay == <<open, begun, file, pending, object_exists>>
applying == <<target_deleted, saw_target_change, new_size>>
sender == <<goal, done, dnode>>
output == <<published, sidecar>>
vars == <<mode, replay, applying, sender, output>>

-----------------------------------------------------------------------------
(* Snapshots of the file, and where its dnode keeps ZPL_SIZE.              *)

Size == 0..MaxBytes

\* The file is not in the snapshot.
Absent == [size |-> 0, data |-> [b \in Pos |-> Zero], at |-> "none"]

Snapshot ==
    {s \in [size : Size, data : [Pos -> Byte], at : Where] :
        \A b \in Pos : b >= s.size => s.data[b] = Zero}

NoDnode == [bonus |-> None, spill |-> None, live |-> FALSE]
Dnode == [bonus : Size \cup {None}, spill : Size \cup {None}, live : BOOLEAN]

\* The dnode of the file in snapshot s: the size is in one of its buffers.
DnodeOf(s) ==
    [bonus |-> IF s.at \in {"bonus", "shifted"} THEN s.size ELSE None,
     spill |-> IF s.at = "spill" THEN s.size ELSE None,
     live  |-> s # Absent]

\* decode_attrs: a size in the spill block replaces the one in the bonus.
LogicalSize(d) == IF d.spill # None THEN d.spill ELSE d.bonus

NoWrite == [from |-> 0, to |-> 0]
NoSidecar == [snap |-> Absent, logical_size |-> 0, at |-> "none"]

\* A write_extent call is finished.
Quiet == pending.from = pending.to

\* Records of the open substream are being read.
Receiving == mode # "idle" /\ open /\ Quiet

\* What [from, to) reading as zero does to the bytes already as in the goal.
Zeroed(from, to) ==
    (done \ Extent(from, to)) \cup {b \in Extent(from, to) : goal.data[b] = Zero}

\* The size apply finds in a buffer of the goal's dnode at the place the
\* sidecar remembers: some other attribute if ZPL_SIZE is not there.
StoredSize(at) == IF goal.at = at THEN {goal.size} ELSE Size

-----------------------------------------------------------------------------
\* No run is under way: the locals of the two replays do not exist.
Idle ==
    /\ mode = "idle" /\ open = FALSE /\ begun = FALSE
    /\ file = EmptyFile /\ pending = NoWrite /\ object_exists = FALSE
    /\ target_deleted = FALSE /\ saw_target_change = FALSE /\ new_size = 0
    /\ goal = Absent /\ done = {} /\ dnode = NoDnode

\* The run returns: Idle'.
Return ==
    /\ mode' = "idle" /\ open' = FALSE /\ begun' = FALSE
    /\ file' = EmptyFile /\ pending' = NoWrite /\ object_exists' = FALSE
    /\ target_deleted' = FALSE /\ saw_target_change' = FALSE /\ new_size' = 0
    /\ goal' = Absent /\ done' = {} /\ dnode' = NoDnode

Init == Idle /\ published = None /\ sidecar = NoSidecar

\* extract_resolved_snapshot up to the call of replay_object.
StartExtract ==
    /\ mode = "idle"
    /\ mode' = "extract"
    /\ UNCHANGED <<replay, applying, sender, output>>

\* apply_incremental_with_key up to its record loop; the target matches its
\* sidecar (SidecarUpdate models the case where it does not).
StartApply ==
    /\ mode = "idle"
    /\ published # None
    /\ mode' = "apply"
    /\ file' = Copy(published)
    /\ new_size' = sidecar.logical_size
    /\ goal' = sidecar.snap /\ dnode' = DnodeOf(sidecar.snap)
    /\ UNCHANGED <<open, begun, pending, object_exists, target_deleted,
                   saw_target_change, done, output>>

\* BEGIN of the substream from the last snapshot to g.  apply takes one.
BeginRecord(g) ==
    /\ mode # "idle" /\ ~open
    /\ mode = "apply" => ~begun
    /\ g.at # goal.at => LayoutMoves \/ g = Absent \/ goal = Absent
    /\ open' = TRUE /\ begun' = TRUE
    /\ goal' = g
    /\ done' = {b \in Pos : g.data[b] = goal.data[b]}
    /\ UNCHANGED <<mode, file, pending, object_exists, applying, dnode, output>>

\* OBJECT: the bonus is replaced, the spill block kept if the flag says so.
ObjectRecord(keepSpill) ==
    /\ Receiving /\ goal # Absent
    /\ dnode' = [bonus |-> DnodeOf(goal).bonus,
                 spill |-> IF keepSpill THEN dnode.spill ELSE None,
                 live  |-> TRUE]
    /\ \/ /\ mode = "extract"
          /\ file' = IF object_exists THEN file ELSE SetLen(file, 0)
          /\ object_exists' = TRUE
          /\ UNCHANGED applying
       \/ /\ mode = "apply"
          /\ saw_target_change' = TRUE
          /\ IF sidecar.at = "spill" THEN new_size' = new_size
             ELSE new_size' \in StoredSize(sidecar.at)
          /\ UNCHANGED <<file, object_exists, target_deleted>>
    /\ UNCHANGED <<mode, open, begun, pending, goal, done, output>>

\* SPILL: the index keeps the block; apply looks for the size in it if the
\* sidecar says it is there.
SpillRecord ==
    /\ Receiving /\ dnode.live /\ goal # Absent
    /\ dnode' = [dnode EXCEPT !.spill = DnodeOf(goal).spill]
    /\ IF mode = "apply"
       THEN /\ saw_target_change' = TRUE
            /\ IF sidecar.at = "spill"
               THEN new_size' \in StoredSize("spill")
               ELSE new_size' = new_size
            /\ UNCHANGED target_deleted
       ELSE UNCHANGED applying
    /\ UNCHANGED <<mode, replay, goal, done, output>>

\* WRITE: the payload is the goal's bytes of [from, to).
WriteRecord(from, to) ==
    /\ Receiving /\ dnode.live /\ from < to
    /\ pending' = [from |-> from, to |-> to]
    /\ saw_target_change' = (saw_target_change \/ mode = "apply")
    /\ UNCHANGED <<mode, open, begun, file, object_exists, target_deleted,
                   new_size, sender, output>>

\* WRITE_EMBEDDED: replace_file_extent zeroes the block [from, end), then
\* writes the payload [from, to); the rest of the block is zero in the goal.
EmbeddedRecord(from, to, end) ==
    /\ Receiving /\ dnode.live /\ from < to /\ to <= end
    /\ \A b \in Extent(to, end) : goal.data[b] = Zero
    /\ file' = ZeroRange(file, from, end - from)
    /\ done' = Zeroed(from, end)
    /\ pending' = [from |-> from, to |-> to]
    /\ saw_target_change' = (saw_target_change \/ mode = "apply")
    /\ UNCHANGED <<mode, open, begun, object_exists, target_deleted, new_size,
                   goal, dnode, output>>

\* Mutant: the last chunk is not cut to the payload.
ExtentChunkUncut ==
    /\ mode # "idle" /\ ~Quiet
    /\ file' = WriteChunk(file, pending.from, pending.from + ChunkSize, goal.data)
    /\ done' = done \cup Extent(pending.from, pending.from + ChunkSize)
    /\ pending' = [pending EXCEPT !.from = @ + ChunkSize]
    /\ UNCHANGED <<mode, open, begun, object_exists, applying, goal, dnode,
                   output>>

\* One chunk of write_extent.
ExtentChunk ==
    LET next == IF pending.to - pending.from > ChunkSize
                THEN pending.from + ChunkSize ELSE pending.to
    IN  /\ mode # "idle" /\ ~Quiet
        /\ file' = WriteChunk(file, pending.from, next, goal.data)
        /\ done' = done \cup Extent(pending.from, next)
        /\ pending' = [pending EXCEPT !.from = next]
        /\ UNCHANGED <<mode, open, begun, object_exists, applying, goal, dnode,
                       output>>

\* Mutant: a FREE does not count as a change.
FreeRecordUnseen(offset, length) ==
    /\ Receiving /\ dnode.live
    /\ file' = ZeroRange(file, offset, length)
    /\ done' = Zeroed(offset,
                      IF length = U64Max THEN MaxBytes ELSE offset + length)
    /\ UNCHANGED <<mode, open, begun, pending, object_exists, applying, goal,
                   dnode, output>>

\* FREE of length bytes, U64Max for everything from the offset on.
FreeRecord(offset, length) ==
    /\ Receiving /\ dnode.live
    /\ file' = ZeroRange(file, offset, length)
    /\ done' = Zeroed(offset,
                      IF length = U64Max THEN MaxBytes ELSE offset + length)
    /\ saw_target_change' = (saw_target_change \/ mode = "apply")
    /\ UNCHANGED <<mode, open, begun, pending, object_exists, target_deleted,
                   new_size, goal, dnode, output>>

\* FREEOBJECTS over the file's object number.
FreeObjectsRecord ==
    /\ Receiving
    /\ done' = Zeroed(0, MaxBytes)
    /\ dnode' = NoDnode
    /\ IF mode = "extract"
       THEN /\ file' = SetLen(file, 0)
            /\ object_exists' = FALSE
            /\ UNCHANGED target_deleted
       ELSE /\ target_deleted' = TRUE
            /\ UNCHANGED <<file, object_exists>>
    /\ UNCHANGED <<mode, open, begun, pending, saw_target_change, new_size,
                   goal, output>>

\* END: the sender has sent every byte and the dnode.
EndRecord ==
    /\ Receiving
    /\ done = Pos
    /\ dnode = DnodeOf(goal)
    /\ open' = FALSE
    /\ UNCHANGED <<mode, begun, file, pending, object_exists, applying, sender,
                   output>>

\* The rest of extract_resolved_snapshot; resolve_path found the file.
FinishExtract ==
    /\ mode = "extract" /\ begun /\ ~open
    /\ dnode.live
    /\ Return
    /\ published' = SetLen(file, LogicalSize(dnode))
    /\ sidecar' = [snap |-> goal, logical_size |-> LogicalSize(dnode),
                   at |-> goal.at]

\* Mutant: a freed target is not refused.
FinishApplyDeleted ==
    /\ mode = "apply" /\ begun /\ ~open
    /\ saw_target_change
    /\ Return
    /\ published' = SetLen(file, new_size)
    /\ sidecar' = [sidecar EXCEPT !.snap = goal, !.logical_size = new_size]

\* The rest of apply_incremental_with_key.
FinishApply ==
    /\ mode = "apply" /\ begun /\ ~open
    /\ ~target_deleted
    /\ saw_target_change
    /\ Return
    /\ published' = SetLen(file, new_size)
    /\ sidecar' = [sidecar EXCEPT !.snap = goal, !.logical_size = new_size]

\* Every bail! and every I/O error: the temporary file is dropped.
Fail ==
    /\ mode # "idle"
    /\ Return
    /\ UNCHANGED output

Next ==
    \/ StartExtract
    \/ StartApply
    \/ \E g \in Snapshot \cup {Absent} : BeginRecord(g)
    \/ \E keep \in BOOLEAN : ObjectRecord(keep)
    \/ SpillRecord
    \/ \E from, to \in 0..MaxBytes : WriteRecord(from, to)
    \/ \E from, to, end \in 0..MaxBytes : EmbeddedRecord(from, to, end)
    \/ ExtentChunk
    \/ \E offset \in 0..MaxBytes :
          \E length \in 0..(MaxBytes - offset) \cup {U64Max} :
             FreeRecord(offset, length)
    \/ FreeObjectsRecord
    \/ EndRecord
    \/ FinishExtract
    \/ FinishApply
    \/ Fail

Spec == Init /\ [][Next]_vars

-----------------------------------------------------------------------------
\* The locals of replay_object and apply_incremental_with_key, and an output
\* that write_extent has never extended past the largest file.
TypeOK ==
    /\ mode \in {"idle", "extract", "apply"}
    /\ open \in BOOLEAN /\ begun \in BOOLEAN /\ object_exists \in BOOLEAN
    /\ file \in File
    /\ pending \in [from : Size, to : Size]
    /\ target_deleted \in BOOLEAN /\ saw_target_change \in BOOLEAN
    /\ new_size \in Size
    /\ goal \in Snapshot \cup {Absent}
    /\ done \in SUBSET Pos
    /\ dnode \in Dnode
    /\ published \in File \cup {None}
    /\ sidecar \in [snap : Snapshot \cup {Absent}, logical_size : Size,
                    at : Where \cup {"none"}]

\* f reads, byte for byte, as the file in snapshot s.
Holds(f, s) == f.len = s.size /\ \A b \in Pos : ReadByte(f, b) = s.data[b]

\* What extraction and apply promise: the published file is the file of the
\* snapshot its sidecar names, whatever chain of full and incremental
\* substreams led there.
Reconstructed ==
    published # None =>
        /\ Holds(published, sidecar.snap)
        /\ sidecar.logical_size = sidecar.snap.size

\* While records arrive, the temporary file has the goal's byte wherever the
\* sender has brought a receiver to the goal: no record of the replay loops
\* (a zero chunk, a FREE past the end, an embedded block longer than its
\* payload) leaves a byte of the base snapshot or of an earlier record behind.
FaithfulSoFar ==
    mode # "idle" /\ open /\ ~target_deleted =>
        \A b \in done : ReadByte(file, b) = goal.data[b]

\* apply refuses "no changes" only if the file is the same in both snapshots.
RefusalMeansUnchanged ==
    mode = "apply" /\ begun /\ ~open /\ ~target_deleted /\ ~saw_target_change
        => goal = sidecar.snap

-----------------------------------------------------------------------------
(* The inductive invariant behind Reconstructed when ZPL_SIZE stays where  *)
(* it was.                                                                 *)

IdleClean == mode = "idle" => Idle

WriteInProgress ==
    /\ pending.from <= pending.to
    /\ ~Quiet => mode # "idle" /\ open /\ dnode.live
    /\ ~Quiet /\ mode = "apply" => saw_target_change
    /\ open => mode # "idle" /\ begun

OutputNamed ==
    /\ mode = "apply" => published # None
    /\ mode = "extract" => ~target_deleted
    /\ published # None =>
          sidecar.snap \in Snapshot /\ sidecar.at = sidecar.snap.at

\* replay_object's flag follows the object, and without the object the file
\* is empty, so that the set_len(0) of a new OBJECT loses nothing.
ExistsTracked ==
    mode = "extract" =>
        /\ object_exists = dnode.live
        /\ ~object_exists => \A b \in Pos : ReadByte(file, b) = Zero

\* Between substreams the file and the dnode are the last goal's.
BetweenSubstreams ==
    mode # "idle" /\ ~open /\ ~target_deleted =>
        /\ \A b \in Pos : ReadByte(file, b) = goal.data[b]
        /\ dnode = DnodeOf(goal)

\* apply's new_size is the size a faithful receiver's dnode holds, where the
\* sidecar looks for it.
SizeTracked ==
    mode = "apply" /\ ~target_deleted =>
        /\ dnode.live
        /\ goal = Absent \/ goal.at = sidecar.at
        /\ IF sidecar.at = "spill" THEN dnode.spill \in {None, new_size}
                                  ELSE dnode.bonus = new_size

\* Until apply has seen a change, the receiver is still at the base.
UnchangedSoFar ==
    mode = "apply" /\ ~target_deleted /\ ~saw_target_change =>
        /\ dnode = DnodeOf(sidecar.snap)
        /\ ~begun => goal = sidecar.snap
        /\ open => done = {b \in Pos : goal.data[b] = sidecar.snap.data[b]}

IInv ==
    /\ TypeOK
    /\ IdleClean
    /\ WriteInProgress
    /\ OutputNamed
    /\ ExistsTracked
    /\ Reconstructed
    /\ FaithfulSoFar
    /\ BetweenSubstreams
    /\ SizeTracked
    /\ UnchangedSoFar
    /\ RefusalMeansUnchanged
=============================================================================
