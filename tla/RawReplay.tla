------------------------------ MODULE RawReplay ------------------------------
(***************************************************************************)
(* How a file of an encrypted dataset is rebuilt from raw send records.    *)
(* A raw stream sends dnodes in blocks of 32: OBJECT_RANGE names a block   *)
(* and carries the MAC of what it must hold, the records that follow bring *)
(* the block up to date, and the next OBJECT_RANGE or END closes it, when  *)
(* the MAC is checked over every dnode of the block: its header, its bonus *)
(* and the pointers (with their own MACs) of all its data blocks.          *)
(*                                                                         *)
(*   extract   build_raw_full (index) and replay_raw_object (file), here   *)
(*             in one pass, over a chain of substreams;                    *)
(*   apply     apply_raw_incremental, from the dnodes in the sidecar.      *)
(*                                                                         *)
(* The model has one dnode block, that of the target file, and a           *)
(* neighbour in it.  The unit of length is a data block.  The MAC is ideal *)
(* (a value authenticates only itself) and stands for the block it was     *)
(* made from.  The sender, and a medium that loses records (not BEGIN and  *)
(* END, which the reader's framing asks for), are external.                *)
(***************************************************************************)
EXTENDS SparseFile

CONSTANTS
    Target, Neighbour,  \* the two object numbers of the dnode block
    Levels,             \* heights of the tree of block pointers
    NeighbourDnodes,    \* the dnodes the neighbour may have
    None,               \* an absent value
    Hole,               \* the pointer of a block that was never written
    BlockFreed,         \* may an update free every dnode of the block?
    MaxLost             \* records that the medium loses

Obj == {Target, Neighbour}
Blk == Pos
Size == 0..MaxBytes

\* A dnode: what OBJECT carries, the plaintext size in the bonus or in the
\* spill block, and the block pointers, each one the MAC of its contents.
Dnode ==
    [levels : Levels, max : Blk, bonus : Size, flag : BOOLEAN,
     spill : Size \cup {None}, blocks : [Blk -> Byte \cup {Hole}]]

\* A dnode as it is on disk: the size in one place, no block past the last,
\* none past the size, and one level for one block.
WellFormed(d) ==
    LET size == IF d.flag THEN d.spill ELSE d.bonus
    IN  /\ IF d.flag THEN d.spill # None /\ d.bonus = 0 ELSE d.spill = None
        /\ d.max = 0 \/ (d.max < size /\ d.levels > 1)
        /\ \A b \in Blk : b > d.max \/ b >= size => d.blocks[b] = Hole

Range == {g \in [Obj -> Dnode \cup {None}] :
            /\ g[Target] # None => WellFormed(g[Target])
            /\ g[Neighbour] \in NeighbourDnodes \cup {None}}

NoDnodes == [o \in Obj |-> None]

ASSUME RawReplayAssumption ==
    /\ Target # Neighbour
    /\ Levels \subseteq Nat /\ MaxLost \in Nat
    /\ BlockFreed \in BOOLEAN
    /\ None \notin Dnode /\ None \notin Size /\ None \notin File
    /\ Hole \notin Byte
    /\ \A d \in NeighbourDnodes : d \in Dnode /\ WellFormed(d)

VARIABLES
    mode,            \* "idle", "extract" or "apply"
    open, begun,     \* inside a substream; a BEGIN was accepted
    current_range,   \* "none", "ours", or "other" (extract only)
    raw_dnodes,      \* what the program knows of the dnode block
    target_deleted,  \* apply's flag
    target_spill,    \* the size in the decrypted spill block of the target
    new_size,        \* the size apply will cut the file to
    object_exists,   \* replay_raw_object's flag
    file,            \* contents of the temporary file
    goal,            \* the dnode block of the snapshot being sent
    ideal,           \* the dnode block of an OpenZFS receiver
    due,             \* blocks of the target that changed and are not sent yet
    ranged,          \* is the sender in the range of the block?
    grown,           \* objects whose tree grew in this substream and kept blocks
    lost,            \* how many records the medium has lost
    unranged,        \* was an OBJECT_RANGE of the block one of them?
    published,       \* the output file, None before the first extraction
    sidecar          \* the .zfse.json next to it

program == <<open, begun, current_range, raw_dnodes, target_deleted,
             target_spill, new_size, object_exists, file>>
medium == <<lost, unranged>>
sender == <<goal, ideal, due, ranged, grown, medium>>
output == <<published, sidecar>>
vars == <<mode, program, sender, output>>

-----------------------------------------------------------------------------
(* Dnodes under the records of the stream.                                 *)

Header(d) == [levels |-> d.levels, max |-> d.max, bonus |-> d.bonus,
              flag |-> d.flag]

\* The place of ZPL_SIZE; an extraction stores it in the sidecar.
At(d) == IF d.flag THEN "spill" ELSE "bonus"

LogicalSize(d) == IF d.flag THEN d.spill ELSE d.bonus

\* OBJECT: the header of d over the dnode `previous'.  Blocks and spill
\* block survive if the layouts are compatible.
Reshaped(previous, d, compatible) ==
    [levels |-> d.levels, max |-> d.max, bonus |-> d.bonus, flag |-> d.flag,
     spill  |-> IF d.flag /\ compatible THEN previous.spill ELSE None,
     blocks |-> [b \in Blk |-> IF compatible /\ b <= d.max
                               THEN previous.blocks[b] ELSE Hole]]

\* Mutant: any dnode with the same number is carried forward.
LayoutCompatibleAny(previous, d) == previous # None

\* raw_layout_compatible, raw_apply_layout_compatible
LayoutCompatible(previous, d) ==
    previous # None /\ previous.levels = d.levels

\* receive_object of OpenZFS: a tree may grow; to shrink it, the object is
\* freed and made again.  The sender always sends the spill block again.
Received(previous, d) ==
    [Reshaped(previous, d, previous # None /\ previous.levels <= d.levels)
        EXCEPT !.spill = None]

\* The data block b of a dnode, as bytes.
Block(d, b) == IF d.blocks[b] = Hole THEN Zero ELSE d.blocks[b]

\* sparse::write_extent of a decoded block.
WriteBlock(f, b, v) == WriteChunk(f, b, b + 1, [p \in Pos |-> v])

\* free_raw_blocks, free_raw_apply_blocks: the pointers in [from, to).
FreeBlocks(d, from, to) ==
    [d EXCEPT !.blocks = [b \in Blk |-> IF b \in Extent(from, to)
                                        THEN Hole ELSE d.blocks[b]]]

\* What the MAC of the block covers of a dnode: the spill pointer only if
\* the flag says that there is one.
Covered(d) == IF d = None THEN None
              ELSE [d EXCEPT !.spill = IF d.flag THEN @ ELSE None]

\* Mutant: the pointers are left out of the MAC.
AuthenticHeaders(dnodes) ==
    \A o \in Obj : /\ dnodes[o] = None <=> goal[o] = None
                   /\ dnodes[o] # None => /\ Header(dnodes[o]) = Header(goal[o])
                                          /\ dnodes[o].spill = goal[o].spill

\* One dnode under the MAC in the OBJECT_RANGE, which is the goal's.
Matches(dnodes, o) ==
    /\ dnodes[o] # None /\ dnodes[o].flag => dnodes[o].spill # None
    /\ Covered(dnodes[o]) = Covered(goal[o])

\* decrypt_dnode_bonuses: the MAC is over all of the block.
Authentic(dnodes) == \A o \in Obj : Matches(dnodes, o)

-----------------------------------------------------------------------------
NoSidecar == [snap |-> NoDnodes, logical_size |-> 0, at |-> "none",
              raw_state |-> NoDnodes, target_spill |-> None]

Init ==
    /\ mode = "idle" /\ open = FALSE /\ begun = FALSE
    /\ current_range = "none" /\ raw_dnodes = NoDnodes
    /\ target_deleted = FALSE /\ target_spill = None /\ new_size = 0
    /\ object_exists = FALSE /\ file = EmptyFile
    /\ goal = NoDnodes /\ ideal = NoDnodes /\ due = {} /\ ranged = FALSE
    /\ grown = {} /\ lost = 0 /\ unranged = FALSE
    /\ published = None /\ sidecar = NoSidecar

\* A run returns; its locals are gone.
Return ==
    /\ mode' = "idle" /\ open' = FALSE /\ begun' = FALSE
    /\ current_range' = "none" /\ raw_dnodes' = NoDnodes
    /\ target_deleted' = FALSE /\ target_spill' = None /\ new_size' = 0
    /\ object_exists' = FALSE /\ file' = EmptyFile
    /\ goal' = NoDnodes /\ ideal' = NoDnodes /\ due' = {}
    /\ ranged' = FALSE /\ grown' = {}
    /\ UNCHANGED medium

\* extract_resolved_snapshot, to an output that is not there yet.
StartExtract ==
    /\ mode = "idle" /\ published = None
    /\ mode' = "extract"
    /\ UNCHANGED <<program, sender, output>>

\* apply_raw_incremental up to its record loop; the target matches its
\* sidecar, which has raw state of the target.
StartApply ==
    /\ mode = "idle" /\ published # None
    /\ sidecar.raw_state[Target] # None
    /\ mode' = "apply"
    /\ raw_dnodes' = sidecar.raw_state
    /\ target_spill' = sidecar.target_spill
    /\ new_size' = sidecar.logical_size
    /\ file' = Copy(published)
    /\ goal' = sidecar.snap /\ ideal' = sidecar.snap
    /\ UNCHANGED <<open, begun, current_range, target_deleted, object_exists,
                   due, ranged, grown, medium, output>>

\* BEGIN of the substream from the last snapshot to g, of the same dataset
\* and key.  ZPL_SIZE stays where it was, or apply could not find it
\* (ObjectReplay has the case where it moves).
BeginRecord(g) ==
    /\ mode # "idle" /\ ~open
    /\ mode = "apply" => ~begun
    /\ mode = "apply" /\ g[Target] # None => At(g[Target]) = sidecar.at
    /\ mode = "apply" /\ g = NoDnodes => BlockFreed
    /\ open' = TRUE /\ begun' = TRUE
    /\ goal' = g
    /\ due' = {b \in Blk : /\ goal[Target] # None /\ g[Target] # None
                           /\ Block(goal[Target], b) # Block(g[Target], b)}
    /\ grown' = {}
    /\ UNCHANGED <<mode, current_range, raw_dnodes, target_deleted,
                   target_spill, new_size, object_exists, file, ideal, ranged,
                   medium, output>>

-----------------------------------------------------------------------------
(* Closing a range.                                                        *)

\* finish_raw_range_state, finish_raw_apply_range: nothing to do, or the
\* block is authentic and apply takes the size from it.
FinishRange ==
    /\ current_range = "ours" =>
          /\ Authentic(raw_dnodes)
          /\ mode = "apply" => raw_dnodes[Target] # None
          /\ mode = "apply" /\ sidecar.at = "spill" => target_spill # None
    /\ new_size' = IF mode = "apply" /\ current_range = "ours"
                   THEN IF sidecar.at = "bonus" THEN raw_dnodes[Target].bonus
                        ELSE target_spill
                   ELSE new_size

\* The sender has sent what there is to send of the block.
Complete == ideal = goal /\ due = {}

\* A record arrives, or the medium loses it.
Delivered(arrives) ==
    /\ ~arrives => lost < MaxLost
    /\ lost' = IF arrives THEN lost ELSE lost + 1

\* OBJECT_RANGE of the target's dnode block; it is sent once, if a dnode of
\* it changed and one is left.
ObjectRange(arrives) ==
    /\ mode # "idle" /\ open
    /\ ~ranged /\ ~Complete /\ goal # NoDnodes
    /\ Delivered(arrives)
    /\ unranged' = (unranged \/ ~arrives)
    /\ ranged' = TRUE
    /\ IF arrives THEN FinishRange /\ current_range' = "ours"
                  ELSE UNCHANGED <<new_size, current_range>>
    /\ UNCHANGED <<mode, open, begun, raw_dnodes, target_deleted, target_spill,
                   object_exists, file, goal, ideal, due, grown, output>>

\* OBJECT_RANGE of another dnode block: apply does not follow it.  If it is
\* lost, ours stays open for the records of the other, which are not in it.
OtherRange(arrives) ==
    /\ mode # "idle" /\ open
    /\ ranged => Complete
    /\ Delivered(arrives)
    /\ ranged' = FALSE
    /\ IF arrives
       THEN /\ FinishRange
            /\ current_range' = IF mode = "extract" THEN "other" ELSE "none"
       ELSE UNCHANGED <<new_size, current_range>>
    /\ UNCHANGED <<mode, open, begun, raw_dnodes, target_deleted, target_spill,
                   object_exists, file, goal, ideal, due, grown, unranged, output>>

EndRecord ==
    /\ mode # "idle" /\ open /\ Complete
    /\ FinishRange
    /\ current_range' = "none" /\ open' = FALSE /\ ranged' = FALSE
    /\ UNCHANGED <<mode, begun, raw_dnodes, target_deleted, target_spill,
                   object_exists, file, goal, ideal, due, grown, medium, output>>

-----------------------------------------------------------------------------
(* The records of the range that the sender is in.  A record that does not *)
(* arrive changes the ideal receiver and nothing else.                     *)

InRange == mode # "idle" /\ open /\ ranged

\* An apply passes over every record while it has no range.  An extraction
\* asks for the range of an OBJECT only.
Heeded(arrives) == arrives /\ (mode = "apply" => current_range = "ours")

\* The dnode o becomes d in an OpenZFS receiver, and blocks of it are settled.
Ideal(o, d, blocks) ==
    /\ ideal' = [ideal EXCEPT ![o] = d]
    /\ due' = IF o = Target THEN due \ blocks ELSE due
    /\ UNCHANGED ranged

Ignored == UNCHANGED <<raw_dnodes, target_deleted, target_spill,
                       object_exists, file>>

\* OBJECT makes the tree of o taller, over blocks that stay.
Grows(o) ==
    /\ ideal[o] # None /\ ideal[o].levels < goal[o].levels
    /\ \E b \in Blk : b <= goal[o].max /\ ideal[o].blocks[b] # Hole

ObjectRecord(o, arrives) ==
    LET previous == raw_dnodes[o]
        compatible == LayoutCompatible(previous, goal[o])
    IN  /\ InRange /\ goal[o] # None
        /\ Delivered(arrives)
        /\ Ideal(o, Received(ideal[o], goal[o]), {})
        /\ grown' = IF Grows(o) THEN grown \cup {o} ELSE grown
        /\ IF Heeded(arrives)
           THEN /\ current_range = "ours"
                /\ raw_dnodes' = [raw_dnodes EXCEPT
                      ![o] = Reshaped(previous, goal[o], compatible)]
                /\ target_deleted' = (target_deleted \/
                      (mode = "apply" /\ o = Target /\ previous = None))
                /\ target_spill' =
                      IF o = Target /\ ~goal[o].flag THEN None
                      ELSE target_spill
                /\ file' = IF mode = "extract" /\ o = Target /\ ~object_exists
                           THEN SetLen(file, 0) ELSE file
                /\ object_exists' = (object_exists \/
                      (mode = "extract" /\ o = Target))
           ELSE Ignored
        /\ UNCHANGED <<mode, open, begun, current_range, new_size, goal, unranged,
                       output>>

\* The header of o has been sent.
Announced(o) ==
    ideal[o] # None /\ goal[o] # None /\ Header(ideal[o]) = Header(goal[o])

\* WRITE of block b: the pointer is replaced or added; the target's block is
\* authenticated, decrypted and written.  Without a dnode the run fails.
WriteRecord(o, b, arrives) ==
    /\ InRange /\ Announced(o) /\ goal[o].blocks[b] # Hole
    /\ Delivered(arrives)
    /\ Ideal(o, [ideal[o] EXCEPT !.blocks[b] = goal[o].blocks[b]], {b})
    /\ IF Heeded(arrives)
       THEN /\ raw_dnodes[o] # None
            /\ raw_dnodes' = [raw_dnodes EXCEPT
                  ![o].blocks[b] = goal[o].blocks[b]]
            /\ file' = IF o = Target
                       THEN WriteBlock(file, b, goal[o].blocks[b]) ELSE file
            /\ UNCHANGED <<target_deleted, target_spill, object_exists>>
       ELSE Ignored
    /\ UNCHANGED <<mode, open, begun, current_range, new_size, goal, grown, unranged,
                   output>>

\* FREE of blocks that are holes, or past the end, in the snapshot.
FreeRecord(o, from, length, arrives) ==
    LET to == IF length = U64Max THEN MaxBytes ELSE from + length
    IN  /\ InRange /\ Announced(o)
        /\ \A b \in Extent(from, to) : goal[o].blocks[b] = Hole
        /\ Delivered(arrives)
        /\ Ideal(o, FreeBlocks(ideal[o], from, to), Extent(from, to))
        /\ IF Heeded(arrives)
           THEN /\ raw_dnodes' =
                      IF raw_dnodes[o] = None THEN raw_dnodes
                      ELSE [raw_dnodes EXCEPT ![o] = FreeBlocks(@, from, to)]
                /\ file' = IF o = Target THEN ZeroRange(file, from, length)
                           ELSE file
                /\ UNCHANGED <<target_deleted, target_spill, object_exists>>
           ELSE Ignored
        /\ UNCHANGED <<mode, open, begun, current_range, new_size, goal, grown, unranged,
                   output>>

\* SPILL: the pointer and, for the target, the decrypted size.
SpillRecord(o, arrives) ==
    /\ InRange /\ Announced(o) /\ goal[o].flag
    /\ Delivered(arrives)
    /\ Ideal(o, [ideal[o] EXCEPT !.spill = goal[o].spill], {})
    /\ IF Heeded(arrives)
       THEN /\ raw_dnodes[o] # None
            /\ raw_dnodes' = [raw_dnodes EXCEPT ![o].spill = goal[o].spill]
            /\ target_spill' = IF o = Target THEN goal[o].spill ELSE target_spill
            /\ UNCHANGED <<target_deleted, object_exists, file>>
       ELSE Ignored
    /\ UNCHANGED <<mode, open, begun, current_range, new_size, goal, grown, unranged,
                   output>>

\* What FREEOBJECTS over the objects of S does to a program that heeds it.
Freed(S) ==
    /\ raw_dnodes' = [o \in Obj |-> IF o \in S THEN None ELSE raw_dnodes[o]]
    /\ IF Target \notin S
       THEN UNCHANGED <<target_deleted, target_spill, object_exists, file>>
       ELSE IF mode = "apply"
       THEN /\ target_deleted' = TRUE
            /\ UNCHANGED <<target_spill, object_exists, file>>
       ELSE /\ file' = SetLen(file, 0) /\ object_exists' = FALSE
            /\ target_spill' = None
            /\ UNCHANGED target_deleted

\* FREEOBJECTS in the range, for an object that is gone or will be recreated.
FreeObjectsRecord(o, arrives) ==
    /\ InRange
    /\ Delivered(arrives)
    /\ Ideal(o, None, Blk)
    /\ grown' = grown \ {o}
    /\ IF Heeded(arrives) THEN Freed({o}) ELSE Ignored
    /\ UNCHANGED <<mode, open, begun, current_range, new_size, goal, unranged, output>>

\* Every dnode of the block is free: the block is a hole and is sent as one
\* FREEOBJECTS with no OBJECT_RANGE.  apply heeds it only in its range.
FreeDnodeBlock(arrives) ==
    /\ mode # "idle" /\ open
    /\ goal = NoDnodes /\ ~Complete
    /\ Delivered(arrives)
    /\ ideal' = NoDnodes
    /\ IF Heeded(arrives) THEN Freed(Obj) ELSE Ignored
    /\ UNCHANGED <<mode, open, begun, current_range, new_size, goal, due, ranged,
                   grown, unranged, output>>

-----------------------------------------------------------------------------
\* The rest of extract_resolved_snapshot: the path resolves to the target.
FinishExtract ==
    /\ mode = "extract" /\ begun /\ ~open
    /\ goal[Target] # None
    /\ raw_dnodes[Target] # None /\ object_exists
    /\ Return
    /\ published' = SetLen(file, LogicalSize(raw_dnodes[Target]))
    /\ sidecar' = [snap |-> goal, at |-> At(raw_dnodes[Target]),
                   logical_size |-> LogicalSize(raw_dnodes[Target]),
                   raw_state |-> raw_dnodes, target_spill |-> target_spill]

\* Mutant: a target that was freed and recreated is not refused.
FinishApplyDeleted ==
    /\ mode = "apply" /\ begun /\ ~open
    /\ raw_dnodes[Target] # None
    /\ Return
    /\ published' = SetLen(file, new_size)
    /\ sidecar' = [sidecar EXCEPT !.snap = goal, !.logical_size = new_size,
                      !.raw_state = raw_dnodes, !.target_spill = target_spill]

\* The rest of apply_raw_incremental.
FinishApply ==
    /\ mode = "apply" /\ begun /\ ~open
    /\ ~target_deleted /\ raw_dnodes[Target] # None
    /\ Return
    /\ published' = SetLen(file, new_size)
    /\ sidecar' = [sidecar EXCEPT !.snap = goal, !.logical_size = new_size,
                      !.raw_state = raw_dnodes, !.target_spill = target_spill]

\* Every bail! and I/O error, a MAC that does not fit included.
Fail ==
    /\ mode # "idle"
    /\ Return
    /\ UNCHANGED output

Next ==
    \/ StartExtract
    \/ StartApply
    \/ \E g \in Range : BeginRecord(g)
    \/ EndRecord
    \/ \E arrives \in BOOLEAN :
          \/ ObjectRange(arrives)
          \/ OtherRange(arrives)
          \/ FreeDnodeBlock(arrives)
    \/ \E o \in Obj, arrives \in BOOLEAN :
          \/ ObjectRecord(o, arrives)
          \/ \E b \in Blk : WriteRecord(o, b, arrives)
          \/ \E from \in Blk :
                \E length \in 1..(MaxBytes - from) \cup {U64Max} :
                   FreeRecord(o, from, length, arrives)
          \/ SpillRecord(o, arrives)
          \/ FreeObjectsRecord(o, arrives)
    \/ FinishExtract
    \/ FinishApply
    \/ Fail

Spec == Init /\ [][Next]_vars

-----------------------------------------------------------------------------
\* The locals of build_raw_full, replay_raw_object and apply_raw_incremental,
\* and the raw state that an extraction leaves in the sidecar.
TypeOK ==
    /\ mode \in {"idle", "extract", "apply"}
    /\ open \in BOOLEAN /\ begun \in BOOLEAN
    /\ current_range \in {"none", "ours", "other"}
    /\ raw_dnodes \in [Obj -> Dnode \cup {None}]
    /\ target_deleted \in BOOLEAN /\ target_spill \in Size \cup {None}
    /\ new_size \in Size /\ object_exists \in BOOLEAN /\ file \in File
    /\ goal \in Range
    /\ ideal \in [Obj -> Dnode \cup {None}]
    /\ due \in SUBSET Blk /\ grown \in SUBSET Obj /\ lost \in 0..MaxLost
    /\ ranged \in BOOLEAN /\ unranged \in BOOLEAN
    /\ published \in File \cup {None}
    /\ sidecar \in [snap : Range, logical_size : Size,
                    at : {"none", "bonus", "spill"},
                    raw_state : [Obj -> Dnode \cup {None}],
                    target_spill : Size \cup {None}]

\* A stream that arrives whole: the published file is the file of the
\* snapshot that the sidecar names, in length and in every block, after any
\* chain of full and incremental raw substreams, in extraction and in apply.
RawReconstructed ==
    published # None /\ lost = 0 /\ sidecar.snap[Target] # None =>
        LET d == sidecar.snap[Target]
        IN  /\ published.len = LogicalSize(d)
            /\ \A b \in Blk : ReadByte(published, b) = Block(d, b)

\* Although records are lost (the checksum of a stream is optional), the range
\* MAC lets nothing through that it covers: the length and every block with a
\* pointer are those of the named snapshot, and so is the dnode state that
\* the next apply starts from.  One record is excepted, the OBJECT_RANGE that
\* carries the MAC: without it apply_raw_incremental skips the whole block,
\* checks nothing and certifies the old bytes as the new snapshot's.
AuthenticatedAnyway ==
    published # None /\ ~unranged /\ sidecar.snap[Target] # None =>
        LET d == sidecar.snap[Target]
        IN  /\ published.len = LogicalSize(d)
            /\ \A b \in Blk : d.blocks[b] # Hole
                                 => ReadByte(published, b) = d.blocks[b]
            /\ \A o \in Obj :
                  Covered(sidecar.raw_state[o]) = Covered(sidecar.snap[o])

\* A faithful stream is refused for a tree that grew, and for nothing else:
\* once the sender has brought an OpenZFS receiver to the snapshot, every
\* dnode of the block that the program has put together from its own state
\* and the records passes under the range's MAC, unless an OBJECT of this
\* substream made its tree taller over blocks that are not sent again, which
\* raw_layout_compatible and raw_apply_layout_compatible make it drop.
FaithfulAccepted ==
    InRange /\ Complete /\ lost = 0 => \A o \in Obj \ grown : Matches(raw_dnodes, o)

\* README.md: the update fails safely if the file was deleted and recreated
\* under a different object number.
DeletedRefused == published # None => sidecar.snap[Target] # None
=============================================================================
