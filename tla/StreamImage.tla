---------------------------- MODULE StreamImage -----------------------------
(***************************************************************************)
(* StreamImage of src/inception.rs: a file inside a send stream served as  *)
(* a virtual disk without being extracted.  build scans the chain once and *)
(* keeps a SegmentMap of which payload holds which bytes; read_exact_at    *)
(* decodes payloads from the stream file on demand, through a cache of one *)
(* block that all readers share.                                           *)
(*                                                                         *)
(* The i-th byte of the block a sender put in the payload id is the value  *)
(* <<id, i>>, so that a byte tells which payload it came from.  `received' *)
(* is what zfs receive would hold, the reference the reads are held to.    *)
(* The stream file may change under the readers at any moment (Change).    *)
(***************************************************************************)
EXTENDS Integers, Sequences, FiniteSets

CONSTANTS
    MaxBytes,   \* every offset in the model is below this bound
    MaxWrites,  \* WRITE and WRITE_EMBEDDED records of the object in a stream
    U64Max,     \* u64::MAX, the length of a FREE that runs to the end
    Guid,       \* the snapshots of the stream
    Chain,      \* plan.chain: the ones that rebuild the selected snapshot
    ObjectType, \* the types an object number may have in its life
    Reader,     \* threads that read the image
    ImageSize,  \* the lengths the index may have found for the file
    Zero,       \* the byte of a hole
    Absent        \* absent value

ASSUME StreamImageAssumption ==
    /\ MaxBytes \in Nat /\ MaxWrites \in Nat
    /\ U64Max \in Nat /\ U64Max > MaxBytes
    /\ Chain \subseteq Guid /\ IsFiniteSet(Guid)
    /\ ImageSize \subseteq 0..MaxBytes
    /\ Absent \notin ObjectType \cup 1..MaxWrites
    /\ \A n \in 1..MaxBytes : Absent \notin [1..n -> (0..MaxWrites) \X (0..MaxBytes)]

VARIABLES
    phase,          \* "scan", "ready" or "failed" (build returned an error)
    open,           \* the guid of the substream being read, Absent between two
    active,         \* build's locals ...
    current_key,
    seen,
    object_type,
    object_exists,
    keys,           \* the unlocked key of each raw substream of the chain
    blocks,         \* the BlockDescriptors, by id
    segments,       \* the SegmentMap
    len,            \* the image's length
    stream,         \* is the payload of each block still the one indexed?
    cache,          \* the decoded block, Absent when empty
    readers,        \* what each thread's read_exact_at call is doing
    received        \* the file as zfs receive would have it

indexing == <<open, active, current_key, seen, object_type, object_exists>>
image == <<keys, blocks, segments, len>>
vars == <<phase, indexing, image, stream, cache, readers, received>>

-----------------------------------------------------------------------------
Pos == 0..(MaxBytes - 1)
Extent(from, to) == {b \in Pos : from <= b /\ b < to}

BlockId == 1..MaxWrites

\* The encodings differ in what can go wrong with them: a Raw block has the
\* index of its key, 0 for Replay and Embedded; the sender sealed it with
\* the key of the substream.
BlockDescriptor ==
    [logical_len : 1..MaxBytes, key_index : Nat, sealed : Guid \cup {Absent}]
Segment ==
    [start : Pos, end : 1..MaxBytes, block : BlockId, block_offset : Pos]

\* A FREE of length U64Max has no end.
RangeEnd(start, length) == IF length = U64Max THEN U64Max ELSE start + length

\* Mutant: only the segments that start in the range are looked at.
RemoveInside(segs, start, length) ==
    LET end == RangeEnd(start, length)
        hit == {s \in segs : s.start < end /\ s.start >= start}
    IN  IF start = end THEN segs
        ELSE (segs \ hit)
             \cup {[s EXCEPT !.start = end,
                             !.block_offset = @ + (end - s.start)]
                     : s \in {t \in hit : t.end > end}}

\* SegmentMap::remove.  The segments that start in the range, and the one
\* that reaches into it, are cut to what lies before and after the range.
Remove(segs, start, length) ==
    LET end == RangeEnd(start, length)
        hit == {s \in segs : s.start < end /\ s.end > start}
    IN  IF start = end THEN segs
        ELSE (segs \ hit)
             \cup {[s EXCEPT !.end = start] : s \in {t \in hit : t.start < start}}
             \cup {[s EXCEPT !.start = end,
                             !.block_offset = @ + (end - s.start)]
                     : s \in {t \in hit : t.end > end}}

\* SegmentMap::insert
Insert(segs, start, length, id) ==
    IF length = 0 THEN segs
    ELSE Remove(segs, start, length)
         \cup {[start |-> start, end |-> start + length, block |-> id,
                block_offset |-> 0]}

\* zfs receive: [from, to) now reads as the start of block id, or as zero.
Received(from, to, id) ==
    [b \in Pos |-> IF b \notin Extent(from, to) THEN received[b]
                   ELSE IF id = Absent THEN Zero ELSE <<id, b - from>>]

-----------------------------------------------------------------------------
Idle == [pc |-> "idle", offset |-> 0, end |-> 0, todo |-> {},
         buffer |-> [b \in Pos |-> Zero]]

Init ==
    /\ phase = "scan"
    /\ open = Absent /\ active = FALSE /\ current_key = Absent /\ seen = {}
    /\ object_type = Absent /\ object_exists = FALSE
    /\ keys = <<>> /\ blocks = <<>> /\ segments = {} /\ len = 0
    /\ stream = <<>> /\ cache = Absent
    /\ readers = [r \in Reader |-> Idle]
    /\ received = [b \in Pos |-> Zero]

\* build returns: its locals are gone.
Scanned ==
    /\ open' = Absent /\ active' = FALSE /\ current_key' = Absent /\ seen' = {}
    /\ object_type' = Absent /\ object_exists' = FALSE

\* build returns an error: there is no image.
BuildFails ==
    /\ phase' = "failed"
    /\ Scanned
    /\ keys' = <<>> /\ blocks' = <<>> /\ segments' = {} /\ stream' = <<>>
    /\ received' = [b \in Pos |-> Zero]
    /\ UNCHANGED <<len, cache, readers>>

\* BEGIN: each raw substream of the chain has a key of its own.
Begin(guid, raw) ==
    /\ phase = "scan" /\ open = Absent
    /\ guid \notin seen
    /\ open' = guid
    /\ active' = (guid \in Chain)
    /\ seen' = IF active' THEN seen \cup {guid} ELSE seen
    /\ IF active' /\ raw
       THEN keys' = Append(keys, guid) /\ current_key' = Len(keys) + 1
       ELSE keys' = keys /\ current_key' = Absent
    /\ UNCHANGED <<phase, object_type, object_exists, blocks, segments, len,
                   stream, cache, readers, received>>

\* The key of a raw BEGIN is missing or does not unlock it.
BeginLocked(guid) ==
    /\ phase = "scan" /\ open = Absent /\ guid \in Chain \ seen
    /\ BuildFails

End ==
    /\ phase = "scan" /\ open # Absent
    /\ open' = Absent /\ active' = FALSE /\ current_key' = Absent
    /\ UNCHANGED <<phase, seen, object_type, object_exists, image, stream,
                   cache, readers, received>>

\* OBJECT: the number holds a new object if the type changed.
Object(type) ==
    /\ phase = "scan" /\ active
    /\ segments' = IF object_type # type THEN {} ELSE segments
    /\ object_type' = type /\ object_exists' = TRUE
    /\ received' = IF object_type # type THEN [b \in Pos |-> Zero]
                   ELSE received
    /\ UNCHANGED <<phase, open, active, current_key, seen, keys, blocks, len,
                   stream, cache, readers>>

\* A new BlockDescriptor with the next id, for the record's payload.
Describe(logical_len, key_index) ==
    /\ Len(blocks) < MaxWrites
    /\ blocks' = Append(blocks,
          [logical_len |-> logical_len, key_index |-> key_index,
           sealed |-> IF current_key = Absent THEN Absent ELSE open])
    /\ stream' = Append(stream, "indexed")

\* WRITE of a block of logical_size bytes.
Write(offset, logical_size) ==
    /\ phase = "scan" /\ active
    /\ IF ~object_exists THEN BuildFails
       ELSE /\ Describe(logical_size, IF current_key = Absent THEN 0 ELSE current_key)
            /\ segments' = Insert(segments, offset, logical_size, Len(blocks'))
            /\ received' = Received(offset, offset + logical_size, Len(blocks'))
            /\ UNCHANGED <<phase, indexing, keys, len, cache, readers>>

\* WRITE_EMBEDDED replaces length bytes by a payload of logical_size bytes.
WriteEmbedded(offset, length, logical_size) ==
    /\ phase = "scan" /\ active
    /\ IF current_key # Absent THEN BuildFails
       ELSE LET stored == IF logical_size < length THEN logical_size ELSE length
            IN  /\ Describe(logical_size, 0)
                /\ segments' = Insert(Remove(segments, offset, length),
                                      offset, stored, Len(blocks'))
                /\ received' = [b \in Pos |->
                                  IF b \in Extent(offset + stored, offset + length)
                                  THEN Zero
                                  ELSE Received(offset, offset + stored,
                                                Len(blocks'))[b]]
                /\ UNCHANGED <<phase, indexing, keys, len, cache, readers>>

Free(offset, length) ==
    /\ phase = "scan" /\ active
    /\ segments' = Remove(segments, offset, length)
    /\ received' = Received(offset, RangeEnd(offset, length), Absent)
    /\ UNCHANGED <<phase, indexing, keys, blocks, len, stream, cache, readers>>

\* FREEOBJECTS over the image's object number.
FreeObjects ==
    /\ phase = "scan" /\ active
    /\ segments' = {} /\ object_type' = Absent /\ object_exists' = FALSE
    /\ received' = [b \in Pos |-> Zero]
    /\ UNCHANGED <<phase, open, active, current_key, seen, keys, blocks, len,
                   stream, cache, readers>>

\* WRITE_BYREF and REDACT, and every error of the stream reader.
Unsupported ==
    /\ phase = "scan" /\ active
    /\ BuildFails

\* The end of the stream: the chain must have been there, with the object.
Finish(logical_size) ==
    /\ phase = "scan" /\ open = Absent
    /\ IF seen # Chain \/ ~object_exists THEN BuildFails
       ELSE /\ phase' = "ready"
            /\ len' = logical_size
            /\ Scanned
            /\ UNCHANGED <<keys, blocks, segments, stream, cache,
                           readers, received>>

\* Somebody writes to the stream file after its payload was indexed.  A
\* change during the scan is seen by the first read, as one made just after.
Change(id) ==
    /\ phase = "ready" /\ stream[id] = "indexed"
    /\ stream' = [stream EXCEPT ![id] = "changed"]
    /\ UNCHANGED <<phase, indexing, image, cache, readers, received>>

-----------------------------------------------------------------------------
\* read_exact_at: a range inside the image, over a zeroed buffer.
StartRead(r, offset, end) ==
    /\ phase = "ready" /\ readers[r].pc = "idle"
    /\ readers' = [readers EXCEPT ![r] =
          IF end > len THEN [Idle EXCEPT !.pc = "refused"]
          ELSE [Idle EXCEPT
                  !.pc = "next", !.offset = offset, !.end = end,
                  !.todo = IF offset = end THEN {}
                           ELSE {s \in segments : s.start < end /\ s.end > offset}]]
    /\ UNCHANGED <<phase, indexing, image, stream, cache, received>>

\* The next segment of a read, in the order of the map's keys.
NextSegment(todo) == CHOOSE s \in todo : \A t \in todo : s.start <= t.start

\* The decoded block copied over the segment's part of the buffer.
Copied(rd, s, bytes) ==
    LET from == IF s.start > rd.offset THEN s.start ELSE rd.offset
        to == IF s.end < rd.end THEN s.end ELSE rd.end
        source == s.block_offset + from - s.start
    IN  IF source + (to - from) > Len(bytes)
        THEN [Idle EXCEPT !.pc = "failed"]
        ELSE [rd EXCEPT !.pc = "next", !.todo = rd.todo \ {s},
                        !.buffer = [b \in Pos |->
                            IF b \in Extent(from, to)
                            THEN bytes[source + (b - from) + 1]
                            ELSE rd.buffer[b]]]

\* decode, the lookup under the cache's lock: a hit is copied at once.
Lookup(r) ==
    LET rd == readers[r]
        s == NextSegment(rd.todo)
    IN  /\ rd.pc = "next" /\ rd.todo # {}
        /\ readers' = [readers EXCEPT ![r] =
              IF cache # Absent /\ cache.id = s.block
              THEN Copied(rd, s, cache.bytes)
              ELSE [rd EXCEPT !.pc = "load"]]
        /\ UNCHANGED <<phase, indexing, image, stream, cache, received>>

\* Mutant: the payload's CRC is not compared.
DecodedUnchecked(id) ==
    LET d == blocks[id]
    IN  IF d.key_index # 0 /\ keys[d.key_index] # d.sealed THEN Absent
        ELSE [i \in 1..d.logical_len |->
                IF stream[id] = "changed" THEN <<0, i - 1>> ELSE <<id, i - 1>>]

\* The bytes the payload of block id decodes to, Absent for an error: the
\* CRC of a changed payload differs, and only the key of the substream that
\* sealed a raw block opens it.
Decoded(id) ==
    LET d == blocks[id]
    IN  IF stream[id] = "changed" THEN Absent
        ELSE IF d.key_index # 0 /\ keys[d.key_index] # d.sealed THEN Absent
        ELSE [i \in 1..d.logical_len |-> <<id, i - 1>>]

\* decode after a miss: read, check, decode, and fill the cache.
Load(r) ==
    LET rd == readers[r]
        s == NextSegment(rd.todo)
        bytes == Decoded(s.block)
    IN  /\ rd.pc = "load"
        /\ IF bytes = Absent
           THEN /\ readers' = [readers EXCEPT ![r] = [Idle EXCEPT !.pc = "failed"]]
                /\ UNCHANGED cache
           ELSE /\ readers' = [readers EXCEPT ![r] = Copied(rd, s, bytes)]
                /\ cache' = [id |-> s.block, bytes |-> bytes]
        /\ UNCHANGED <<phase, indexing, image, stream, received>>

\* The caller has its answer and may ask again.
Return(r) ==
    /\ \/ readers[r].pc = "next" /\ readers[r].todo = {}
       \/ readers[r].pc \in {"failed", "refused"}
    /\ readers' = [readers EXCEPT ![r] = Idle]
    /\ UNCHANGED <<phase, indexing, image, stream, cache, received>>

Next ==
    \/ \E guid \in Guid : \E raw \in BOOLEAN : Begin(guid, raw)
    \/ \E guid \in Guid : BeginLocked(guid)
    \/ End
    \/ \E type \in ObjectType : Object(type)
    \/ \E offset \in Pos : \E size \in 1..(MaxBytes - offset) : Write(offset, size)
    \/ \E offset \in Pos : \E length, size \in 1..(MaxBytes - offset) :
          WriteEmbedded(offset, length, size)
    \/ \E offset \in Pos : \E length \in 0..(MaxBytes - offset) \cup {U64Max} :
          Free(offset, length)
    \/ FreeObjects
    \/ Unsupported
    \/ \E size \in ImageSize : Finish(size)
    \/ \E id \in DOMAIN stream : Change(id)
    \/ \E r \in Reader : \E offset, end \in 0..(MaxBytes + 1) :
          offset <= end /\ StartRead(r, offset, end)
    \/ \E r \in Reader : Lookup(r) \/ Load(r) \/ Return(r)

Spec == Init /\ [][Next]_vars

-----------------------------------------------------------------------------
\* The locals of build, the image and the calls on it.
TypeOK ==
    /\ phase \in {"scan", "ready", "failed"}
    /\ open \in Guid \cup {Absent} /\ active \in BOOLEAN
    /\ current_key \in 1..Cardinality(Guid) \cup {Absent}
    /\ seen \in SUBSET Chain
    /\ object_type \in ObjectType \cup {Absent} /\ object_exists \in BOOLEAN
    /\ keys \in Seq(Chain) /\ Len(keys) <= Cardinality(Chain)
    /\ blocks \in Seq(BlockDescriptor) /\ Len(blocks) <= MaxWrites
    /\ segments \in SUBSET Segment
    /\ len \in 0..MaxBytes
    /\ stream \in Seq({"indexed", "changed"}) /\ Len(stream) = Len(blocks)
    /\ cache = Absent \/ cache.id \in DOMAIN blocks
    /\ \A r \in Reader :
          /\ readers[r].pc \in {"idle", "next", "load", "failed", "refused"}
          /\ readers[r].todo \subseteq segments

\* However records overlap, are cut by frees and written again, the map's
\* segments never overlap and each one is a part of what its payload decodes
\* to: a read copies one payload's bytes to a place, and never past its end.
SegmentsFit ==
    \A s \in segments :
        /\ s.start < s.end
        /\ s.block \in DOMAIN blocks
        /\ s.block_offset + (s.end - s.start) <= blocks[s.block].logical_len
        /\ \A t \in segments : s # t => s.end <= t.start \/ t.end <= s.start

\* A read that returns has the bytes zfs receive would have put there, and a
\* read inside the image fails only because the stream file changed: the cut
\* segments, the cache shared with other readers, the keys of several raw
\* substreams and a file that changes meanwhile never show through.
ReadsAreReceived ==
    \A r \in Reader :
        /\ readers[r].pc = "next" /\ readers[r].todo = {} =>
              \A b \in Extent(readers[r].offset, readers[r].end) :
                  readers[r].buffer[b] = received[b]
        /\ readers[r].pc = "failed" =>
              \E id \in DOMAIN stream : stream[id] = "changed"
=============================================================================
