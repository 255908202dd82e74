---------------------------- MODULE ImageProofs -----------------------------
(***************************************************************************)
(* Disk images and disks.  An image served out of a send stream reads as   *)
(* zfs receive would have left the file, for any number of records,        *)
(* snapshots, keys, readers and bytes, and while the stream file changes   *)
(* under the readers.  A disk that is browsed, or opened as a pool member, *)
(* is read within its bounds and in its place, for every disk and depth.   *)
(***************************************************************************)
EXTENDS StreamImage, DiskSession, FiniteSetTheorems, WellFoundedInduction, TLAPS

-----------------------------------------------------------------------------
(* StreamImage: an image served out of a stream.                           *)

\* Every nonempty set of naturals has a least member.
LEMMA LeastNat ==
    ASSUME NEW T \in SUBSET Nat, T # {}
    PROVE  \E x \in T : \A y \in T : x <= y
<1>1. PICK x \in T : \A y \in T : ~(<<y, x>> \in OpToRel(<, Nat))
  BY NatLessThanWellFounded, WFMin
<1>2. \A y \in Nat : y < x => <<y, x>> \in OpToRel(<, Nat)
  BY DEF OpToRel
<1>3. \A y \in T : ~(y < x)
  BY <1>1, <1>2
<1> QED BY <1>3

-----------------------------------------------------------------------------
(* Cutting and inserting segments.                                         *)

Covers(s, b) == s.start <= b /\ b < s.end

\* t is a piece of s: the same payload, the same bytes at the same places.
Piece(t, s) ==
    /\ t.block = s.block /\ s.start <= t.start /\ t.start < t.end /\ t.end <= s.end
    /\ t.block_offset = s.block_offset + (t.start - s.start)

Apart(s, t) == s.end <= t.start \/ t.end <= s.start

\* A segment that holds at least one byte, all of them in the first MaxBytes
\* of what its payload decodes to.
Sized(s) ==
    /\ s \in Segment /\ s.start < s.end
    /\ s.block_offset + (s.end - s.start) <= MaxBytes

\* The map before and after a cut of [start, end).
CutOut(segs, new, start, end) ==
    /\ \A t \in new : Sized(t)
    /\ start < end => \A t \in new : t.end <= start \/ end <= t.start
    /\ \A t \in new : \E s \in segs : Piece(t, s)
    /\ \A s, t \in new : s # t => Apart(s, t)
    /\ \A s \in segs : \A b \in Pos :
          Covers(s, b) /\ ~(start <= b /\ b < end) => \E t \in new : Covers(t, b)

\* The ranges that records name: inside the model's bytes, or without an end.
ValidRange(start, length) ==
    /\ start \in Pos
    /\ length \in Nat /\ (start + length <= MaxBytes \/ length = U64Max)

LEMMA RangeEndFacts ==
    ASSUME NEW start, NEW length, ValidRange(start, length)
    PROVE  /\ RangeEnd(start, length) \in Nat /\ start \in Nat
           /\ start <= RangeEnd(start, length)
           /\ RangeEnd(start, length) > MaxBytes => length = U64Max
           /\ RangeEnd(start, length) \in 0..MaxBytes \/ RangeEnd(start, length) = U64Max
           /\ length # U64Max => RangeEnd(start, length) = start + length
BY StreamImageAssumption DEF ValidRange, RangeEnd, Pos

\* SegmentMap::remove cuts out the range and nothing else.
LEMMA RemoveCuts ==
    ASSUME NEW segs, NEW start, NEW length, ValidRange(start, length),
           \A s \in segs : Sized(s),
           \A s, t \in segs : s # t => Apart(s, t)
    PROVE  CutOut(segs, Remove(segs, start, length), start,
                  RangeEnd(start, length))
<1> DEFINE end == RangeEnd(start, length)
           hit == {s \in segs : s.start < end /\ s.end > start}
           left(s) == [s EXCEPT !.end = start]
           right(s) == [s EXCEPT !.start = end,
                                 !.block_offset = @ + (end - s.start)]
           lefts == {left(s) : s \in {t \in hit : t.start < start}}
           rights == {right(s) : s \in {t \in hit : t.end > end}}
           new == (segs \ hit) \cup lefts \cup rights
<1>1. end \in Nat /\ start \in Nat /\ start < MaxBytes /\ start <= end /\ MaxBytes \in Nat
      /\ (end > MaxBytes => end = U64Max)
  BY RangeEndFacts, StreamImageAssumption DEF ValidRange, Pos
<1>2. ASSUME NEW s \in segs
      PROVE  /\ s \in Segment /\ s.start \in Nat /\ s.end \in Nat /\ s.block_offset \in Nat
             /\ s.start < s.end /\ s.end <= MaxBytes /\ Sized(s)
             /\ s.block_offset + (s.end - s.start) <= MaxBytes
             /\ s.block \in BlockId
  BY StreamImageAssumption DEF Sized, Segment, Pos
<1>3. CASE start = end
  <2>1. Remove(segs, start, length) = segs
    BY <1>3 DEF Remove
  <2> HIDE DEF end
  <2>2. \A s \in segs : Piece(s, s)
    BY <1>2 DEF Piece
  <2> QED BY <1>1, <1>3, <2>1, <2>2 DEF CutOut, end
<1>4. CASE start # end
  <2>1. Remove(segs, start, length) = new
    BY <1>4 DEF Remove
  <2> HIDE DEF end
  <2>2. ASSUME NEW s \in hit, s.start < start
        PROVE  /\ Sized(left(s)) /\ Piece(left(s), s) /\ left(s).end = start
               /\ left(s).start = s.start
    <3>1. /\ left(s) \in Segment /\ left(s).start = s.start /\ left(s).end = start
          /\ left(s).block = s.block /\ left(s).block_offset = s.block_offset
      BY <1>1, <1>2, <2>2 DEF Segment, Pos
    <3> QED BY <1>1, <1>2, <2>2, <3>1 DEF Sized, Piece
  <2>3. ASSUME NEW s \in hit, s.end > end
        PROVE  /\ Sized(right(s)) /\ Piece(right(s), s) /\ right(s).start = end
               /\ right(s).end = s.end
    <3>1. end \in Pos /\ s.block_offset + (end - s.start) \in Pos
      BY <1>1, <1>2, <2>3 DEF Pos
    <3>2. /\ right(s) \in Segment /\ right(s).start = end /\ right(s).end = s.end
          /\ right(s).block = s.block
          /\ right(s).block_offset = s.block_offset + (end - s.start)
      BY <1>2, <2>3, <3>1 DEF Segment
    <3> QED BY <1>1, <1>2, <2>3, <3>2 DEF Sized, Piece
  <2>4. \A s \in segs : Piece(s, s)
    BY <1>2 DEF Piece
  \* Every new segment is whole, a left rest or a right rest of an old one.
  <2> DEFINE Rest(t, s) ==
               \/ s \notin hit /\ t = s
               \/ s \in hit /\ s.start < start /\ t = left(s)
               \/ s \in hit /\ s.end > end /\ t = right(s)
  <2>5. \A t \in new : \E s \in segs : Rest(t, s)
    OBVIOUS
  <2>6. ASSUME NEW s \in segs, NEW t, Rest(t, s)
        PROVE  Sized(t) /\ (t.end <= start \/ end <= t.start) /\ Piece(t, s)
    <3>1. CASE s \notin hit /\ t = s
      <4>1. s.end <= start \/ end <= s.start
        BY <1>1, <1>2, <3>1
      <4> QED BY <1>2, <2>4, <3>1, <4>1
    <3>2. CASE s \in hit /\ s.start < start /\ t = left(s)
      <4>1. Sized(left(s)) /\ Piece(left(s), s) /\ left(s).end = start
        BY <2>2, <3>2
      <4> QED BY <1>1, <3>2, <4>1
    <3>3. CASE s \in hit /\ s.end > end /\ t = right(s)
      <4>1. Sized(right(s)) /\ Piece(right(s), s) /\ right(s).start = end
        BY <2>3, <3>3
      <4> QED BY <1>1, <3>3, <4>1
    <3> QED BY <2>6, <3>1, <3>2, <3>3
  <2>8. ASSUME NEW s \in new, NEW t \in new, s # t
        PROVE  Apart(s, t)
    <3>1. PICK p \in segs : Rest(s, p)
      BY <2>5
    <3>2. PICK q \in segs : Rest(t, q)
      BY <2>5
    <3>3. Sized(s) /\ Sized(t) /\ Piece(s, p) /\ Piece(t, q)
      BY <2>6, <3>1, <3>2
    <3>4. /\ s.start \in Nat /\ s.end \in Nat /\ t.start \in Nat /\ t.end \in Nat
          /\ s.start < s.end /\ t.start < t.end
      <4> HIDE DEF new, Rest, hit
      <4> QED BY <1>1, <3>3 DEF Sized, Segment, Pos
    <3>5. CASE p # q
      <4>1. Apart(p, q)
        BY <3>5
      <4> HIDE DEF new, Rest
      <4> QED BY <1>2, <3>3, <3>4, <4>1 DEF Piece, Apart
    <3>6. CASE p = q
      <4>1. CASE p \in hit /\ p.start < start /\ s = left(p) /\ p.end > end /\ t = right(p)
        <5>1. left(p).end = start /\ right(p).start = end
          BY <2>2, <2>3, <4>1
        <5> QED BY <1>1, <4>1, <5>1 DEF Apart
      <4>2. CASE p \in hit /\ p.start < start /\ t = left(p) /\ p.end > end /\ s = right(p)
        <5>1. left(p).end = start /\ right(p).start = end
          BY <2>2, <2>3, <4>2
        <5> QED BY <1>1, <4>2, <5>1 DEF Apart
      <4> HIDE DEF left, right, new, hit
      <4> QED BY <2>8, <3>1, <3>2, <3>6, <4>1, <4>2
    <3> QED BY <3>5, <3>6
  <2>7. ASSUME NEW s \in segs, NEW b \in Pos, Covers(s, b), ~(start <= b /\ b < end)
        PROVE  \E t \in new : Covers(t, b)
    <3>0. b \in Nat
      BY DEF Pos
    <3>1. CASE s \notin hit
      BY <2>7, <3>1
    <3>2. CASE s \in hit /\ b < start
      <4>1. s.start < start
        BY <1>1, <1>2, <2>7, <3>0, <3>2 DEF Covers
      <4>2. left(s) \in new
        BY <3>2, <4>1
      <4>3. left(s).end = start /\ left(s).start = s.start
        BY <2>2, <3>2, <4>1
      <4>4. Covers(left(s), b)
        BY <2>7, <3>2, <4>3 DEF Covers
      <4> QED BY <4>2, <4>4
    <3>3. CASE s \in hit /\ b >= end
      <4>1. s.end > end
        BY <1>1, <1>2, <2>7, <3>0, <3>3 DEF Covers
      <4>2. right(s) \in new
        BY <3>3, <4>1
      <4>3. right(s).start = end /\ right(s).end = s.end
        BY <2>3, <3>3, <4>1
      <4>4. Covers(right(s), b)
        BY <2>7, <3>3, <4>3 DEF Covers
      <4> QED BY <4>2, <4>4
    <3>4. b < start \/ b >= end
      BY <1>1, <2>7, <3>0
    <3> QED BY <3>1, <3>2, <3>3, <3>4
  <2> HIDE DEF new, Rest
  <2> QED BY <2>1, <2>5, <2>6, <2>7, <2>8 DEF CutOut, end
<1> QED BY <1>3, <1>4

\* The bytes rec are the ones that the segments' payloads decode to, and zero
\* where there is no segment.
ReadsAs(segs, rec) ==
    /\ \A s \in segs : \A b \in Pos :
          Covers(s, b) => rec[b] = <<s.block, s.block_offset + (b - s.start)>>
    /\ \A b \in Pos : (\A s \in segs : ~Covers(s, b)) => rec[b] = Zero

\* A segment is a part of a block that has a descriptor.
Fit(s, bl) ==
    /\ Sized(s) /\ s.block \in 1..Len(bl)
    /\ s.block_offset + (s.end - s.start) <= bl[s.block].logical_len

GoodMap(segs, bl, rec) ==
    /\ \A s \in segs : Fit(s, bl)
    /\ \A s, t \in segs : s # t => Apart(s, t)
    /\ ReadsAs(segs, rec)

Descriptors(bl) == bl \in Seq(BlockDescriptor)

\* The numbers of a segment.
LEMMA SizedFacts ==
    ASSUME NEW s, Sized(s)
    PROVE  /\ s.start \in Nat /\ s.end \in Nat /\ s.block_offset \in Nat
           /\ s.start < s.end /\ s.end <= MaxBytes /\ s.start \in Pos
           /\ s.block_offset + (s.end - s.start) <= MaxBytes
           /\ s.block \in BlockId
BY StreamImageAssumption DEF Sized, Segment, Pos

LEMMA PieceFits ==
    ASSUME NEW s, NEW t, NEW bl, Descriptors(bl), Fit(s, bl), Sized(t), Piece(t, s)
    PROVE  Fit(t, bl)
<1>1. bl[s.block].logical_len \in Nat
  <2>1. bl[s.block] \in BlockDescriptor
    BY DEF Descriptors, Fit
  <2> QED BY <2>1, StreamImageAssumption DEF BlockDescriptor
<1>2. Sized(s)
  BY DEF Fit
<1>3. t.block_offset + (t.end - t.start) <= s.block_offset + (s.end - s.start)
  <2>1. /\ t.block_offset = s.block_offset + (t.start - s.start) /\ t.end <= s.end
    BY DEF Piece
  <2>2. s.start \in Nat /\ s.end \in Nat /\ s.block_offset \in Nat
    BY <1>2, SizedFacts
  <2>3. t.start \in Nat /\ t.end \in Nat
    BY SizedFacts
  <2> QED BY <2>1, <2>2, <2>3
<1>4. s.block_offset + (s.end - s.start) <= bl[t.block].logical_len /\ t.block = s.block
  BY DEF Fit, Piece
<1> QED BY <1>1, <1>2, <1>3, <1>4, SizedFacts, SMTT(30) DEF Fit

\* A FREE leaves a good map of the file with a hole.
LEMMA RemoveGood ==
    ASSUME NEW segs, NEW bl, NEW rec, NEW rec2, NEW start, NEW length,
           Descriptors(bl), ValidRange(start, length), GoodMap(segs, bl, rec),
           \A b \in Pos : rec2[b] = IF start <= b /\ b < RangeEnd(start, length)
                                    THEN Zero ELSE rec[b]
    PROVE  GoodMap(Remove(segs, start, length), bl, rec2)
<1> DEFINE end == RangeEnd(start, length)
           new == Remove(segs, start, length)
<1>0. start \in Nat /\ end \in Nat /\ \A b \in Pos : b \in Nat
  BY RangeEndFacts DEF Pos
<1>1. CutOut(segs, new, start, end)
  BY RemoveCuts DEF GoodMap, Fit
<1> HIDE DEF new, end
<1>2. ASSUME NEW t \in new PROVE Fit(t, bl)
  BY <1>1, PieceFits DEF CutOut, GoodMap
<1>3. ASSUME NEW t \in new, NEW b \in Pos, Covers(t, b)
      PROVE  rec2[b] = <<t.block, t.block_offset + (b - t.start)>>
  <2>1. PICK s \in segs : Piece(t, s)
    BY <1>1 DEF CutOut
  <2>2. Sized(t) /\ Sized(s)
    BY <1>1 DEF CutOut, GoodMap, Fit
  <2>3. ~(start <= b /\ b < end)
    BY <1>0, <1>1, <1>3, <2>2, SizedFacts DEF CutOut, Covers
  <2>4. Covers(s, b)
    BY <1>0, <1>3, <2>1, <2>2, SizedFacts DEF Piece, Covers
  <2>5. rec2[b] = <<s.block, s.block_offset + (b - s.start)>>
    BY <2>3, <2>4 DEF GoodMap, ReadsAs, end
  <2>6. s.block_offset + (b - s.start) = t.block_offset + (b - t.start)
        /\ s.block = t.block
    BY <1>0, <2>1, <2>2, SizedFacts DEF Piece
  <2> QED BY <2>5, <2>6
<1>4. ASSUME NEW b \in Pos, \A t \in new : ~Covers(t, b)
      PROVE  rec2[b] = Zero
  <2>1. CASE start <= b /\ b < end
    BY <2>1 DEF end
  <2>2. CASE ~(start <= b /\ b < end)
    <3>1. \A s \in segs : ~Covers(s, b)
      BY <1>1, <1>4, <2>2 DEF CutOut
    <3> QED BY <2>2, <3>1 DEF GoodMap, ReadsAs, end
  <2> QED BY <2>1, <2>2
<1> QED BY <1>1, <1>2, <1>3, <1>4 DEF CutOut, GoodMap, ReadsAs, new

\* A WRITE of block id leaves a good map of the file with the block in it.
LEMMA InsertGood ==
    ASSUME NEW segs, NEW bl, NEW rec, NEW rec2, NEW start, NEW length, NEW id,
           Descriptors(bl), GoodMap(segs, bl, rec),
           start \in Pos, length \in 1..(MaxBytes - start),
           id \in BlockId, id \in 1..Len(bl), length <= bl[id].logical_len,
           \A b \in Pos : rec2[b] = IF start <= b /\ b < start + length
                                    THEN <<id, b - start>> ELSE rec[b]
    PROVE  GoodMap(Insert(segs, start, length, id), bl, rec2)
<1> DEFINE fresh == [start |-> start, end |-> start + length, block |-> id,
                     block_offset |-> 0]
           cut == Remove(segs, start, length)
           rec1 == [b \in Pos |-> IF start <= b /\ b < start + length
                                  THEN Zero ELSE rec[b]]
<1>0. MaxBytes \in Nat /\ start \in Nat /\ length \in Nat /\ length > 0
      /\ start + length <= MaxBytes /\ length # U64Max /\ ValidRange(start, length)
      /\ \A b \in Pos : b \in Nat
  BY StreamImageAssumption DEF Pos, ValidRange
<1>1. Insert(segs, start, length, id) = cut \cup {fresh}
  BY <1>0 DEF Insert
<1>2. RangeEnd(start, length) = start + length
  BY <1>0 DEF RangeEnd
<1>3. GoodMap(cut, bl, rec1)
  BY <1>0, <1>2, RemoveGood
<1>4. \A t \in cut : t.end <= start \/ start + length <= t.start
  <2>1. CutOut(segs, cut, start, start + length)
    BY <1>0, <1>2, RemoveCuts DEF GoodMap, Fit
  <2> QED BY <1>0, <2>1 DEF CutOut
<1>5. fresh \in Segment /\ Sized(fresh)
  BY <1>0 DEF Segment, Sized, Pos
<1>6. Fit(fresh, bl)
  BY <1>0, <1>5 DEF Fit
<1> DEFINE new == cut \cup {fresh}
<1>7. \A s \in new : Fit(s, bl)
  BY <1>3, <1>6 DEF GoodMap
<1> HIDE DEF cut
<1>8. \A s, t \in new : s # t => Apart(s, t)
  BY <1>3, <1>4 DEF GoodMap, Apart
<1>9. ASSUME NEW s \in new, NEW b \in Pos, Covers(s, b)
      PROVE  rec2[b] = <<s.block, s.block_offset + (b - s.start)>>
  <2>1. CASE s = fresh
    <3>1. rec2[b] = <<id, b - start>>
      BY <1>9, <2>1 DEF Covers
    <3>2. s.block = id /\ s.block_offset = 0 /\ s.start = start
      BY <2>1
    <3>3. b \in Nat /\ start \in Nat
      BY <1>0
    <3>4. b - start = 0 + (b - start)
      BY <3>3
    <3> QED BY <3>1, <3>2, <3>4
  <2>2. CASE s \in cut
    <3>0. Sized(s)
      BY <1>3, <2>2 DEF GoodMap, Fit
    <3>1. ~(start <= b /\ b < start + length)
      BY <1>0, <1>4, <1>9, <2>2, <3>0, SizedFacts DEF Covers
    <3>2. rec1[b] = <<s.block, s.block_offset + (b - s.start)>>
      BY <1>3, <1>9, <2>2 DEF GoodMap, ReadsAs
    <3> QED BY <3>1, <3>2
  <2> QED BY <2>1, <2>2
<1>10. ASSUME NEW b \in Pos, \A s \in new : ~Covers(s, b)
       PROVE  rec2[b] = Zero
  <2>1. ~Covers(fresh, b)
    BY <1>10
  <2>2. ~(start <= b /\ b < start + length)
    BY <2>1 DEF Covers
  <2>3. rec1[b] = Zero
    BY <1>3, <1>10 DEF GoodMap, ReadsAs
  <2> QED BY <2>2, <2>3
<1> HIDE DEF new, rec1, fresh
<1> QED BY <1>1, <1>7, <1>8, <1>9, <1>10 DEF GoodMap, ReadsAs, new

\* A new descriptor disturbs no segment.
LEMMA AppendGood ==
    ASSUME NEW segs, NEW bl, NEW rec, NEW d \in BlockDescriptor, Descriptors(bl),
           GoodMap(segs, bl, rec)
    PROVE  /\ Descriptors(Append(bl, d)) /\ GoodMap(segs, Append(bl, d), rec)
           /\ Len(Append(bl, d)) = Len(bl) + 1 /\ Append(bl, d)[Len(bl) + 1] = d
           /\ \A i \in 1..Len(bl) : Append(bl, d)[i] = bl[i]
<1>1. /\ Append(bl, d) \in Seq(BlockDescriptor) /\ Len(Append(bl, d)) = Len(bl) + 1
      /\ Append(bl, d)[Len(bl) + 1] = d
      /\ \A i \in 1..Len(bl) : Append(bl, d)[i] = bl[i]
      /\ Len(bl) \in Nat
  BY DEF Descriptors
<1>2. \A s \in segs : Fit(s, Append(bl, d))
  BY <1>1 DEF GoodMap, Fit
<1> QED BY <1>1, <1>2 DEF GoodMap, Descriptors

\* A file of zeros has no segments.
LEMMA EmptyGood ==
    ASSUME NEW bl
    PROVE  GoodMap({}, bl, [b \in Pos |-> Zero])
BY DEF GoodMap, ReadsAs

-----------------------------------------------------------------------------
(* The inductive invariant.                                                *)

Byte == {Zero} \cup (BlockId \X Pos)
ReaderState ==
    [pc : {"idle", "next", "load", "failed", "refused"},
     offset : 0..MaxBytes, end : 0..MaxBytes, todo : SUBSET Segment,
     buffer : [Pos -> Byte]]

Types ==
    /\ phase \in {"scan", "ready", "failed"}
    /\ open \in Guid \cup {Absent}
    /\ keys \in Seq(Guid)
    /\ Descriptors(blocks) /\ Len(blocks) <= MaxWrites
    /\ stream \in Seq({"indexed", "changed"}) /\ Len(stream) = Len(blocks)
    /\ len \in 0..MaxBytes
    /\ readers \in [Reader -> ReaderState]

\* The segment map stands for the file that zfs receive would hold.
MapFits == GoodMap(segments, blocks, received)

\* A raw block knows the place of the key of the substream that sealed it,
\* although later substreams have keys of their own.
KeysFit ==
    /\ current_key # Absent =>
          current_key \in 1..Len(keys) /\ keys[current_key] = open
    /\ \A id \in 1..Len(blocks) :
          blocks[id].key_index # 0 =>
              /\ blocks[id].key_index \in 1..Len(keys)
              /\ keys[blocks[id].key_index] = blocks[id].sealed

\* What block id decodes to as the sender wrote it.
Payload(id) == [i \in 1..blocks[id].logical_len |-> <<id, i - 1>>]

\* The cache holds what one block decodes to, whichever reader filled it.
CacheFits ==
    cache # Absent =>
        cache.id \in 1..Len(blocks) /\ cache.bytes = Payload(cache.id)

\* Before the image is built nobody reads it.
Quiet == phase # "ready" => cache = Absent /\ \A r \in Reader : readers[r] = Idle

\* What is not copied yet is in a segment that is still to do.
ReaderFits(rd) ==
    /\ rd.pc \in {"next", "load"} =>
          /\ rd.todo \subseteq segments
          /\ \A b \in Extent(rd.offset, rd.end) :
                rd.buffer[b] = received[b] \/ \E s \in rd.todo : Covers(s, b)
    /\ rd.pc = "load" => rd.todo # {}
    /\ rd.pc = "failed" => \E id \in 1..Len(stream) : stream[id] = "changed"

ReadersFit == \A r \in Reader : ReaderFits(readers[r])

Inv == Types /\ MapFits /\ KeysFit /\ CacheFits /\ Quiet /\ ReadersFit

-----------------------------------------------------------------------------
(* build.                                                                  *)

LEMMA IdleFacts == Idle \in ReaderState /\ Idle.pc = "idle"
BY StreamImageAssumption DEF Idle, ReaderState, Byte

\* A scan that changes the map and the descriptors keeps the rest.
LEMMA ScanKeeps ==
    ASSUME Inv, phase = "scan", UNCHANGED <<len, cache, readers>>,
           phase' \in {"scan", "ready", "failed"}
    PROVE  CacheFits' /\ Quiet' /\ ReadersFit'
<1>1. cache = Absent /\ \A r \in Reader : readers[r] = Idle
  BY DEF Inv, Quiet
<1> QED BY <1>1, IdleFacts DEF CacheFits, Quiet, ReadersFit, ReaderFits, Idle, Pos

LEMMA InitInv == Init => Inv
<1> SUFFICES ASSUME Init PROVE Inv
  OBVIOUS
<1>1. Types
  BY IdleFacts, StreamImageAssumption DEF Init, Types, Descriptors
<1>2. MapFits
  BY EmptyGood DEF Init, MapFits
<1>3. KeysFit /\ CacheFits /\ Quiet
  BY DEF Init, KeysFit, CacheFits, Quiet
<1>4. ReadersFit
  BY IdleFacts DEF Init, ReadersFit, ReaderFits
<1> QED BY <1>1, <1>2, <1>3, <1>4 DEF Inv

LEMMA BuildFailsKeeps ==
    ASSUME Inv, phase = "scan", BuildFails
    PROVE  Inv'
<1>1. Types'
  BY StreamImageAssumption DEF Inv, Types, BuildFails, Scanned, Descriptors
<1>2. MapFits'
  BY EmptyGood DEF BuildFails, MapFits
<1>3. KeysFit'
  BY DEF BuildFails, Scanned, KeysFit
<1>4. CacheFits' /\ Quiet' /\ ReadersFit'
  BY ScanKeeps DEF BuildFails
<1> QED BY <1>1, <1>2, <1>3, <1>4 DEF Inv

LEMMA BeginKeeps ==
    ASSUME Inv, NEW guid \in Guid, NEW raw \in BOOLEAN, Begin(guid, raw)
    PROVE  Inv'
<1>1. /\ keys' = keys \/ keys' = Append(keys, guid)
      /\ open' = guid
      /\ \/ current_key' = Absent
         \/ current_key' = Len(keys) + 1 /\ keys' = Append(keys, guid)
      /\ UNCHANGED <<phase, blocks, segments, len, stream, cache, readers, received>>
      /\ phase = "scan"
  <2>1. /\ phase = "scan" /\ open' = guid
        /\ UNCHANGED <<phase, blocks, segments, len, stream, cache, readers, received>>
    BY DEF Begin
  <2>2. CASE active' /\ raw
    BY <2>1, <2>2 DEF Begin
  <2>3. CASE ~(active' /\ raw)
    BY <2>1, <2>3 DEF Begin
  <2> QED BY <2>2, <2>3
<1>2. keys \in Seq(Guid)
  BY DEF Inv, Types
<1>3. /\ keys' \in Seq(Guid) /\ Len(keys) <= Len(keys')
      /\ \A i \in 1..Len(keys) : i \in 1..Len(keys') /\ keys'[i] = keys[i]
      /\ current_key' # Absent => current_key' \in 1..Len(keys') /\ keys'[current_key'] = guid
  BY <1>1, <1>2
<1>4. Types' /\ MapFits'
  BY <1>1, <1>3 DEF Inv, Types, MapFits
<1>5. KeysFit'
  BY <1>1, <1>3 DEF Inv, KeysFit
<1>6. CacheFits' /\ Quiet' /\ ReadersFit'
  BY <1>1, ScanKeeps
<1> QED BY <1>4, <1>5, <1>6 DEF Inv

\* END and the last record of the stream drop the key of the substream.
LEMMA EndKeeps ==
    ASSUME Inv, End
    PROVE  Inv'
<1>1. Types' /\ MapFits' /\ KeysFit'
  BY DEF Inv, End, image, Types, MapFits, KeysFit
<1>2. CacheFits' /\ Quiet' /\ ReadersFit'
  BY ScanKeeps DEF End, image, Inv, Types
<1> QED BY <1>1, <1>2 DEF Inv

LEMMA FinishKeeps ==
    ASSUME Inv, NEW size \in ImageSize, Finish(size)
    PROVE  Inv'
<1>1. CASE seen # Chain \/ ~object_exists
  BY <1>1, BuildFailsKeeps DEF Finish
<1>2. CASE ~(seen # Chain \/ ~object_exists)
  <2>1. /\ phase = "scan" /\ phase' = "ready" /\ len' = size /\ Scanned
        /\ UNCHANGED <<keys, blocks, segments, stream, cache, readers, received>>
    BY <1>2 DEF Finish
  <2>2. size \in 0..MaxBytes
    BY StreamImageAssumption
  <2>3. Types' /\ MapFits' /\ KeysFit'
    BY <2>1, <2>2 DEF Inv, Scanned, Types, MapFits, KeysFit
  <2>4. cache = Absent /\ \A r \in Reader : readers[r] = Idle
    BY <2>1 DEF Inv, Quiet
  <2>5. CacheFits' /\ Quiet' /\ ReadersFit'
    BY <2>1, <2>4, IdleFacts DEF CacheFits, Quiet, ReadersFit, ReaderFits
  <2> QED BY <2>3, <2>5 DEF Inv
<1> QED BY <1>1, <1>2

\* The object is replaced or freed: the map and the file are empty.
LEMMA ObjectKeeps ==
    ASSUME Inv, FreeObjects \/ \E type \in ObjectType : Object(type)
    PROVE  Inv'
<1>1. /\ phase = "scan"
      /\ UNCHANGED <<phase, open, current_key, keys, blocks, len, stream, cache,
                     readers>>
      /\ \/ segments' = {} /\ received' = [b \in Pos |-> Zero]
         \/ segments' = segments /\ received' = received
  BY DEF FreeObjects, Object
<1>2. Types' /\ KeysFit'
  BY <1>1 DEF Inv, Types, KeysFit
<1>3. MapFits'
  BY <1>1, EmptyGood DEF Inv, MapFits
<1>4. CacheFits' /\ Quiet' /\ ReadersFit'
  BY <1>1, ScanKeeps DEF Inv, Types
<1> QED BY <1>2, <1>3, <1>4 DEF Inv

LEMMA FreeKeeps ==
    ASSUME Inv, NEW offset \in Pos,
           NEW length \in 0..(MaxBytes - offset) \cup {U64Max}, Free(offset, length)
    PROVE  Inv'
<1>1. /\ phase = "scan"
      /\ UNCHANGED <<phase, open, current_key, keys, blocks, len, stream, cache,
                     readers>>
      /\ segments' = Remove(segments, offset, length)
      /\ received' = Received(offset, RangeEnd(offset, length), Absent)
  BY DEF Free, indexing
<1>2. Types' /\ KeysFit'
  BY <1>1 DEF Inv, Types, KeysFit
<1>3. ValidRange(offset, length)
  BY StreamImageAssumption DEF ValidRange, Pos
<1>4. \A b \in Pos : received'[b] = IF offset <= b /\ b < RangeEnd(offset, length)
                                    THEN Zero ELSE received[b]
  BY <1>1 DEF Received, Extent
<1>5. MapFits'
  BY <1>1, <1>3, <1>4, RemoveGood DEF Inv, Types, MapFits
<1>6. CacheFits' /\ Quiet' /\ ReadersFit'
  BY <1>1, ScanKeeps DEF Inv, Types
<1> QED BY <1>2, <1>5, <1>6 DEF Inv

\* A record with a payload: the map gets its block and the reference its bytes.
LEMMA DescribeFacts ==
    ASSUME Inv, NEW size \in 1..MaxBytes, NEW k, Describe(size, k),
           k = 0 \/ k = current_key, k # 0 => current_key # Absent
    PROVE  LET d == [logical_len |-> size, key_index |-> k,
                     sealed |-> IF current_key = Absent THEN Absent ELSE open]
           IN  /\ d \in BlockDescriptor /\ blocks' = Append(blocks, d)
               /\ k # 0 => k \in 1..Len(keys) /\ keys[k] = d.sealed
               /\ stream' = Append(stream, "indexed")
               /\ Len(blocks) < MaxWrites
BY DEF Describe, Inv, Types, KeysFit, BlockDescriptor

LEMMA DescribeKeeps ==
    ASSUME Inv, NEW size \in 1..MaxBytes, NEW k, Describe(size, k),
           k = 0 \/ k = current_key, k # 0 => current_key # Absent,
           phase = "scan",
           UNCHANGED <<phase, open, current_key, keys, len, cache, readers>>
    PROVE  /\ Types' /\ KeysFit' /\ CacheFits' /\ Quiet' /\ ReadersFit'
           /\ GoodMap(segments, blocks', received)
           /\ Len(blocks') = Len(blocks) + 1 /\ Len(blocks') \in BlockId
           /\ blocks'[Len(blocks')].logical_len = size
<1> DEFINE d == [logical_len |-> size, key_index |-> k,
                 sealed |-> IF current_key = Absent THEN Absent ELSE open]
<1>1. /\ d \in BlockDescriptor /\ blocks' = Append(blocks, d)
      /\ k # 0 => k \in 1..Len(keys) /\ keys[k] = d.sealed
      /\ stream' = Append(stream, "indexed") /\ Len(blocks) < MaxWrites
  BY DescribeFacts
<1>2. d.logical_len = size /\ d.key_index = k
  OBVIOUS
<1> HIDE DEF d
<1>3. /\ Descriptors(blocks') /\ GoodMap(segments, blocks', received)
      /\ Len(blocks') = Len(blocks) + 1 /\ blocks'[Len(blocks) + 1] = d
      /\ \A i \in 1..Len(blocks) : blocks'[i] = blocks[i]
  BY <1>1, AppendGood DEF Inv, Types, MapFits
<1>4. Len(blocks) \in Nat /\ MaxWrites \in Nat
  BY StreamImageAssumption DEF Inv, Types, Descriptors
<1>5. stream' \in Seq({"indexed", "changed"}) /\ Len(stream') = Len(stream) + 1
  BY <1>1 DEF Inv, Types
<1>6. Types'
  BY <1>1, <1>3, <1>4, <1>5 DEF Inv, Types
<1>7. KeysFit'
  BY <1>1, <1>2, <1>3, <1>4 DEF Inv, KeysFit
<1>8. CacheFits' /\ Quiet' /\ ReadersFit'
  BY ScanKeeps DEF Inv, Types
<1> QED BY <1>1, <1>2, <1>3, <1>4, <1>6, <1>7, <1>8 DEF BlockId

LEMMA WriteKeeps ==
    ASSUME Inv, NEW offset \in Pos, NEW size \in 1..(MaxBytes - offset),
           Write(offset, size)
    PROVE  Inv'
<1>1. CASE ~object_exists
  BY <1>1, BuildFailsKeeps DEF Write
<1>2. CASE object_exists
  <2> DEFINE k == IF current_key = Absent THEN 0 ELSE current_key
  <2>1. /\ phase = "scan" /\ Describe(size, k)
        /\ segments' = Insert(segments, offset, size, Len(blocks'))
        /\ received' = Received(offset, offset + size, Len(blocks'))
        /\ UNCHANGED <<phase, open, current_key, keys, len, cache, readers>>
    BY <1>2 DEF Write, indexing
  <2>2. size \in 1..MaxBytes /\ MaxBytes \in Nat /\ offset \in Nat
    BY StreamImageAssumption DEF Pos
  <2>3. (k = 0 \/ k = current_key) /\ (k # 0 => current_key # Absent)
    OBVIOUS
  <2> HIDE DEF k
  <2>4. /\ Types' /\ KeysFit' /\ CacheFits' /\ Quiet' /\ ReadersFit'
        /\ GoodMap(segments, blocks', received)
        /\ Len(blocks') = Len(blocks) + 1 /\ Len(blocks') \in BlockId
        /\ blocks'[Len(blocks')].logical_len = size
    BY <2>1, <2>2, <2>3, DescribeKeeps
  <2>5. \A b \in Pos : received'[b] = IF offset <= b /\ b < offset + size
                                      THEN <<Len(blocks'), b - offset>> ELSE received[b]
    <3>1. Len(blocks') # Absent
      BY <2>4, StreamImageAssumption DEF BlockId
    <3> QED BY <2>1, <3>1 DEF Received, Extent
  <2>6. Descriptors(blocks') /\ Len(blocks') \in 1..Len(blocks')
    BY <2>4 DEF Types, BlockId
  <2>7. GoodMap(Insert(segments, offset, size, Len(blocks')), blocks', received')
    BY <2>2, <2>4, <2>5, <2>6, InsertGood
  <2> QED BY <2>1, <2>4, <2>7 DEF Inv, MapFits
<1> QED BY <1>1, <1>2

LEMMA WriteEmbeddedKeeps ==
    ASSUME Inv, NEW offset \in Pos, NEW length \in 1..(MaxBytes - offset),
           NEW size \in 1..(MaxBytes - offset), WriteEmbedded(offset, length, size)
    PROVE  Inv'
<1>1. CASE current_key # Absent
  BY <1>1, BuildFailsKeeps DEF WriteEmbedded
<1>2. CASE current_key = Absent
  <2> DEFINE stored == IF size < length THEN size ELSE length
             id == Len(blocks')
             cut == Remove(segments, offset, length)
             rec1 == [b \in Pos |-> IF offset <= b /\ b < offset + length
                                    THEN Zero ELSE received[b]]
  <2>1. /\ phase = "scan" /\ Describe(size, 0)
        /\ segments' = Insert(cut, offset, stored, id)
        /\ received' = [b \in Pos |->
                          IF b \in Extent(offset + stored, offset + length) THEN Zero
                          ELSE Received(offset, offset + stored, id)[b]]
        /\ UNCHANGED <<phase, open, current_key, keys, len, cache, readers>>
    BY <1>2 DEF WriteEmbedded, indexing
  <2>2. /\ size \in 1..MaxBytes /\ MaxBytes \in Nat /\ offset \in Nat /\ length \in Nat
        /\ stored \in 1..(MaxBytes - offset) /\ stored <= size /\ stored <= length
        /\ length # U64Max /\ offset + length <= MaxBytes
    BY StreamImageAssumption DEF Pos
  <2>3. \A b \in Pos : b \in Nat
    BY DEF Pos
  <2> HIDE DEF stored
  <2>4. /\ Types' /\ KeysFit' /\ CacheFits' /\ Quiet' /\ ReadersFit'
        /\ GoodMap(segments, blocks', received)
        /\ id = Len(blocks) + 1 /\ id \in BlockId
        /\ blocks'[id].logical_len = size
    BY <2>1, <2>2, DescribeKeeps
  <2>5. id # Absent
    BY <2>4, StreamImageAssumption DEF BlockId
  <2>6. Descriptors(blocks') /\ id \in 1..Len(blocks')
    BY <2>4 DEF Types, BlockId
  <2>7. ValidRange(offset, length) /\ RangeEnd(offset, length) = offset + length
    BY <2>2 DEF ValidRange, RangeEnd
  <2>8. GoodMap(cut, blocks', rec1)
    BY <2>4, <2>6, <2>7, RemoveGood
  <2> HIDE DEF cut, id
  <2>9. \A b \in Pos : received'[b] = IF offset <= b /\ b < offset + stored
                                      THEN <<id, b - offset>> ELSE rec1[b]
    <3> SUFFICES ASSUME NEW b \in Pos
                 PROVE  received'[b] = IF offset <= b /\ b < offset + stored
                                       THEN <<id, b - offset>> ELSE rec1[b]
      OBVIOUS
    <3>1. received'[b] = IF offset + stored <= b /\ b < offset + length THEN Zero
                         ELSE IF offset <= b /\ b < offset + stored
                         THEN <<id, b - offset>> ELSE received[b]
      BY <2>1, <2>5 DEF Received, Extent
    <3>2. b \in Nat /\ stored \in Nat /\ offset \in Nat /\ length \in Nat
          /\ stored <= length
      BY <2>2, <2>3
    <3> QED BY <3>1, <3>2
  <2>10. GoodMap(Insert(cut, offset, stored, id), blocks', received')
    BY <2>2, <2>4, <2>6, <2>8, <2>9, InsertGood
  <2> QED BY <2>1, <2>4, <2>10 DEF Inv, MapFits
<1> QED BY <1>1, <1>2

-----------------------------------------------------------------------------
(* read_exact_at.                                                          *)

LEMMA ChangeKeeps ==
    ASSUME Inv, NEW i \in DOMAIN stream, Change(i)
    PROVE  Inv'
<1>1. /\ stream' = [stream EXCEPT ![i] = "changed"]
      /\ UNCHANGED <<phase, open, current_key, keys, blocks, segments, len, cache,
                     readers, received>>
  BY DEF Change, indexing, image
<1>2. stream \in Seq({"indexed", "changed"})
  BY DEF Inv, Types
<1>3. /\ stream' \in Seq({"indexed", "changed"}) /\ Len(stream') = Len(stream)
      /\ \A j \in 1..Len(stream) : stream[j] = "changed" => stream'[j] = "changed"
  BY <1>1, <1>2
<1>4. Types' /\ MapFits' /\ KeysFit' /\ Quiet'
  BY <1>1, <1>3 DEF Inv, Types, MapFits, KeysFit, Quiet
<1>5. CacheFits'
  BY <1>1 DEF Inv, CacheFits, Payload
<1>6. ReadersFit'
  BY <1>1, <1>3 DEF Inv, ReadersFit, ReaderFits, Extent
<1> QED BY <1>4, <1>5, <1>6 DEF Inv

\* A step of one reader that leaves the image and the cache alone.
LEMMA ReaderKeeps ==
    ASSUME Inv, NEW r \in Reader, NEW rd, rd \in ReaderState, ReaderFits(rd),
           phase = "ready", readers' = [readers EXCEPT ![r] = rd],
           CacheFits',
           UNCHANGED <<phase, indexing, image, stream, received>>
    PROVE  Inv'
<1>1. UNCHANGED <<phase, open, current_key, keys, blocks, segments, len, stream, received>>
  BY DEF indexing, image
<1>2. Types' /\ MapFits' /\ KeysFit' /\ Quiet'
  BY <1>1 DEF Inv, Types, MapFits, KeysFit, Quiet
<1>3. ASSUME NEW q \in Reader PROVE ReaderFits(readers[q])'
  <2>1. readers'[q] = rd \/ readers'[q] = readers[q]
    BY DEF Inv, Types
  <2> QED BY <1>1, <2>1 DEF Inv, ReadersFit, ReaderFits, Extent
<1> QED BY <1>2, <1>3 DEF Inv, ReadersFit

LEMMA StartReadKeeps ==
    ASSUME Inv, NEW r \in Reader, NEW offset \in 0..(MaxBytes + 1),
           NEW end \in 0..(MaxBytes + 1), offset <= end, StartRead(r, offset, end)
    PROVE  Inv'
<1> DEFINE todo == IF offset = end THEN {}
                   ELSE {s \in segments : s.start < end /\ s.end > offset}
           rd == IF end > len THEN [Idle EXCEPT !.pc = "refused"]
                 ELSE [Idle EXCEPT !.pc = "next", !.offset = offset, !.end = end,
                                   !.todo = todo]
<1>1. /\ phase = "ready" /\ readers' = [readers EXCEPT ![r] = rd]
      /\ UNCHANGED <<phase, indexing, image, stream, cache, received>>
  BY DEF StartRead
<1>2. CacheFits'
  BY <1>1 DEF Inv, CacheFits, Payload, image
<1>3. MaxBytes \in Nat /\ len \in 0..MaxBytes /\ todo \in SUBSET Segment
  BY StreamImageAssumption DEF Inv, Types, MapFits, GoodMap, Fit, Sized
<1>4. CASE end > len
  <2>1. rd \in ReaderState /\ rd.pc = "refused"
    BY <1>4, IdleFacts DEF ReaderState
  <2> HIDE DEF rd
  <2> QED BY <1>1, <1>2, <2>1, ReaderKeeps DEF ReaderFits
<1>5. CASE ~(end > len)
  <2> HIDE DEF todo
  <2>1. offset \in 0..MaxBytes /\ end \in 0..MaxBytes
    BY <1>3, <1>5
  <2>2. /\ rd \in ReaderState /\ rd.pc = "next" /\ rd.offset = offset /\ rd.end = end
        /\ rd.todo = todo /\ rd.buffer = [b \in Pos |-> Zero]
    <3>1. Idle.buffer = [b \in Pos |-> Zero]
      BY DEF Idle
    <3> QED BY <1>3, <1>5, <2>1, <3>1, IdleFacts DEF ReaderState
  <2> HIDE DEF rd
  <2>3. ASSUME NEW b \in Extent(offset, end)
        PROVE  rd.buffer[b] = received[b] \/ \E s \in todo : Covers(s, b)
    <3>1. b \in Pos /\ b \in Nat /\ offset <= b /\ b < end
      BY DEF Extent, Pos
    <3>2. CASE \A s \in segments : ~Covers(s, b)
      <4>1. received[b] = Zero
        BY <3>1, <3>2 DEF Inv, MapFits, GoodMap, ReadsAs
      <4> QED BY <2>2, <3>1, <4>1
    <3>3. ASSUME NEW s \in segments, Covers(s, b)
          PROVE  s \in todo
      <4>1. Sized(s)
        BY DEF Inv, MapFits, GoodMap, Fit
      <4> QED BY <2>1, <3>1, <3>3, <4>1, SizedFacts DEF Covers, todo
    <3> QED BY <3>2, <3>3
  <2>4. todo \subseteq segments
    BY DEF todo
  <2>5. ReaderFits(rd)
    BY <2>2, <2>3, <2>4 DEF ReaderFits
  <2> QED BY <1>1, <1>2, <2>2, <2>5, ReaderKeeps
<1> QED BY <1>4, <1>5

\* The next segment of a read is one of those still to do.
LEMMA NextSegmentFacts ==
    ASSUME NEW todo \in SUBSET Segment, todo # {}
    PROVE  NextSegment(todo) \in todo
<1> DEFINE starts == {s.start : s \in todo}
<1>1. starts \in SUBSET Nat /\ starts # {}
  BY DEF Segment, Pos
<1> HIDE DEF starts
<1>2. PICK x \in starts : \A y \in starts : x <= y
  BY <1>1, LeastNat
<1>3. \E s \in todo : \A t \in todo : s.start <= t.start
  BY <1>2 DEF starts
<1> QED BY <1>3 DEF NextSegment

\* A block that can be decoded is a sequence of logical_len bytes.
LEMMA PayloadFacts ==
    ASSUME Inv, NEW id \in 1..Len(blocks)
    PROVE  /\ blocks[id].logical_len \in 1..MaxBytes
           /\ Len(Payload(id)) = blocks[id].logical_len
           /\ Payload(id) \in [1..blocks[id].logical_len -> (0..MaxWrites) \X (0..MaxBytes)]
           /\ Payload(id) # Absent
           /\ \A i \in 1..blocks[id].logical_len :
                 Payload(id)[i] = <<id, i - 1>> /\ Payload(id)[i] \in Byte
<1> DEFINE n == blocks[id].logical_len
<1>1. /\ MaxBytes \in Nat /\ MaxWrites \in Nat /\ Len(blocks) \in Nat
      /\ Len(blocks) <= MaxWrites /\ n \in 1..MaxBytes
  <2>1. blocks[id] \in BlockDescriptor
    BY DEF Inv, Types, Descriptors
  <2> QED BY <2>1, StreamImageAssumption DEF Inv, Types, Descriptors, BlockDescriptor
<1>2. Payload(id) = [i \in 1..n |-> <<id, i - 1>>]
  BY DEF Payload
<1> HIDE DEF n
<1>3. \A i \in 1..n : /\ i - 1 \in 0..MaxBytes /\ i - 1 \in Pos
                      /\ id \in BlockId /\ id \in 0..MaxWrites
  BY <1>1 DEF Pos, BlockId
<1>4. Payload(id) \in [1..n -> (0..MaxWrites) \X (0..MaxBytes)]
  BY <1>2, <1>3
<1>5. Len(Payload(id)) = n
  BY <1>1, <1>2
<1>6. Payload(id) # Absent
  BY <1>1, <1>4, StreamImageAssumption
<1>7. \A i \in 1..n : Payload(id)[i] = <<id, i - 1>> /\ Payload(id)[i] \in Byte
  BY <1>2, <1>3 DEF Byte
<1> QED BY <1>1, <1>4, <1>5, <1>6, <1>7 DEF n

\* Copying a block over a segment of it never runs past the block's end, and
\* puts the received bytes in the buffer.
LEMMA CopiedFits ==
    ASSUME Inv, NEW rd, rd \in ReaderState, ReaderFits(rd), rd.pc \in {"next", "load"},
           NEW s, s \in rd.todo
    PROVE  LET new == Copied(rd, s, Payload(s.block))
           IN  new \in ReaderState /\ ReaderFits(new)
<1> DEFINE from == IF s.start > rd.offset THEN s.start ELSE rd.offset
           to == IF s.end < rd.end THEN s.end ELSE rd.end
           source == s.block_offset + from - s.start
           bytes == Payload(s.block)
           n == blocks[s.block].logical_len
           buffer == [b \in Pos |-> IF b \in Extent(from, to)
                                    THEN bytes[source + (b - from) + 1]
                                    ELSE rd.buffer[b]]
           new == Copied(rd, s, bytes)
<1>1. /\ Fit(s, blocks) /\ s \in segments
  BY DEF ReaderFits, Inv, MapFits, GoodMap
<1>2. /\ s.start \in Nat /\ s.end \in Nat /\ s.block_offset \in Nat
      /\ s.start < s.end /\ s.block \in 1..Len(blocks)
      /\ s.block_offset + (s.end - s.start) <= n
  BY <1>1, SizedFacts DEF Fit
<1>3. rd.offset \in Nat /\ rd.end \in Nat /\ rd.todo \in SUBSET Segment
      /\ rd.buffer \in [Pos -> Byte]
  BY StreamImageAssumption DEF ReaderState
<1>4. /\ n \in Nat /\ Len(bytes) = n
      /\ \A i \in 1..n : bytes[i] = <<s.block, i - 1>> /\ bytes[i] \in Byte
  <2>1. n \in 1..MaxBytes /\ MaxBytes \in Nat
    BY <1>2, PayloadFacts, StreamImageAssumption
  <2>2. n \in Nat
    BY <2>1
  <2> QED BY <1>2, <2>2, PayloadFacts
<1> HIDE DEF bytes, n
<1>5. /\ from \in Nat /\ to \in Nat /\ s.start <= from /\ to <= s.end
      /\ rd.offset <= from /\ to <= rd.end /\ source \in Nat
      /\ \A b \in Nat : b < to /\ from <= b <=>
            rd.offset <= b /\ b < rd.end /\ s.start <= b /\ b < s.end
  <2>1. /\ from \in Nat /\ to \in Nat /\ s.start <= from /\ to <= s.end
        /\ rd.offset <= from /\ to <= rd.end
    BY <1>2, <1>3
  <2>2. (from = s.start \/ from = rd.offset) /\ (to = s.end \/ to = rd.end)
    OBVIOUS
  <2> HIDE DEF from, to
  <2>3. source \in Nat
    BY <1>2, <2>1
  <2>4. \A b \in Nat : b < to /\ from <= b <=>
            rd.offset <= b /\ b < rd.end /\ s.start <= b /\ b < s.end
    BY <1>2, <1>3, <2>1, <2>2
  <2> QED BY <2>1, <2>3, <2>4
<1>6. source + (to - from) <= n
  <2> HIDE DEF from, to
  <2>1. source + (to - from) <= s.block_offset + (s.end - s.start)
    <3>1. source + (to - from) = s.block_offset + (to - s.start)
      BY <1>2, <1>5
    <3>2. to - s.start <= s.end - s.start
      BY <1>2, <1>5
    <3> QED BY <1>2, <1>5, <3>1, <3>2, SMTT(30)
  <2> QED BY <1>2, <1>4, <1>5, <2>1, SMTT(30)
<1>7. new = [rd EXCEPT !.pc = "next", !.todo = rd.todo \ {s}, !.buffer = buffer]
  BY <1>4, <1>5, <1>6 DEF Copied
<1>8. ASSUME NEW b \in Pos, b \in Extent(from, to)
      PROVE  /\ buffer[b] = <<s.block, s.block_offset + (b - s.start)>>
             /\ buffer[b] \in Byte /\ buffer[b] = received[b]
  <2>1. b \in Nat /\ from <= b /\ b < to
    BY <1>8 DEF Extent, Pos
  <2>2. source + (b - from) + 1 \in 1..n
    BY <1>4, <1>5, <1>6, <2>1, SMTT(30)
  <2>4. buffer[b] = bytes[source + (b - from) + 1]
    BY <1>8
  <2>5. Covers(s, b)
    BY <1>5, <2>1 DEF Covers
  <2>6. received[b] = <<s.block, s.block_offset + (b - s.start)>>
    BY <1>1, <2>5 DEF Inv, MapFits, GoodMap, ReadsAs
  <2> HIDE DEF buffer, source
  <2> DEFINE i == source + (b - from) + 1
  <2>7. i \in 1..n /\ buffer[b] = bytes[i]
    BY <2>2, <2>4
  <2> HIDE DEF i
  <2>8. buffer[b] = <<s.block, i - 1>> /\ buffer[b] \in Byte
    BY <1>4, <2>7
  <2>9. i - 1 = s.block_offset + (b - s.start)
    <3> HIDE DEF from, to
    <3> QED BY <1>2, <1>5, <2>1, SMTT(20) DEF i, source
  <2> QED BY <2>6, <2>8, <2>9
<1>9. \A b \in Pos : b \notin Extent(from, to) => buffer[b] = rd.buffer[b]
  OBVIOUS
<1>10. buffer \in [Pos -> Byte]
  <2>1. \A b \in Pos : buffer[b] \in Byte
    BY <1>3, <1>8, <1>9
  <2>2. buffer = [b \in Pos |-> buffer[b]]
    OBVIOUS
  <2> HIDE DEF buffer
  <2> QED BY <2>1, <2>2
<1> HIDE DEF buffer, new
<1>11. /\ new \in ReaderState /\ new.pc = "next" /\ new.todo = rd.todo \ {s}
       /\ new.buffer = buffer /\ new.offset = rd.offset /\ new.end = rd.end
  BY <1>3, <1>7, <1>10 DEF ReaderState
<1>12. ASSUME NEW b \in Extent(rd.offset, rd.end)
       PROVE  buffer[b] = received[b] \/ \E t \in rd.todo \ {s} : Covers(t, b)
  <2>1. b \in Pos /\ b \in Nat /\ rd.offset <= b /\ b < rd.end
    BY DEF Extent, Pos
  <2>2. CASE b \in Extent(from, to)
    BY <1>8, <2>1, <2>2
  <2>3. CASE b \notin Extent(from, to)
    <3>1. ~Covers(s, b)
      BY <1>5, <2>1, <2>3 DEF Extent, Covers
    <3> QED BY <1>9, <2>1, <2>3, <3>1 DEF ReaderFits
  <2> QED BY <2>2, <2>3
<1>13. ReaderFits(new)
  BY <1>11, <1>12 DEF ReaderFits
<1> QED BY <1>11, <1>13 DEF new, bytes

LEMMA LookupKeeps ==
    ASSUME Inv, NEW r \in Reader, Lookup(r)
    PROVE  Inv'
<1> DEFINE rd == readers[r]
           s == NextSegment(rd.todo)
<1>1. rd \in ReaderState /\ ReaderFits(rd) /\ rd.pc = "next" /\ rd.todo # {}
  BY DEF Inv, Types, ReadersFit, Lookup
<1>2. s \in rd.todo
  BY <1>1, NextSegmentFacts DEF ReaderState
<1>3. phase = "ready"
  BY <1>1, IdleFacts DEF Inv, Quiet
<1>4. UNCHANGED <<phase, indexing, image, stream, cache, received>>
  BY DEF Lookup
<1>5. CacheFits'
  BY <1>4 DEF Inv, CacheFits, Payload, image
<1>6. CASE cache # Absent /\ cache.id = s.block
  <2>1. readers' = [readers EXCEPT ![r] = Copied(rd, s, Payload(s.block))]
    BY <1>6 DEF Lookup, Inv, CacheFits
  <2> HIDE DEF rd, s
  <2>2. Copied(rd, s, Payload(s.block)) \in ReaderState
        /\ ReaderFits(Copied(rd, s, Payload(s.block)))
    BY <1>1, <1>2, CopiedFits
  <2> QED BY <1>3, <1>4, <1>5, <2>1, <2>2, ReaderKeeps
<1>7. CASE ~(cache # Absent /\ cache.id = s.block)
  <2>1. readers' = [readers EXCEPT ![r] = [rd EXCEPT !.pc = "load"]]
    BY <1>7 DEF Lookup
  <2> HIDE DEF rd
  <2>2. /\ [rd EXCEPT !.pc = "load"] \in ReaderState
        /\ ReaderFits([rd EXCEPT !.pc = "load"])
    BY <1>1 DEF ReaderState, ReaderFits
  <2> QED BY <1>3, <1>4, <1>5, <2>1, <2>2, ReaderKeeps
<1> QED BY <1>6, <1>7

\* Only a change of the stream file makes an indexed block undecodable.
LEMMA DecodedFacts ==
    ASSUME Inv, NEW id \in 1..Len(blocks)
    PROVE  /\ stream[id] # "changed" => Decoded(id) = Payload(id)
           /\ stream[id] = "changed" => Decoded(id) = Absent
BY DEF Inv, KeysFit, Decoded, Payload

LEMMA LoadKeeps ==
    ASSUME Inv, NEW r \in Reader, Load(r)
    PROVE  Inv'
<1> DEFINE rd == readers[r]
           s == NextSegment(rd.todo)
<1>1. rd \in ReaderState /\ ReaderFits(rd) /\ rd.pc = "load" /\ rd.todo # {}
  BY DEF Inv, Types, ReadersFit, ReaderFits, Load
<1>2. s \in rd.todo
  BY <1>1, NextSegmentFacts DEF ReaderState
<1>3. phase = "ready"
  BY <1>1, IdleFacts DEF Inv, Quiet
<1>4. UNCHANGED <<phase, indexing, image, stream, received>>
  BY DEF Load
<1>5. s.block \in 1..Len(blocks)
  BY <1>1, <1>2 DEF ReaderFits, Inv, MapFits, GoodMap, Fit
<1>6. Payload(s.block) # Absent
  BY <1>5, PayloadFacts
<1>7. CASE stream[s.block] = "changed"
  <2>1. /\ readers' = [readers EXCEPT ![r] = [Idle EXCEPT !.pc = "failed"]]
        /\ UNCHANGED cache
    BY <1>5, <1>7, DecodedFacts DEF Load
  <2>2. CacheFits'
    BY <1>4, <2>1 DEF Inv, CacheFits, Payload, image
  <2>3. [Idle EXCEPT !.pc = "failed"] \in ReaderState
        /\ ReaderFits([Idle EXCEPT !.pc = "failed"])
    <3>1. [Idle EXCEPT !.pc = "failed"] \in ReaderState
          /\ [Idle EXCEPT !.pc = "failed"].pc = "failed"
      BY IdleFacts DEF ReaderState
    <3>2. \E id \in 1..Len(stream) : stream[id] = "changed"
      BY <1>5, <1>7 DEF Inv, Types
    <3> QED BY <3>1, <3>2 DEF ReaderFits
  <2> QED BY <1>3, <1>4, <2>1, <2>2, <2>3, ReaderKeeps
<1>8. CASE stream[s.block] # "changed"
  <2>1. /\ readers' = [readers EXCEPT ![r] = Copied(rd, s, Payload(s.block))]
        /\ cache' = [id |-> s.block, bytes |-> Payload(s.block)]
    BY <1>5, <1>6, <1>8, DecodedFacts DEF Load
  <2> HIDE DEF rd, s
  <2>2. CacheFits'
    BY <1>4, <1>5, <2>1 DEF CacheFits, Payload, image
  <2>3. Copied(rd, s, Payload(s.block)) \in ReaderState
        /\ ReaderFits(Copied(rd, s, Payload(s.block)))
    BY <1>1, <1>2, CopiedFits
  <2> QED BY <1>3, <1>4, <2>1, <2>2, <2>3, ReaderKeeps
<1> QED BY <1>7, <1>8

LEMMA ReturnKeeps ==
    ASSUME Inv, NEW r \in Reader, Return(r)
    PROVE  Inv'
<1>1. phase = "ready"
  BY IdleFacts DEF Return, Inv, Quiet
<1>2. /\ readers' = [readers EXCEPT ![r] = Idle]
      /\ UNCHANGED <<phase, indexing, image, stream, cache, received>>
  BY DEF Return
<1>3. CacheFits'
  BY <1>2 DEF Inv, CacheFits, Payload, image
<1>4. ReaderFits(Idle)
  BY IdleFacts DEF ReaderFits
<1> QED BY <1>1, <1>2, <1>3, <1>4, IdleFacts, ReaderKeeps

-----------------------------------------------------------------------------
LEMMA NextInv == Inv /\ [Next]_vars => Inv'
<1> SUFFICES ASSUME Inv, [Next]_vars PROVE Inv'
  OBVIOUS
<1>1. ASSUME NEW guid \in Guid, BeginLocked(guid) PROVE Inv'
  BY <1>1, BuildFailsKeeps DEF BeginLocked
<1>2. ASSUME Unsupported PROVE Inv'
  BY <1>2, BuildFailsKeeps DEF Unsupported
<1>3. CASE Next
  BY <1>1, <1>2, <1>3, BeginKeeps, EndKeeps, ObjectKeeps, WriteKeeps,
     WriteEmbeddedKeeps, FreeKeeps, FinishKeeps, ChangeKeeps, StartReadKeeps,
     LookupKeeps, LoadKeeps, ReturnKeeps DEF Next
<1>4. CASE UNCHANGED vars
  BY <1>4 DEF vars, indexing, image, Inv, Types, MapFits, KeysFit, CacheFits,
              Payload, Quiet, ReadersFit, ReaderFits, Extent
<1> QED BY <1>3, <1>4

LEMMA InvHolds == Spec => []Inv
BY InitInv, NextInv, PTL DEF Spec

\* The segments that SegmentMap::remove and insert leave never overlap and
\* never reach past the end of what their payload decodes to.
THEOREM ImageSegmentsFit == Spec => []SegmentsFit
<1>1. Inv => SegmentsFit
  <2> SUFFICES ASSUME Inv, NEW s \in segments
               PROVE  /\ s.start < s.end
                      /\ s.block \in DOMAIN blocks
                      /\ s.block_offset + (s.end - s.start) <= blocks[s.block].logical_len
                      /\ \A t \in segments : s # t => s.end <= t.start \/ t.end <= s.start
    BY DEF SegmentsFit
  <2>1. Fit(s, blocks) /\ \A t \in segments : s # t => Apart(s, t)
    BY DEF Inv, MapFits, GoodMap
  <2>2. DOMAIN blocks = 1..Len(blocks)
    BY DEF Inv, Types, Descriptors
  <2> QED BY <2>1, <2>2 DEF Fit, Sized, Apart
<1> QED BY <1>1, InvHolds, PTL

\* read_exact_at returns the bytes zfs receive would have put there, and
\* refuses a range of the image only after the stream file has changed, with
\* any number of readers sharing the cached block.
THEOREM ImageReadsAreReceived == Spec => []ReadsAreReceived
<1>1. Inv => ReadsAreReceived
  <2> SUFFICES ASSUME Inv, NEW r \in Reader
               PROVE  /\ readers[r].pc = "next" /\ readers[r].todo = {} =>
                            \A b \in Extent(readers[r].offset, readers[r].end) :
                                readers[r].buffer[b] = received[b]
                      /\ readers[r].pc = "failed" =>
                            \E id \in DOMAIN stream : stream[id] = "changed"
    BY DEF ReadsAreReceived
  <2>1. ReaderFits(readers[r]) /\ DOMAIN stream = 1..Len(stream)
    BY DEF Inv, Types, ReadersFit
  <2> QED BY <2>1 DEF ReaderFits
<1> QED BY <1>1, InvHolds, PTL

-----------------------------------------------------------------------------
(* DiskSession: a disk browsed or opened as a pool member.                 *)

-----------------------------------------------------------------------------
(* Stacks of readers.                                                      *)

Layer == [start : Nat, len : Nat]

\* Each layer starts no earlier than the ones below it.
Stacked(layers) ==
    /\ layers \in Seq(Layer) /\ layers # <<>>
    /\ \A i, j \in 1..Len(layers) : i <= j => layers[i].start <= layers[j].start

LEMMA StackedTop ==
    ASSUME NEW layers, Stacked(layers)
    PROVE  /\ Len(layers) \in Nat \ {0} /\ DOMAIN layers = 1..Len(layers)
           /\ LenOf(layers) \in Nat /\ Start(layers, Len(layers)) \in Nat
           /\ \A i \in 1..Len(layers) : /\ layers[i] \in Layer
                                        /\ layers[i].start \in Nat
                                        /\ layers[i].len \in Nat
                                        /\ layers[i].start <= Start(layers, Len(layers))
<1>1. layers \in Seq(Layer) /\ Len(layers) \in Nat \ {0} /\ DOMAIN layers = 1..Len(layers)
  BY DEF Stacked
<1>2. Len(layers) \in 1..Len(layers)
  BY <1>1
<1>3. \A i \in 1..Len(layers) : layers[i] \in Layer
  BY <1>1
<1>4. \A i \in 1..Len(layers) : layers[i].start \in Nat /\ layers[i].len \in Nat
  BY <1>3 DEF Layer
<1>5. \A i \in 1..Len(layers) : layers[i].start <= Start(layers, Len(layers))
  BY <1>1, <1>2 DEF Stacked, Start
<1> QED BY <1>1, <1>2, <1>3, <1>4, <1>5 DEF LenOf, Start

LEMMA WithinStacked ==
    ASSUME NEW layers, Stacked(layers), NEW offset \in Nat, NEW size \in Nat
    PROVE  LET w == Within(layers, offset, size)
           IN  /\ Stacked(w) /\ LenOf(w) = size
               /\ Start(w, Len(w)) = Start(layers, Len(layers)) + offset
<1> DEFINE n == Len(layers)
           l == [start |-> Start(layers, n) + offset, len |-> size]
           w == Within(layers, offset, size)
<1>1. /\ n \in Nat \ {0} /\ Start(layers, n) \in Nat
      /\ \A i \in 1..n : layers[i].start \in Nat /\ layers[i].start <= Start(layers, n)
      /\ layers \in Seq(Layer)
  BY StackedTop DEF Stacked
<1>2. l \in Layer /\ l.start = Start(layers, n) + offset /\ l.len = size
  BY <1>1 DEF Layer
<1>3. w = Append(layers, l)
  BY DEF Within
<1> HIDE DEF l
<1>4. /\ w \in Seq(Layer) /\ Len(w) = n + 1 /\ w[n + 1] = l
      /\ \A i \in 1..n : w[i] = layers[i]
  BY <1>1, <1>2, <1>3
<1> HIDE DEF w
<1>5. w # <<>>
  BY <1>1, <1>4
<1>6. ASSUME NEW i \in 1..Len(w), NEW j \in 1..Len(w), i <= j
      PROVE  w[i].start <= w[j].start
  <2>1. CASE j <= n
    <3>1. i \in 1..n /\ j \in 1..n /\ w[i] = layers[i] /\ w[j] = layers[j]
      BY <1>1, <1>4, <1>6, <2>1
    <3> QED BY <1>6, <3>1 DEF Stacked
  <2>2. CASE j > n
    <3>1. j = n + 1 /\ w[j].start = Start(layers, n) + offset
      BY <1>1, <1>2, <1>4, <2>2
    <3>2. CASE i = n + 1
      BY <1>1, <3>1, <3>2
    <3>3. CASE i \in 1..n
      BY <1>1, <1>4, <3>1, <3>3
    <3> QED BY <1>1, <1>4, <3>2, <3>3
  <2> QED BY <1>1, <1>4, <2>1, <2>2
<1>7. Stacked(w)
  BY <1>4, <1>5, <1>6 DEF Stacked
<1>8. LenOf(w) = size /\ Start(w, Len(w)) = Start(layers, n) + offset
  BY <1>2, <1>4 DEF LenOf, Start
<1> QED BY <1>7, <1>8 DEF w

-----------------------------------------------------------------------------
(* Sessions.                                                               *)

\* A volume with a filesystem is a part of its disk.
VolumeType(v) ==
    v.filesystem => v.partition.offset \in Nat /\ v.partition.length \in Nat

SessionOK(s) == Stacked(s.layers) /\ \A v \in s.volumes : VolumeType(v)

LEMMA VolumesType ==
    ASSUME NEW layers, NEW parts
    PROVE  \A v \in Volumes(layers, parts) : VolumeType(v)
BY DEF Volumes, VolumeType, probe_volume, Inside

LEMMA ContainerStacked ==
    ASSUME NEW layers, Stacked(layers), open_disk_container(layers) # None
    PROVE  Stacked(open_disk_container(layers))
<1>1. LenOf(layers) \in Nat
  BY StackedTop
<1>2. LenOf(layers) > 1 => Stacked(Within(layers, 1, LenOf(layers) - 1))
  BY <1>1, WithinStacked
<1> QED BY <1>2 DEF open_disk_container

LEMMA InspectOK ==
    ASSUME NEW layers, Stacked(layers), NEW offset, NEW length,
           inspect_source_at(layers, offset, length) # None
    PROVE  SessionOK(inspect_source_at(layers, offset, length))
<1> DEFINE stored == Within(layers, offset, length)
           virtual == open_disk_container(stored)
           found == discover_partitions(virtual)
           s == inspect_source_at(layers, offset, length)
<1>1. Inside(SourceOf(layers), offset, length) /\ virtual # None
  BY DEF inspect_source_at
<1>2. s = [layers |-> virtual, volumes |-> Volumes(virtual, found.parts)]
  BY <1>1 DEF inspect_source_at
<1>3. Stacked(stored)
  BY <1>1, WithinStacked DEF Inside
<1> HIDE DEF stored
<1>4. Stacked(virtual)
  BY <1>1, <1>3, ContainerStacked
<1> HIDE DEF virtual, found
<1>5. SessionOK(s)
  BY <1>2, <1>4, VolumesType DEF SessionOK
<1> QED BY <1>5

\* A volume that was selected has a filesystem.
LEMMA SelectedStacked ==
    ASSUME NEW s, SessionOK(s), NEW selector, NEW v \in select_volume(s, selector)
    PROVE  Stacked(volume_source(s, v))
<1>1. v \in s.volumes /\ v.filesystem
  BY DEF select_volume
<1>2. v.partition.offset \in Nat /\ v.partition.length \in Nat
  BY <1>1 DEF SessionOK, VolumeType
<1> QED BY <1>2, WithinStacked DEF volume_source, SessionOK

LEMMA ConcatFacts ==
    ASSUME NEW s \in Seq(Nat), NEW t \in Seq(Nat)
    PROVE  /\ s \o t \in Seq(Nat) /\ Len(s \o t) = Len(s) + Len(t)
           /\ \A i \in 1..(Len(s) + Len(t)) :
                 (s \o t)[i] = IF i <= Len(s) THEN s[i] ELSE t[i - Len(s)]
OBVIOUS

\* The bytes read so far are the file's first ones.
CopiedSoFar(t) ==
    /\ t \in [file : {t.file}, force : {t.force}, read : Seq(Nat), layers : {t.layers}]
    /\ Stacked(t.layers)
    /\ Start(t.layers, Len(t.layers)) = t.file.fs + t.file.off
    /\ \A i \in 1..Len(t.read) : t.read[i] = t.file.fs + t.file.off + i - 1

SessionsOK(ss) == \E S : ss \in Seq(S) /\ \A s \in S : SessionOK(s)

ImageInv ==
    /\ disk \in Disks
    /\ SessionsOK(sessions)
    /\ ExtractedIsFile
    /\ target # None => CopiedSoFar(target)

LEMMA SessionsFacts ==
    ASSUME NEW ss, SessionsOK(ss)
    PROVE  /\ ss # <<>> => SessionOK(ss[Len(ss)])
           /\ \A s : SessionOK(s) => SessionsOK(Append(ss, s))
<1>1. PICK S : ss \in Seq(S) /\ \A s \in S : SessionOK(s)
  BY DEF SessionsOK
<1>2. ss # <<>> => ss[Len(ss)] \in S
  BY <1>1
<1>3. ASSUME NEW s, SessionOK(s)
      PROVE  SessionsOK(Append(ss, s))
  <2> DEFINE T == S \cup {s}
  <2>1. ss \in Seq(T)
    BY <1>1
  <2>2. Append(ss, s) \in Seq(T)
    BY <2>1
  <2>3. \A x \in T : SessionOK(x)
    BY <1>1, <1>3
  <2> QED BY <2>2, <2>3 DEF SessionsOK
<1> QED BY <1>1, <1>2, <1>3

LEMMA SessionsIntro ==
    ASSUME NEW S, NEW ss \in Seq(S), \A s \in S : SessionOK(s)
    PROVE  SessionsOK(ss)
BY Zenon DEF SessionsOK

LEMMA NoSessions == SessionsOK(<<>>)
<1> DEFINE S == {}
           ss == <<>>
<1>1. ss \in Seq(S)
  OBVIOUS
<1>2. \A s \in S : SessionOK(s)
  OBVIOUS
<1> HIDE DEF S, ss
<1>3. SessionsOK(ss)
  BY <1>1, <1>2, SessionsIntro
<1> QED BY <1>3 DEF ss

LEMMA OneLayerStacked ==
    ASSUME NEW n \in Nat
    PROVE  LET file == <<[start |-> 0, len |-> n]>>
           IN  Stacked(file) /\ LenOf(file) = n
<1> DEFINE file == <<[start |-> 0, len |-> n]>>
<1>1. [start |-> 0, len |-> n] \in Layer
  BY DEF Layer
<1>2. file \in Seq(Layer) /\ Len(file) = 1 /\ file # <<>> /\ file[1].len = n
  BY <1>1
<1> HIDE DEF file
<1>3. \A i, j \in 1..Len(file) : i = 1 /\ j = 1
  BY <1>2
<1>4. file[1] \in Layer
  BY <1>2
<1>5. file[1].start \in Nat
  BY <1>4 DEF Layer
<1>6. Stacked(file) /\ LenOf(file) = n
  BY <1>2, <1>3, <1>5 DEF Stacked, LenOf
<1> QED BY <1>6 DEF file

LEMMA InspectDiskInv ==
    ASSUME ImageInv, NEW offset, NEW length, InspectDisk(offset, length)
    PROVE  ImageInv'
<1> DEFINE file == <<[start |-> 0, len |-> disk.len]>>
           wanted == WindowLength(file, offset, length)
           s == inspect_source_at(file, offset, wanted)
<1>1. disk.len \in Nat
  BY DiskTablesAssumption DEF ImageInv
<1>2. Stacked(file)
  BY <1>1, OneLayerStacked
<1>3. /\ sessions' = IF s = None THEN <<>> ELSE <<s>>
      /\ target = None /\ target' = None
      /\ disk' = disk /\ output' = output
  BY DEF InspectDisk
<1> HIDE DEF file, wanted
<1>4. s # None => SessionOK(s)
  BY <1>2, InspectOK
<1> HIDE DEF s
<1>5. ASSUME s # None
      PROVE  SessionsOK(<<s>>)
  <2> DEFINE S == {s}
             ss == <<s>>
  <2>1. ss \in Seq(S)
    OBVIOUS
  <2>2. \A x \in S : SessionOK(x)
    BY <1>4, <1>5
  <2> HIDE DEF S, ss
  <2>3. SessionsOK(ss)
    BY <2>1, <2>2, SessionsIntro
  <2> QED BY <2>3 DEF ss
<1>6. SessionsOK(sessions')
  BY <1>3, <1>5, NoSessions
<1> QED BY <1>3, <1>6 DEF ImageInv, ExtractedIsFile

LEMMA InspectChildInv ==
    ASSUME ImageInv, sessions # <<>>, NEW selector, NEW v \in select_volume(Top, selector),
           NEW f \in FilesOf(volume_source(Top, v)), NEW offset, NEW length,
           InspectChild(v, f, offset, length)
    PROVE  ImageInv'
<1> DEFINE file == Within(volume_source(Top, v), f.off, f.len)
           wanted == WindowLength(file, offset, length)
           s == inspect_source_at(file, offset, wanted)
<1>1. f.off \in Nat /\ f.len \in Nat
  BY DiskTablesAssumption, InnerImageAssumption DEF ImageInv, FilesOf
<1>2. Stacked(volume_source(Top, v))
  BY SessionsFacts, SelectedStacked DEF ImageInv, Top
<1>3. Stacked(file)
  BY <1>1, <1>2, WithinStacked
<1>4. /\ s # None /\ sessions' = Append(sessions, s)
      /\ disk' = disk /\ target' = target /\ output' = output
  BY DEF InspectChild
<1> HIDE DEF file, wanted
<1>5. SessionOK(s)
  BY <1>3, <1>4, InspectOK
<1> HIDE DEF s
<1>6. SessionsOK(sessions')
  BY <1>4, <1>5, SessionsFacts DEF ImageInv
<1> QED BY <1>4, <1>6 DEF ImageInv, ExtractedIsFile, CopiedSoFar, Stacked, Start

LEMMA StartExtractInv ==
    ASSUME ImageInv, sessions # <<>>, NEW selector, NEW v \in select_volume(Top, selector),
           NEW f \in FilesOf(volume_source(Top, v)), NEW force, StartExtract(v, f, force)
    PROVE  ImageInv'
<1> DEFINE volume == volume_source(Top, v)
           layers == Within(volume, f.off, f.len)
           t == [file |-> f, force |-> force, read |-> <<>>, layers |-> layers]
<1>1. f.off \in Nat /\ f.len \in Nat /\ f.fs = Start(volume, Len(volume))
  BY DiskTablesAssumption, InnerImageAssumption DEF ImageInv, FilesOf
<1>2. Stacked(volume)
  BY SessionsFacts, SelectedStacked DEF ImageInv, Top
<1>3. Stacked(layers) /\ Start(layers, Len(layers)) = f.fs + f.off
  BY <1>1, <1>2, WithinStacked
<1>4. /\ target' = t
      /\ disk' = disk /\ sessions' = sessions /\ output' = output
  BY DEF StartExtract
<1> HIDE DEF layers
<1>5. /\ t.read \in Seq(Nat) /\ Len(t.read) = 0 /\ t.file = f /\ t.layers = layers
      /\ t \in [file : {t.file}, force : {t.force}, read : Seq(Nat), layers : {t.layers}]
  OBVIOUS
<1> HIDE DEF t
<1>6. \A i \in 1..Len(t.read) : FALSE
  BY <1>5
<1>7. CopiedSoFar(t)
  BY <1>3, <1>5, <1>6 DEF CopiedSoFar
<1> QED BY <1>4, <1>7 DEF ImageInv, ExtractedIsFile

LEMMA ExtractChunkInv ==
    ASSUME ImageInv, NEW n \in Nat, target # None, ExtractChunk(n)
    PROVE  ImageInv'
<1> DEFINE read == target.read
           more == BlocksOf(target.layers, Len(read), n)
           top == Start(target.layers, Len(target.layers))
           t == [target EXCEPT !.read = read \o more]
<1>1. /\ Stacked(target.layers) /\ read \in Seq(Nat)
      /\ top = target.file.fs + target.file.off
      /\ \A i \in 1..Len(read) : read[i] = target.file.fs + target.file.off + i - 1
  BY DEF ImageInv, CopiedSoFar
<1>2. /\ target' = t
      /\ disk' = disk /\ sessions' = sessions /\ output' = output
  BY DEF ExtractChunk
<1>3. top \in Nat /\ Len(read) \in Nat
  BY <1>1, StackedTop
<1>4. more = [k \in 1..n |-> top + Len(read) + k - 1]
  BY DEF BlocksOf
<1> HIDE DEF top, more, read
<1>5. more \in Seq(Nat) /\ Len(more) = n /\ \A k \in 1..n : more[k] = top + Len(read) + k - 1
  <2>1. \A k \in 1..n : top + Len(read) + k - 1 \in Nat
    BY <1>3
  <2> QED BY <1>4, <2>1
<1>6. /\ read \o more \in Seq(Nat) /\ Len(read \o more) = Len(read) + n
      /\ \A i \in 1..(Len(read) + n) : (read \o more)[i] = top + i - 1
  <2>1. /\ read \o more \in Seq(Nat) /\ Len(read \o more) = Len(read) + n
        /\ \A i \in 1..(Len(read) + n) :
              (read \o more)[i] = IF i <= Len(read) THEN read[i] ELSE more[i - Len(read)]
    BY <1>1, <1>5, ConcatFacts
  <2>2. ASSUME NEW i \in 1..(Len(read) + n)
        PROVE  (read \o more)[i] = top + i - 1
    <3>1. CASE i <= Len(read)
      <4>1. i \in 1..Len(read)
        BY <1>3, <3>1
      <4> QED BY <1>1, <2>1, <3>1, <4>1 DEF top
    <3>2. CASE ~(i <= Len(read))
      <4>1. i - Len(read) \in 1..n
        BY <1>3, <3>2
      <4>2. more[i - Len(read)] = top + i - 1
        BY <1>3, <1>5, <4>1
      <4> QED BY <2>1, <3>2, <4>2
    <3> QED BY <3>1, <3>2
  <2> QED BY <2>1, <2>2
<1>7. /\ t \in [file : {t.file}, force : {t.force}, read : Seq(Nat), layers : {t.layers}]
      /\ t.file = target.file /\ t.layers = target.layers /\ t.read = read \o more
  <2>1. target \in [file : {target.file}, force : {target.force}, read : Seq(Nat),
                    layers : {target.layers}]
    BY DEF ImageInv, CopiedSoFar
  <2> QED BY <1>6, <2>1
<1> HIDE DEF t
<1>8. CopiedSoFar(t)
  BY <1>1, <1>6, <1>7 DEF CopiedSoFar, top
<1> QED BY <1>2, <1>8 DEF ImageInv, ExtractedIsFile

LEMMA FinishExtractInv ==
    ASSUME ImageInv, FinishExtract
    PROVE  ImageInv'
<1>1. /\ target # None /\ target' = None /\ CopiedSoFar(target)
      /\ disk' = disk /\ sessions' = sessions
  BY DEF FinishExtract, ImageInv
<1>2. CASE output' = output
  BY <1>1, <1>2 DEF ImageInv, ExtractedIsFile
<1>3. CASE /\ Len(target.read) = target.file.len
           /\ output' = [owner |-> "run", file |-> target.file, blocks |-> target.read]
  <2> DEFINE read == target.read
             file == target.file
  <2>1. /\ read \in Seq(Nat) /\ Len(read) = file.len
        /\ \A i \in 1..Len(read) : read[i] = file.fs + file.off + i - 1
    BY <1>1, <1>3 DEF CopiedSoFar
  <2>2. output'.blocks = read /\ output'.file = file
    BY <1>3
  <2> HIDE DEF read, file
  <2>3. read = [i \in 1..Len(read) |-> read[i]]
    BY <2>1
  <2>4. read = [i \in 1..file.len |-> file.fs + file.off + i - 1]
    BY <2>1, <2>3
  <2>5. ExtractedIsFile'
    BY <2>2, <2>4 DEF ExtractedIsFile
  <2> QED BY <1>1, <2>5 DEF ImageInv
<1> QED BY <1>2, <1>3 DEF FinishExtract

LEMMA AppearInv ==
    ASSUME ImageInv, Appear
    PROVE  ImageInv'
<1>1. /\ disk' = disk /\ sessions' = sessions /\ target' = target
      /\ output' = [owner |-> "other", file |-> None, blocks |-> <<>>]
  BY DEF Appear
<1>2. output'.owner # "run"
  BY <1>1
<1> QED BY <1>1, <1>2 DEF ImageInv, ExtractedIsFile

LEMMA ImageStep ==
    ASSUME ImageInv, [DiskNext]_diskVars
    PROVE  ImageInv'
<1>1. CASE AsPool
  <2>1. /\ disk' = disk /\ target = None /\ target' = None /\ output' = output
        /\ sessions' = <<>>
    BY <1>1 DEF AsPool, NextPool, OpenPool
  <2> QED BY <2>1, NoSessions DEF ImageInv, ExtractedIsFile
<1>2. CASE NextImage
  <2>1. ASSUME NEW w \in Window, InspectDisk(w[1], w[2])
        PROVE  ImageInv'
    BY <2>1, InspectDiskInv
  <2>2. ASSUME sessions # <<>>, NEW selector \in Top.volumes \cup {None},
               NEW v \in select_volume(Top, selector)
        PROVE  \A f \in FilesOf(volume_source(Top, v)) :
                  /\ \A w \in Window : InspectChild(v, f, w[1], w[2]) => ImageInv'
                  /\ \A force \in BOOLEAN : StartExtract(v, f, force) => ImageInv'
    <3>1. \A f \in FilesOf(volume_source(Top, v)) :
             \A w \in Window : InspectChild(v, f, w[1], w[2]) => ImageInv'
      BY <2>2, InspectChildInv
    <3>2. \A f \in FilesOf(volume_source(Top, v)) :
             \A force \in BOOLEAN : StartExtract(v, f, force) => ImageInv'
      BY <2>2, StartExtractInv
    <3> QED BY <3>1, <3>2
  <2>3. ASSUME NEW n \in 1..CopyBuffer, target # None, ExtractChunk(n)
        PROVE  ImageInv'
    <3>1. n \in Nat
      BY InnerImageAssumption
    <3> QED BY <2>3, <3>1, ExtractChunkInv
  <2> QED BY <1>2, <2>1, <2>2, <2>3, FinishExtractInv, AppearInv DEF NextImage
<1>3. CASE UNCHANGED diskVars
  <2>1. /\ disk' = disk /\ sessions' = sessions
        /\ target' = target /\ output' = output
    BY <1>3 DEF diskVars, imageVars
  <2> QED BY <2>1 DEF ImageInv, ExtractedIsFile
<1> QED BY <1>1, <1>2, <1>3 DEF DiskNext, AsImage

LEMMA ImageInvariant == DiskSpec => []ImageInv
<1>1. DiskInit => ImageInv
  BY NoSessions DEF DiskInit, InitImage, ImageInv, ExtractedIsFile
<1>2. ImageInv /\ [DiskNext]_diskVars => ImageInv'
  BY ImageStep
<1> QED BY <1>1, <1>2, PTL DEF DiskSpec

\* ExtractedIsFile: what extract has put in place is the whole file, as it
\* lies on the outermost disk, for buffers of any size and any depth.
THEOREM DiskExtractedIsFile == DiskSpec => []ExtractedIsFile
<1>1. ImageInv => ExtractedIsFile
  BY DEF ImageInv
<1> QED BY <1>1, ImageInvariant, PTL

-----------------------------------------------------------------------------
(* Pool members.                                                           *)

\* Every nonempty bounded set of naturals has a greatest member.
LEMMA GreatestNat ==
    ASSUME NEW T \in SUBSET Nat, T # {}, NEW top \in Nat, \A x \in T : x <= top
    PROVE  \E x \in T : \A y \in T : y <= x
<1> DEFINE D == {top - x : x \in T}
<1>1. D \in SUBSET Nat /\ D # {}
  <2>1. \A x \in T : top - x \in Nat
    OBVIOUS
  <2>2. PICK x : x \in T
    OBVIOUS
  <2>3. top - x \in D
    BY <2>2
  <2> QED BY <2>1, <2>3
<1>2. PICK d \in D : \A e \in D : ~(<<e, d>> \in OpToRel(<, Nat))
  BY <1>1, NatLessThanWellFounded, WFMin
<1>3. \A e \in Nat : e < d => <<e, d>> \in OpToRel(<, Nat)
  BY <1>1 DEF OpToRel
<1>4. PICK x \in T : d = top - x
  OBVIOUS
<1>5. \A y \in T : top - y \in Nat /\ ~(top - y < d)
  BY <1>1, <1>2, <1>3
<1> QED BY <1>4, <1>5

VdevFields(v) ==
    /\ v.base \in Nat /\ v.len \in Nat /\ v.len >= 4
    /\ v.txg \in [1..4 -> Nat]

LEMMA VdevType ==
    ASSUME DiskSound
    PROVE  \A v \in disk.vdevs : VdevFields(v)
<1>1. ASSUME NEW v \in Vdev
      PROVE  VdevFields(v)
  <2>1. v.base \in Block /\ v.len \in 4..MaxBlocks /\ v.txg \in [1..4 -> Nat]
    BY DEF Vdev
  <2> QED BY <2>1, DiskTablesAssumption DEF Block, VdevFields
<1> QED BY <1>1 DEF DiskSound

\* The label k of v is read through a source.
Sees(src, luks, v, k) ==
    /\ v.txg[k] # 0 /\ (v.luks # None) = luks
    /\ luks => v.base = src.base /\ v.len = src.len
    /\ \E j \in 1..4 : LabelBlock(v, k) = LabelBlock(src, j)

LEMMA LabelsRead ==
    ASSUME NEW src, NEW luks \in BOOLEAN
    PROVE  \A l : l \in read_labels(src, luks) <=>
              \E v \in disk.vdevs, k \in 1..4 :
                 Sees(src, luks, v, k) /\ l = [vdev |-> v, txg |-> v.txg[k]]
<1>1. ASSUME NEW v \in disk.vdevs, NEW k \in 1..4, Sees(src, luks, v, k)
      PROVE  [vdev |-> v, txg |-> v.txg[k]] \in read_labels(src, luks)
  <2> DEFINE here(w) == /\ (w.luks # None) = luks
                        /\ luks => w.base = src.base /\ w.len = src.len
             told(w) == {w.txg[i] : i \in {m \in 1..4 : \E j \in 1..4 :
                                        LabelBlock(w, m) = LabelBlock(src, j)}} \ {0}
             labels(w) == {[vdev |-> w, txg |-> t] : t \in told(w)}
  <2>1. v.txg[k] \in told(v) /\ v \in {x \in disk.vdevs : here(x)}
    BY <1>1 DEF Sees
  <2>2. [vdev |-> v, txg |-> v.txg[k]] \in labels(v)
    BY <2>1
  <2>3. labels(v) \in {labels(w) : w \in {x \in disk.vdevs : here(x)}}
    BY <2>1
  <2>4. read_labels(src, luks) = UNION {labels(w) : w \in {x \in disk.vdevs : here(x)}}
    BY DEF read_labels
  <2> HIDE DEF here, told, labels
  <2> QED BY <2>2, <2>3, <2>4
<1>2. ASSUME NEW l \in read_labels(src, luks)
      PROVE  \E v \in disk.vdevs, k \in 1..4 :
                Sees(src, luks, v, k) /\ l = [vdev |-> v, txg |-> v.txg[k]]
  BY <1>2 DEF read_labels, Sees
<1> QED BY <1>1, <1>2

LEMMA LabelType ==
    ASSUME DiskSound, NEW src, NEW luks \in BOOLEAN, NEW l \in read_labels(src, luks)
    PROVE  /\ l.vdev \in disk.vdevs /\ l.txg \in Nat
           /\ \E k \in 1..4 : Sees(src, luks, l.vdev, k) /\ l.txg = l.vdev.txg[k]
<1>1. PICK v \in disk.vdevs, k \in 1..4 :
         Sees(src, luks, v, k) /\ l = [vdev |-> v, txg |-> v.txg[k]]
  BY LabelsRead
<1>2. v.txg[k] \in Nat
  BY VdevType DEF VdevFields
<1> QED BY <1>1, <1>2

\* The sort finds a label that no other is newer than.
LEMMA ActiveNewest ==
    ASSUME DiskSound, NEW src, NEW luks \in BOOLEAN, read_labels(src, luks) # {}
    PROVE  LET labels == read_labels(src, luks)
           IN  /\ Active(labels) \in labels
               /\ \A m \in labels : Active(labels).txg >= m.txg
<1> DEFINE labels == read_labels(src, luks)
           T == {l.txg : l \in labels}
<1>1. PICK top \in Nat : \A v \in disk.vdevs : \A i \in 1..4 : v.txg[i] <= top
  <2>1. \A v \in disk.vdevs : \A i \in 1..4 : v.txg[i] \in Nat
    BY VdevType DEF VdevFields
  <2> QED BY <2>1 DEF DiskSound, Txgs
<1>2. \A l \in labels : l.txg \in Nat /\ l.txg <= top
  BY <1>1, LabelType
<1> HIDE DEF labels
<1>3. T \in SUBSET Nat /\ T # {} /\ \A x \in T : x <= top
  BY <1>2 DEF labels
<1>4. PICK x \in T : \A y \in T : y <= x
  BY <1>3, GreatestNat
<1>5. PICK l \in labels : x = l.txg
  OBVIOUS
<1>6. \A m \in labels : m.txg \in T /\ m.txg \in Nat
  BY <1>2
<1>7. \A m \in labels : l.txg >= m.txg
  BY <1>2, <1>4, <1>5, <1>6
<1> QED BY <1>5, <1>7 DEF Active, labels

LEMMA NewestIs ==
    ASSUME NEW v, VdevFields(v), NEW t \in Nat, \E k \in 1..4 : t = v.txg[k],
           \A i \in 1..4 : v.txg[i] <= t
    PROVE  Newest(v) = t
<1> DEFINE T == {v.txg[i] : i \in 1..4}
           P(x) == \A i \in 1..4 : v.txg[i] <= x
<1>1. t \in T /\ P(t)
  OBVIOUS
<1>2. Newest(v) \in T /\ P(Newest(v))
  BY <1>1 DEF Newest
<1>3. Newest(v) <= t /\ t <= Newest(v) /\ Newest(v) \in Nat
  BY <1>1, <1>2 DEF VdevFields
<1> QED BY <1>3

\* The newest label of a vdev that is read in place.
LEMMA ReadInPlace ==
    ASSUME DiskSound, NEW src, NEW luks \in BOOLEAN, NEW a \in read_labels(src, luks),
           \A m \in read_labels(src, luks) : a.txg >= m.txg,
           a.vdev.base = src.base, a.vdev.len = src.len
    PROVE  a.txg = Newest(a.vdev)
<1> DEFINE v == a.vdev
<1>1. v \in disk.vdevs /\ a.txg \in Nat /\ VdevFields(v)
  BY LabelType, VdevType
<1>2. PICK k \in 1..4 : Sees(src, luks, v, k) /\ a.txg = v.txg[k]
  BY LabelType
<1>3. ASSUME NEW i \in 1..4
      PROVE  v.txg[i] <= a.txg
  <2>1. CASE v.txg[i] = 0
    BY <1>1, <2>1
  <2>2. CASE v.txg[i] # 0
    <3>1. LabelBlock(v, i) = LabelBlock(src, i)
      BY DEF LabelBlock
    <3>2. Sees(src, luks, v, i)
      BY <1>2, <2>2, <3>1 DEF Sees
    <3>3. [vdev |-> v, txg |-> v.txg[i]] \in read_labels(src, luks)
      BY <1>1, <3>2, LabelsRead
    <3>4. a.txg >= [vdev |-> v, txg |-> v.txg[i]].txg
      BY <3>3
    <3>5. v.txg[i] \in Nat
      BY <1>1 DEF VdevFields
    <3> QED BY <1>1, <3>4, <3>5
  <2> QED BY <2>1, <2>2
<1> QED BY <1>1, <1>2, <1>3, NewestIs

\* The sources Chosen may name.
LEMMA ChosenSource ==
    ASSUME NEW key, Chosen(key) # None
    PROVE  /\ Chosen(key).src \in Slices \cup {Whole} /\ Chosen(key).luks \in BOOLEAN
           /\ Chosen(key) = Opening(Chosen(key).src, Chosen(key).luks)
<1>1. \A c \in Candidates(key) : /\ c.src \in Slices /\ c.luks \in BOOLEAN
                                 /\ c = Opening(c.src, c.luks)
  <2>1. ASSUME NEW c \in Candidates(key)
        PROVE  \E s \in Slices, b \in BOOLEAN : c = Opening(s, b)
    BY DEF Candidates
  <2>2. \A s, b : Opening(s, b).src = s /\ Opening(s, b).luks = b
    BY DEF Opening
  <2> QED BY <2>1, <2>2
<1>2. ASSUME Cardinality(Candidates(key)) = 1
      PROVE  (CHOOSE x \in Candidates(key) : TRUE) \in Candidates(key)
  <2>1. Candidates(key) # {}
    BY <1>2, FS_EmptySet
  <2> QED BY <2>1
<1>3. ASSUME NEW b \in BOOLEAN
      PROVE  /\ Opening(Whole, b).src = Whole /\ Opening(Whole, b).luks = b
             /\ Opening(Whole, b) = Opening(Whole, b)
  BY DEF Opening
<1>4. \/ Chosen(key) \in {Opening(Whole, FALSE), Opening(Whole, TRUE)}
      \/ Chosen(key) \in Candidates(key)
  BY <1>2 DEF Chosen
<1> QED BY <1>1, <1>3, <1>4

LEMMA OpenPoolInPlace ==
    ASSUME DiskSound, NEW key, OpenPool(key)
    PROVE  OpenedInPlace'
<1> DEFINE c == Chosen(key)
           labels == read_labels(c.src, c.luks)
           a == Active(labels)
           v == a.vdev
<1>1. SUFFICES ASSUME member' # None PROVE OpenedInPlace'
  BY DEF OpenedInPlace
<1>2. c # None /\ member' = Member(c) /\ disk' = disk
  BY <1>1 DEF OpenPool
<1>3. c.src \in Slices \cup {Whole} /\ c.luks \in BOOLEAN
  BY <1>2, ChosenSource
<1> HIDE DEF c
<1>4. labels # {} /\ MosReads(c.src, a)
  BY <1>1, <1>2 DEF Member
<1>5. /\ member'.src = c.src /\ member'.luks = c.luks
      /\ member'.guid = v.guid /\ member'.txg = a.txg
  BY <1>1, <1>2 DEF Member
<1>6. a \in labels /\ \A m \in labels : a.txg >= m.txg
  BY <1>3, <1>4, ActiveNewest
<1> HIDE DEF a
<1>7. PICK k \in 1..4 : Sees(c.src, c.luks, v, k)
  BY <1>3, <1>6, LabelType
<1>8. v \in disk.vdevs
  BY <1>3, <1>6, LabelType
<1>9. v.base = c.src.base
  BY <1>4 DEF MosReads
<1>10. v.len = c.src.len /\ (v.luks # None) = c.luks
  <2>1. (v.luks # None) = c.luks /\ (c.luks => v.len = c.src.len)
    BY <1>7 DEF Sees
  <2>2. ~c.luks => v.len = c.src.len
    BY <1>3, <1>8, <1>9, <2>1 DEF DiskSound
  <2> QED BY <1>3, <2>1, <2>2
<1>11. a.txg = Newest(v)
  BY <1>3, <1>6, <1>9, <1>10, ReadInPlace
<1> HIDE DEF v
<1> QED BY <1>2, <1>5, <1>8, <1>9, <1>10, <1>11 DEF OpenedInPlace, Newest

\* A disk keeps its contents: nothing the program does writes to it.
LEMMA DiskKept ==
    ASSUME [DiskNext]_diskVars
    PROVE  disk' = disk
<1>1. CASE UNCHANGED diskVars
  BY <1>1 DEF diskVars
<1>2. CASE AsPool
  BY <1>2 DEF AsPool, NextPool, OpenPool
<1>3. CASE AsImage
  BY <1>3 DEF AsImage, NextImage, InspectDisk, InspectChild,
              StartExtract, ExtractChunk, FinishExtract, Appear
<1> QED BY <1>1, <1>2, <1>3 DEF DiskNext

LEMMA SoundKept ==
    ASSUME DiskSound, disk' = disk
    PROVE  DiskSound'
BY DEF DiskSound, Txgs, Slices, Whole, TableAt, is_luks, Slice, Inside

LEMMA PoolStep ==
    ASSUME DiskSound, OpenedInPlace, [DiskNext]_diskVars
    PROVE  DiskSound' /\ OpenedInPlace'
<1>1. DiskSound' /\ disk' = disk
  BY DiskKept, SoundKept
<1>2. CASE UNCHANGED diskVars
  BY <1>1, <1>2 DEF diskVars, poolVars, OpenedInPlace, Newest
<1>3. CASE AsPool
  BY <1>1, <1>3, OpenPoolInPlace DEF AsPool, NextPool
<1>4. CASE AsImage
  BY <1>1, <1>4 DEF AsImage, OpenedInPlace
<1> QED BY <1>1, <1>2, <1>3, <1>4 DEF DiskNext

\* OpenedInPlace: on a sound disk a pool member that opens is read where its
\* vdev lies and from its newest readable label, whatever labels are stale,
\* unreadable or shared with the disk around it.
THEOREM PoolOpenedInPlace == DiskSpec /\ DiskSound => []OpenedInPlace
<1>1. DiskInit => OpenedInPlace
  BY DEF DiskInit, InitPool, OpenedInPlace
<1>2. DiskSound /\ OpenedInPlace /\ [DiskNext]_diskVars => (DiskSound /\ OpenedInPlace)'
  BY PoolStep
<1> QED BY <1>1, <1>2, PTL DEF DiskSpec

\* The slices are parts of the disk with room for their labels.
SliceFields(s) ==
    /\ s = [base |-> s.base, len |-> s.len]
    /\ s.base \in Nat /\ s.len \in Nat /\ s.len >= 4
    /\ s.base + s.len <= disk.len

LEMMA SliceType ==
    \A s \in Slices : SliceFields(s) /\ pool_partitions(Whole, TableAt(0)) # {}
<1>1. SUFFICES ASSUME NEW s \in Slices
               PROVE  SliceFields(s) /\ pool_partitions(Whole, TableAt(0)) # {}
  OBVIOUS
<1>2. PICK p \in pool_partitions(Whole, TableAt(0)) :
         /\ p.length >= 4 /\ Inside(Whole, p.offset, p.length)
         /\ s = Slice(Whole, p.offset, p.length)
  BY DEF Slices
<1>3. /\ p.offset \in Nat /\ p.length \in Nat
      /\ p.offset + p.length <= Whole.len
  BY <1>2 DEF Inside
<1>4. Whole.base = 0 /\ Whole.len = disk.len
  BY DEF Whole
<1>5. s = [base |-> 0 + p.offset, len |-> p.length]
  BY <1>2, <1>4 DEF Slice
<1>6. s.base = p.offset /\ s.len = p.length /\ s = [base |-> s.base, len |-> s.len]
  BY <1>3, <1>5
<1> QED BY <1>2, <1>3, <1>4, <1>6 DEF SliceFields

LEMMA CandidatesFinite ==
    ASSUME DiskSound, NEW key
    PROVE  IsFiniteSet(Candidates(key))
<1> DEFINE I == 0..disk.len
           P == I \X I
           Q == P \X BOOLEAN
           At(q) == Opening([base |-> q[1][1], len |-> q[1][2]], q[2])
           T == {At(q) : q \in Q}
           f == [q \in Q |-> At(q)]
<1>1. IsFiniteSet(I)
  <2>1. disk.len \in Int /\ 0 \in Int
    BY DEF DiskSound
  <2> QED BY <2>1, FS_Interval
<1>2. IsFiniteSet(BOOLEAN)
  <2>1. IsFiniteSet({TRUE}) /\ BOOLEAN = {TRUE} \cup {FALSE}
    BY FS_Singleton
  <2>2. IsFiniteSet({TRUE} \cup {FALSE})
    BY <2>1, FS_AddElement
  <2> QED BY <2>1, <2>2
<1>3. IsFiniteSet(Q)
  <2>1. IsFiniteSet(P)
    BY <1>1, FS_Product
  <2> QED BY <1>2, <2>1, FS_Product
<1>4. f \in Surjection(Q, T)
  BY DEF Surjection
<1>5. IsFiniteSet(T)
  <2> HIDE DEF Q, T, f
  <2> QED BY <1>3, <1>4, FS_Surjection
<1>6. ASSUME NEW s \in Slices, NEW b \in BOOLEAN
      PROVE  Opening(s, b) \in T
  <2>1. s.base \in I /\ s.len \in I /\ s = [base |-> s.base, len |-> s.len]
    BY SliceType DEF SliceFields, DiskSound
  <2>2. <<s.base, s.len>> \in P
    BY <2>1
  <2>3. <<<<s.base, s.len>>, b>> \in Q
    BY <2>2
  <2>4. At(<<<<s.base, s.len>>, b>>) = Opening(s, b)
    BY <2>1
  <2>5. At(<<<<s.base, s.len>>, b>>) \in T
    BY <2>3
  <2> QED BY <2>4, <2>5
<1>7. Candidates(key) \in SUBSET T
  <2> HIDE DEF T
  <2> QED BY <1>6 DEF Candidates
<1> HIDE DEF T
<1> QED BY <1>5, <1>7, FS_Subset

\* A vdev with a readable label is seen where it lies.
LEMMA SeenInPlace ==
    ASSUME DiskSound, NEW v \in disk.vdevs, Newest(v) # 0, NEW src,
           v.base = src.base, v.len = src.len, NEW luks \in BOOLEAN,
           luks <=> v.luks # None
    PROVE  read_labels(src, luks) # {}
<1>1. VdevFields(v)
  BY VdevType
<1>2. \E k \in 1..4 : v.txg[k] # 0
  <2>1. SUFFICES ASSUME \A k \in 1..4 : v.txg[k] = 0
                 PROVE  FALSE
    OBVIOUS
  <2>2. Newest(v) = 0
    BY <1>1, <2>1, NewestIs
  <2> QED BY <2>2
<1>3. PICK k \in 1..4 : v.txg[k] # 0
  BY <1>2
<1>4. LabelBlock(v, k) = LabelBlock(src, k)
  BY DEF LabelBlock
<1>5. (v.luks # None) = luks
  OBVIOUS
<1>6. \E j \in 1..4 : LabelBlock(v, k) = LabelBlock(src, j)
  BY <1>4
<1>7. Sees(src, luks, v, k)
  <2>1. CASE luks
    BY <1>3, <1>6, <2>1 DEF Sees
  <2>2. CASE ~luks
    BY <1>3, <1>6, <2>2 DEF Sees
  <2> QED BY <2>1, <2>2
<1>8. [vdev |-> v, txg |-> v.txg[k]] \in read_labels(src, luks)
  BY <1>7, LabelsRead
<1> QED BY <1>8

\* A vdev in reach makes its slice a candidate.
LEMMA ReachIsCandidate ==
    ASSUME DiskSound, NEW key \in Key \cup {None}, NEW v \in disk.vdevs, InReach(v, key)
    PROVE  \E c \in Candidates(key) : c.src = [base |-> v.base, len |-> v.len]
<1> DEFINE s == [base |-> v.base, len |-> v.len]
<1>1. s \in Slices
  <2>1. v.base \in Nat /\ Whole.base = 0
    BY VdevType DEF VdevFields, Whole
  <2>2. Slice(Whole, v.base, v.len) = [base |-> 0 + v.base, len |-> v.len]
    BY <2>1 DEF Slice
  <2>3. 0 + v.base = v.base
    BY <2>1
  <2> QED BY <2>2, <2>3 DEF InReach
<1>2. s.base = v.base /\ s.len = v.len /\ Newest(v) # 0
  BY DEF InReach
<1> HIDE DEF s
<1>3. \A b \in BOOLEAN : Opening(s, b).src = s
  BY DEF Opening
<1>4. CASE read_labels(s, FALSE) # {}
  <2>1. Opening(s, FALSE) \in Candidates(key)
    BY <1>1, <1>4 DEF Candidates
  <2> QED BY <1>3, <2>1 DEF s
<1>5. CASE read_labels(s, FALSE) = {}
  <2>1. v.luks # None
    BY <1>2, <1>5, SeenInPlace
  <2>2. v.luks = key
    BY <2>1 DEF InReach
  <2>3. Unlocks(s, key)
    BY <1>2, <2>1, <2>2 DEF Unlocks
  <2>4. read_labels(s, TRUE) # {}
    BY <1>2, <2>1, SeenInPlace
  <2>5. Opening(s, TRUE) \in Candidates(key)
    BY <1>1, <1>5, <2>3, <2>4 DEF Candidates
  <2> QED BY <1>3, <2>5 DEF s
<1> QED BY <1>4, <1>5

LEMMA OneInReach ==
    ASSUME DiskSound, NEW key \in Key \cup {None}, Chosen(key) # None,
           NEW v \in disk.vdevs, NEW w \in disk.vdevs,
           InReach(v, key), InReach(w, key)
    PROVE  v = w
<1>1. pool_partitions(Whole, TableAt(0)) # {}
  BY SliceType DEF InReach
<1>2. ~is_luks(Whole)
  BY <1>1 DEF DiskSound
<1>3. Cardinality(Candidates(key)) = 1
  BY <1>1, <1>2 DEF Chosen
<1>4. PICK c : Candidates(key) = {c}
  BY <1>3, CandidatesFinite, FS_Singleton
<1>5. c.src = [base |-> v.base, len |-> v.len]
  BY <1>4, ReachIsCandidate
<1>6. c.src = [base |-> w.base, len |-> w.len]
  BY <1>4, ReachIsCandidate
<1>7. v.base = w.base
  BY <1>5, <1>6
<1> QED BY <1>7 DEF DiskSound

LEMMA OpenPoolNoSilentChoice ==
    ASSUME DiskSound, NEW key \in Key \cup {None}, OpenPool(key)
    PROVE  NoSilentChoice'
<1>1. SUFFICES ASSUME attempt'.ok,
                      NEW v \in disk'.vdevs, NEW w \in disk'.vdevs,
                      InReach(v, attempt.key)', InReach(w, attempt.key)'
               PROVE  v = w
  BY DEF NoSilentChoice
<1>2. disk' = disk /\ attempt'.key = key /\ Chosen(key) # None
  BY <1>1 DEF OpenPool
<1>3. InReach(v, key) /\ InReach(w, key)
  BY <1>1, <1>2 DEF InReach, Newest, Slices, Whole, TableAt, Slice, Inside
<1> QED BY <1>1, <1>2, <1>3, OneInReach

-----------------------------------------------------------------------------
\* The one vdev of a disk, as SolePoolOpens describes it.
SoleVdev(v) ==
    /\ disk.vdevs = {v}
    /\ v.children = 1 /\ v.type = "disk"
    /\ Newest(v) # 0 /\ Newest(v) \in v.mos

\* Opened at its own place, it is a member.
LEMMA SoleIsMember ==
    ASSUME DiskSound, NEW v, SoleVdev(v), NEW src \in [base : Nat, len : Nat],
           v.base = src.base, v.len = src.len, NEW luks \in BOOLEAN,
           luks <=> v.luks # None
    PROVE  Member(Opening(src, luks)) # None
<1> DEFINE c == Opening(src, luks)
           labels == read_labels(c.src, c.luks)
           a == Active(labels)
<1>1. c.src = src /\ c.luks = luks
  BY DEF Opening
<1>2. v \in disk.vdevs
  BY DEF SoleVdev
<1>3. labels # {}
  BY <1>1, <1>2, SeenInPlace DEF SoleVdev
<1>4. \A l \in labels : l.vdev = v /\ l.txg \in Nat
  BY <1>1, LabelType DEF SoleVdev
<1>5. a \in labels /\ \A m \in labels : a.txg >= m.txg
  BY <1>1, <1>3, ActiveNewest
<1> HIDE DEF c, a
<1>6. a.vdev = v /\ a.txg \in Nat
  BY <1>4, <1>5
<1>7. a.txg = Newest(v)
  BY <1>1, <1>5, <1>6, ReadInPlace
<1>8. MosReads(c.src, a)
  BY <1>1, <1>6, <1>7 DEF MosReads, SoleVdev
<1>9. v.guid \in Nat
  BY <1>2 DEF DiskSound, Vdev
<1>10. Member(c) = [src |-> c.src, luks |-> c.luks, guid |-> a.vdev.guid, txg |-> a.txg]
  <2>1. a.vdev.children = 1 /\ a.vdev.type = "disk"
    BY <1>6 DEF SoleVdev
  <2>2. ~\E l \in labels : l.vdev.guid # a.vdev.guid
    BY <1>4, <1>6
  <2> QED BY <1>3, <1>8, <2>1, <2>2 DEF Member, a
<1>11. Member(c) \in [src : [base : Nat, len : Nat], luks : BOOLEAN, guid : Nat, txg : Nat]
  BY <1>1, <1>6, <1>9, <1>10
<1> QED BY <1>11, PoolOpenAssumption DEF c

\* It is the whole disk.
LEMMA SoleWholeDisk ==
    ASSUME DiskSound, NEW key \in Key \cup {None}, NEW v, SoleVdev(v),
           v.base = 0, v.len = disk.len, 0 \notin DOMAIN disk.tables
    PROVE  /\ key = v.luks => /\ Chosen(key) # None
                              /\ Member(Chosen(key)) # None
           /\ key # v.luks => Chosen(key) = None
<1>1. v \in disk.vdevs
  BY DEF SoleVdev
<1>2. pool_partitions(Whole, TableAt(0)) = {}
  BY DEF TableAt, NoTable, pool_partitions, pool_gpt_partitions,
         pool_mbr_partitions, Refused
<1>3. /\ Whole \in [base : Nat, len : Nat]
      /\ Whole.base = v.base /\ Whole.len = v.len
  BY DEF Whole, DiskSound
<1>4. \A b \in BOOLEAN : Opening(Whole, b) # None
  BY <1>3, PoolOpenAssumption DEF Opening
<1>5. CASE v.luks = None
  <2>1. read_labels(Whole, FALSE) # {}
    BY <1>1, <1>3, <1>5, SeenInPlace DEF SoleVdev
  <2>2. Member(Opening(Whole, FALSE)) # None
    BY <1>3, <1>5, SoleIsMember
  <2>3. Chosen(key) = IF key = None THEN Opening(Whole, FALSE) ELSE None
    BY <1>2, <2>1 DEF Chosen
  <2> QED BY <1>4, <1>5, <2>2, <2>3
<1>6. CASE v.luks # None
  <2>1. read_labels(Whole, FALSE) = {}
    <3>1. ASSUME NEW l \in read_labels(Whole, FALSE)
          PROVE  FALSE
      BY <1>6, <3>1, LabelType DEF Sees, SoleVdev
    <3> QED BY <3>1
  <2>2. Member(Opening(Whole, TRUE)) # None
    BY <1>3, <1>6, SoleIsMember
  <2>3. is_luks(Whole)
    BY <1>1, <1>3, <1>6 DEF is_luks
  <2>4. Unlocks(Whole, key) <=> key = v.luks
    BY <1>1, <1>3, <1>6 DEF Unlocks, SoleVdev
  <2>5. Chosen(key) = IF Unlocks(Whole, key) THEN Opening(Whole, TRUE) ELSE None
    BY <2>1, <2>3 DEF Chosen
  <2> QED BY <1>4, <2>2, <2>4, <2>5
<1> QED BY <1>5, <1>6

\* The blocks of a slice's labels are its own.
LEMMA LabelInSlice ==
    ASSUME NEW s, s.base \in Nat, s.len \in Nat, s.len >= 4, NEW i \in 1..4
    PROVE  /\ LabelBlock(s, i) \in Nat /\ s.base <= LabelBlock(s, i)
           /\ LabelBlock(s, i) < s.base + s.len
BY DEF LabelBlock

\* Its labels show in no slice but its own.
LEMMA SoleElsewhere ==
    ASSUME DiskSound, NEW v, SoleVdev(v), NEW s \in Slices,
           v.base = s.base, v.len = s.len, NEW x \in Slices, x # s
    PROVE  /\ read_labels(x, FALSE) = {} /\ x.base # v.base
<1>1. /\ s.base \in Nat /\ s.len \in Nat /\ s.len >= 4
      /\ x.base \in Nat /\ x.len \in Nat /\ x.len >= 4
  BY SliceType DEF SliceFields
<1>2. s.base + s.len <= x.base \/ x.base + x.len <= s.base
  BY DEF DiskSound
<1>3. x.base # v.base
  BY <1>1, <1>2
<1>4. ASSUME NEW l \in read_labels(x, FALSE)
      PROVE  FALSE
  <2>1. PICK k \in 1..4 : Sees(x, FALSE, v, k)
    BY <1>4, LabelType DEF SoleVdev
  <2>2. PICK j \in 1..4 : LabelBlock(v, k) = LabelBlock(x, j)
    BY <2>1 DEF Sees
  <2>3. LabelBlock(v, k) = LabelBlock(s, k)
    BY DEF LabelBlock
  <2>4. /\ LabelBlock(s, k) \in Nat /\ s.base <= LabelBlock(s, k)
        /\ LabelBlock(s, k) < s.base + s.len
    BY <1>1, LabelInSlice
  <2>5. /\ x.base <= LabelBlock(x, j) /\ LabelBlock(x, j) < x.base + x.len
    BY <1>1, LabelInSlice
  <2> QED BY <1>1, <1>2, <2>2, <2>3, <2>4, <2>5
<1> QED BY <1>3, <1>4

\* It lies in a partition.
LEMMA SolePartition ==
    ASSUME DiskSound, NEW key \in Key \cup {None}, NEW v, SoleVdev(v),
           v.base # 0, Slice(Whole, v.base, v.len) \in Slices
    PROVE  /\ key = v.luks => /\ Chosen(key) # None
                              /\ Member(Chosen(key)) # None
           /\ key # v.luks => Chosen(key) = None
<1> DEFINE s == Slice(Whole, v.base, v.len)
           C == Candidates(key)
<1>1. v \in disk.vdevs
  BY DEF SoleVdev
<1>2. s.base = v.base /\ s.len = v.len /\ s \in Slices
  <2>1. v.base \in Nat
    BY <1>1, VdevType DEF VdevFields
  <2> QED BY <2>1 DEF Slice, Whole
<1> HIDE DEF s
<1>3. s \in [base : Nat, len : Nat]
  BY <1>2, SliceType DEF SliceFields
<1>4. \A b \in BOOLEAN : Opening(s, b) # None /\ Opening(s, b).luks = b
  BY <1>3, PoolOpenAssumption DEF Opening
<1>5. pool_partitions(Whole, TableAt(0)) # {}
  BY <1>2, SliceType
<1>6. ~is_luks(Whole)
  BY DEF is_luks, Whole, SoleVdev
<1>7. Chosen(key) = IF Cardinality(C) # 1 THEN None
                    ELSE IF key # None /\ ~(CHOOSE x \in C : TRUE).luks THEN None
                         ELSE CHOOSE x \in C : TRUE
  BY <1>5, <1>6 DEF Chosen
<1>8. ASSUME NEW c, C = {c}
      PROVE  Chosen(key) = IF key # None /\ ~c.luks THEN None ELSE c
  <2>1. Cardinality(C) = 1
    BY <1>8, FS_Singleton
  <2>2. (CHOOSE x \in C : TRUE) = c
    BY <1>8
  <2> QED BY <1>7, <2>1, <2>2
<1>9. \A x \in Slices : x # s => read_labels(x, FALSE) = {} /\ x.base # v.base
  BY <1>2, SoleElsewhere
<1>10. CASE v.luks = None
  <2>1. read_labels(s, FALSE) # {}
    BY <1>1, <1>2, <1>10, SeenInPlace DEF SoleVdev
  <2>2. \A x \in Slices : ~Unlocks(x, key)
    BY <1>10 DEF Unlocks, SoleVdev
  <2>3. C = {Opening(s, FALSE)}
    BY <1>2, <1>9, <2>1, <2>2 DEF Candidates
  <2>4. Member(Opening(s, FALSE)) # None
    BY <1>2, <1>3, <1>10, SoleIsMember
  <2>5. Chosen(key) = IF key # None /\ ~Opening(s, FALSE).luks THEN None
                      ELSE Opening(s, FALSE)
    BY <1>8, <2>3
  <2> QED BY <1>4, <1>10, <2>4, <2>5
<1>11. CASE v.luks # None
  <2>1. ASSUME NEW x \in Slices
        PROVE  read_labels(x, FALSE) = {}
    <3>1. ASSUME NEW l \in read_labels(x, FALSE)
          PROVE  FALSE
      BY <1>11, <3>1, LabelType DEF Sees, SoleVdev
    <3> QED BY <3>1
  <2>2. \A x \in Slices : Unlocks(x, key) <=> key = v.luks /\ x = s
    <3>1. \A x \in Slices : Unlocks(x, key) <=> key = v.luks /\ x.base = v.base
      BY <1>1, <1>11 DEF Unlocks, SoleVdev
    <3> QED BY <1>2, <1>9, <3>1
  <2>3. read_labels(s, TRUE) # {}
    BY <1>1, <1>2, <1>11, SeenInPlace DEF SoleVdev
  <2>4. ASSUME key = v.luks
        PROVE  Chosen(key) # None /\ Member(Chosen(key)) # None
    <3>1. C = {Opening(s, TRUE)}
      BY <1>2, <2>1, <2>2, <2>3, <2>4 DEF Candidates
    <3>2. Chosen(key) = IF key # None /\ ~Opening(s, TRUE).luks THEN None
                        ELSE Opening(s, TRUE)
      BY <1>8, <3>1
    <3>3. Member(Opening(s, TRUE)) # None
      BY <1>2, <1>3, <1>11, SoleIsMember
    <3> QED BY <1>4, <3>2, <3>3
  <2>5. ASSUME key # v.luks
        PROVE  Chosen(key) = None
    <3>1. C = {}
      BY <2>1, <2>2, <2>5 DEF Candidates
    <3>2. Cardinality(C) = 0
      BY <3>1, FS_EmptySet
    <3> QED BY <1>7, <3>2
  <2> QED BY <2>4, <2>5
<1> QED BY <1>10, <1>11

LEMMA OpenPoolSole ==
    ASSUME DiskSound, NEW key \in Key \cup {None}, OpenPool(key)
    PROVE  SolePoolOpens'
<1> DEFINE Placed(v) == \/ v.base = 0 /\ v.len = disk.len /\ 0 \notin DOMAIN disk.tables
                        \/ v.base # 0 /\ Slice(Whole, v.base, v.len) \in Slices
<1>1. disk' = disk /\ attempt'.key = key
  BY DEF OpenPool
<1>2. SUFFICES ASSUME NEW v, SoleVdev(v), Placed(v)
               PROVE  attempt'.ok = (key = v.luks)
  <2>1. /\ Whole' = Whole /\ TableAt(0)' = TableAt(0)
        /\ \A v : Newest(v)' = Newest(v) /\ Slice(Whole, v.base, v.len)' = Slice(Whole, v.base, v.len)
    BY <1>1 DEF Whole, TableAt, Newest, Slice
  <2>2. Slices' = Slices
    BY <1>1, <2>1 DEF Slices, Whole, TableAt, Slice, Inside
  <2> QED BY <1>1, <2>1, <2>2 DEF SolePoolOpens, SoleVdev
<1>3. ~(disk.len < 4)
  <2>1. VdevFields(v) /\ disk.len \in Nat
    BY <1>2, VdevType DEF SoleVdev, DiskSound
  <2>2. CASE v.base = 0 /\ v.len = disk.len
    BY <2>1, <2>2 DEF VdevFields
  <2>3. CASE Slice(Whole, v.base, v.len) \in Slices
    <3> DEFINE s == Slice(Whole, v.base, v.len)
    <3>1. /\ s.base \in Nat /\ s.len \in Nat /\ s.len >= 4
          /\ s.base + s.len <= disk.len
      BY <2>3, SliceType DEF SliceFields
    <3> HIDE DEF s
    <3> QED BY <2>1, <3>1
  <2> QED BY <1>2, <2>2, <2>3
<1>4. /\ key = v.luks => Chosen(key) # None /\ Member(Chosen(key)) # None
      /\ key # v.luks => Chosen(key) = None
  BY <1>2, SoleWholeDisk, SolePartition
<1>5. attempt'.ok = ((IF disk.len < 4 \/ Chosen(key) = None
                      THEN None ELSE Member(Chosen(key))) # None)
  BY DEF OpenPool
<1>6. CASE key = v.luks
  BY <1>3, <1>4, <1>5, <1>6
<1>7. CASE key # v.luks
  BY <1>3, <1>4, <1>5, <1>7
<1> QED BY <1>6, <1>7

LEMMA OnePoolStep ==
    ASSUME DiskSound, OnePoolOpens, [DiskNext]_diskVars
    PROVE  DiskSound' /\ OnePoolOpens'
<1>1. DiskSound' /\ disk' = disk
  BY DiskKept, SoundKept
<1>2. CASE UNCHANGED diskVars
  <2>1. attempt' = attempt
    BY <1>2 DEF diskVars, poolVars
  <2>2. Slices' = Slices /\ Whole' = Whole
    BY <1>1 DEF Slices, Whole, TableAt, Slice, Inside
  <2>3. NoSilentChoice'
    BY <1>1, <2>1, <2>2 DEF OnePoolOpens, NoSilentChoice, InReach, Newest, Slice
  <2>4. SolePoolOpens'
    BY <1>1, <2>1, <2>2 DEF OnePoolOpens, SolePoolOpens, Newest, Slice
  <2> QED BY <1>1, <2>3, <2>4 DEF OnePoolOpens
<1>3. CASE AsPool
  BY <1>1, <1>3, OpenPoolNoSilentChoice, OpenPoolSole DEF AsPool, NextPool, OnePoolOpens
<1>4. CASE AsImage
  <2>1. attempt'.ok = FALSE /\ attempt'.done = FALSE
    BY <1>4 DEF AsImage, NoAttempt
  <2> QED BY <1>1, <2>1 DEF OnePoolOpens, NoSilentChoice, SolePoolOpens
<1> QED BY <1>1, <1>2, <1>3, <1>4 DEF DiskNext

\* OnePoolOpens: on a sound disk no call picks one of two pools in reach for
\* the user, and the only pool of a disk opens with the key of its container
\* and no other, for any number of partitions and labels.
THEOREM PoolOnePoolOpens == DiskSpec /\ DiskSound => []OnePoolOpens
<1>1. DiskInit => OnePoolOpens
  BY DEF DiskInit, InitPool, NoAttempt, OnePoolOpens, NoSilentChoice, SolePoolOpens
<1>2. DiskSound /\ OnePoolOpens /\ [DiskNext]_diskVars => (DiskSound /\ OnePoolOpens)'
  BY OnePoolStep
<1> QED BY <1>1, <1>2, PTL DEF DiskSpec

-----------------------------------------------------------------------------
(* The walk along the EBRs of an extended partition.                       *)

\* Induction on the numbers up to N, for a set.
LEMMA StepUp ==
    ASSUME NEW N \in Nat, NEW G, 0 \in G, \A n \in 1..N : n - 1 \in G => n \in G
    PROVE  \A n \in 0..N : n \in G
<1> DEFINE B == {n \in 0..N : n \notin G}
<1>1. SUFFICES ASSUME B # {} PROVE FALSE
  OBVIOUS
<1>2. B \in SUBSET Nat
  OBVIOUS
<1> HIDE DEF B
<1>3. PICK n \in B : \A m \in B : n <= m
  BY <1>1, <1>2, LeastNat
<1>4. n \in 0..N /\ n \notin G /\ n # 0
  BY DEF B
<1>5. n \in 1..N /\ n - 1 \in 0..N
  BY <1>4
<1>6. n - 1 \in G
  BY <1>3, <1>5 DEF B
<1> QED BY <1>4, <1>5, <1>6

WalkStart(c) == [lba |-> c.start, seen |-> {}, parts |-> {}, status |-> "walking"]

\* g holds the first N steps of the walk.
WalksTo(src, t, c, g, N) ==
    g = [n \in 0..N |-> IF n = 0 THEN WalkStart(c) ELSE EbrStep(src, t, c, g[n - 1])]

\* The walk is a function: the recursion has a solution.
LEMMA WalkExists ==
    ASSUME NEW src, NEW t, NEW c, NEW N \in Nat
    PROVE  \E g : WalksTo(src, t, c, g, N)
<1> DEFINE G == {n \in Nat : \E g : WalksTo(src, t, c, g, n)}
<1>1. 0 \in G
  <2> DEFINE g == [n \in 0..0 |-> WalkStart(c)]
  <2>1. g = [n \in 0..0 |-> IF n = 0 THEN WalkStart(c) ELSE EbrStep(src, t, c, g[n - 1])]
    <3>1. \A n \in 0..0 : n = 0
      OBVIOUS
    <3> QED BY <3>1
  <2>2. WalksTo(src, t, c, g, 0)
    BY <2>1 DEF WalksTo
  <2> QED BY <2>2
<1>2. ASSUME NEW n \in 1..N, n - 1 \in G
      PROVE  n \in G
  <2>1. PICK h : WalksTo(src, t, c, h, n - 1)
    BY <1>2
  <2> DEFINE g == [i \in 0..n |-> IF i = n THEN EbrStep(src, t, c, h[n - 1]) ELSE h[i]]
  <2>2. n \in Nat /\ n # 0 /\ n - 1 \in 0..(n - 1)
    OBVIOUS
  <2>3. DOMAIN h = 0..(n - 1)
    BY <2>1 DEF WalksTo
  <2>4. \A i \in 0..(n - 1) : h[i] = IF i = 0 THEN WalkStart(c) ELSE EbrStep(src, t, c, h[i - 1])
    BY <2>1 DEF WalksTo
  <2>5. \A i \in 0..(n - 1) : i \in 0..n /\ i # n /\ g[i] = h[i]
    BY <2>2
  <2>6. g[n] = EbrStep(src, t, c, g[n - 1])
    BY <2>2, <2>5
  <2>7. ASSUME NEW i \in 0..n
        PROVE  g[i] = IF i = 0 THEN WalkStart(c) ELSE EbrStep(src, t, c, g[i - 1])
    <3>1. CASE i = n
      BY <2>2, <2>6, <3>1
    <3>2. CASE i # n
      <4>1. i \in 0..(n - 1)
        BY <2>2, <3>2
      <4>2. CASE i = 0
        BY <2>4, <2>5, <4>1, <4>2
      <4>3. CASE i # 0
        <5>1. i - 1 \in 0..(n - 1)
          BY <2>2, <4>1, <4>3
        <5> QED BY <2>4, <2>5, <4>1, <4>3, <5>1
      <4> QED BY <4>2, <4>3
    <3> QED BY <3>1, <3>2
  <2>8. g = [i \in 0..n |-> g[i]]
    OBVIOUS
  <2> HIDE DEF g
  <2>9. WalksTo(src, t, c, g, n)
    BY <2>7, <2>8 DEF WalksTo
  <2> QED BY <2>2, <2>9
<1> HIDE DEF G
<1>3. N \in G
  BY <1>1, <1>2, StepUp
<1> QED BY <1>3 DEF G

LEMMA WalkIs ==
    ASSUME NEW src, NEW t, NEW c
    PROVE  \E g : /\ EbrWalk(src, t, c) = g[MaxEbr]
                  /\ g[0] = WalkStart(c)
                  /\ \A n \in 1..MaxEbr : g[n] = EbrStep(src, t, c, g[n - 1])
<1> DEFINE g == CHOOSE f : WalksTo(src, t, c, f, MaxEbr)
<1>1. MaxEbr \in Nat
  BY DiskTablesAssumption
<1>2. WalksTo(src, t, c, g, MaxEbr)
  BY <1>1, WalkExists
<1>3. EbrWalk(src, t, c) = g[MaxEbr]
  BY DEF EbrWalk, WalksTo, WalkStart
<1> HIDE DEF g
<1>4. \A n \in 0..MaxEbr : g[n] = IF n = 0 THEN WalkStart(c) ELSE EbrStep(src, t, c, g[n - 1])
  BY <1>2 DEF WalksTo
<1>5. g[0] = WalkStart(c)
  BY <1>1, <1>4
<1>6. \A n \in 1..MaxEbr : n \in 0..MaxEbr /\ n # 0
  BY <1>1
<1> QED BY <1>3, <1>4, <1>5, <1>6

Holds(e) == e.kind # "empty" /\ e.sectors # 0
Links(e) == e.link # "empty" /\ e.rest # 0
InContainer(c, b) == b \in Nat /\ c.start <= b /\ b < c.start + c.sectors

\* A walk so far: what was seen lies in the container, every logical partition
\* that was seen is kept, and all that is left to see is one record.
Walk == [lba : Nat, seen : SUBSET Nat, parts : SUBSET [start : Nat, sectors : Nat],
         status : {"walking", "done", "loop", "bad"}]

Walked(t, c, w) ==
    /\ w \in Walk
    /\ InContainer(c, w.lba) /\ \A b \in w.seen : InContainer(c, b)
    /\ c.start \in w.seen \cup {w.lba}
    /\ w.status \in {"walking", "done"} =>
          \A b \in w.seen : Links(t.ebr[b]) => c.start + t.ebr[b].next \in w.seen \cup {w.lba}
    /\ w.status = "done" => w.lba \in w.seen
    /\ \A b \in w.seen : Holds(t.ebr[b]) =>
          [start |-> b + t.ebr[b].start, sectors |-> t.ebr[b].sectors] \in w.parts
    /\ \A l \in w.parts :
          l.sectors # 0 /\ c.start <= l.start /\ l.start + l.sectors <= c.start + c.sectors

\* The walk over record e, with the status and the place it is left with.
WalkOver(c, w, e, status, lba) ==
    [lba |-> lba, seen |-> w.seen \cup {w.lba},
     parts |-> IF Holds(e)
               THEN w.parts \cup {[start |-> w.lba + e.start, sectors |-> e.sectors]}
               ELSE w.parts,
     status |-> status]

LEMMA EbrStepIs ==
    ASSUME NEW src, NEW t, NEW c, c.start \in Nat, c.sectors \in Nat,
           NEW w \in Walk, NEW e \in EbrRecord, e = t.ebr[w.lba]
    PROVE  \/ EbrStep(src, t, c, w) = w
           \/ \E st \in {"loop", "bad"} :
                 EbrStep(src, t, c, w) = [w EXCEPT !.status = st]
           \/ /\ Holds(e) => w.lba + e.start + e.sectors <= c.start + c.sectors
              /\ \/ ~Links(e) /\ EbrStep(src, t, c, w) = WalkOver(c, w, e, "done", w.lba)
                 \/ EbrStep(src, t, c, w) = WalkOver(c, w, e, "bad", w.lba)
                 \/ /\ ~(e.next >= c.sectors)
                    /\ w.status = "walking"
                    /\ EbrStep(src, t, c, w) = WalkOver(c, w, e, "walking", c.start + e.next)
<1> DEFINE v == [w EXCEPT !.seen = @ \cup {w.lba},
                          !.parts = IF Holds(e)
                                    THEN @ \cup {[start |-> w.lba + e.start,
                                                  sectors |-> e.sectors]}
                                    ELSE @]
           rest == IF e.link = "empty" \/ e.rest = 0
                   THEN [v EXCEPT !.status = "done"]
                   ELSE IF e.link # "extended" \/ e.next >= c.sectors
                   THEN [v EXCEPT !.status = "bad"]
                   ELSE [v EXCEPT !.lba = c.start + e.next]
<1>1. EbrStep(src, t, c, w) =
        IF w.status # "walking" THEN w
        ELSE IF w.lba \in w.seen THEN [w EXCEPT !.status = "loop"]
        ELSE IF ~e.signed \/ (Holds(e) /\ w.lba + e.start + e.sectors > c.start + c.sectors)
        THEN [w EXCEPT !.status = "bad"]
        ELSE rest
  BY Zenon DEF EbrStep, Holds
<1>2. /\ [v EXCEPT !.status = "done"] = WalkOver(c, w, e, "done", w.lba)
      /\ [v EXCEPT !.status = "bad"] = WalkOver(c, w, e, "bad", w.lba)
      /\ w.status = "walking" =>
            [v EXCEPT !.lba = c.start + e.next] = WalkOver(c, w, e, "walking", c.start + e.next)
  <2> DEFINE P == IF Holds(e)
                  THEN w.parts \cup {[start |-> w.lba + e.start, sectors |-> e.sectors]}
                  ELSE w.parts
             S == w.seen \cup {w.lba}
  <2>1. w = [lba |-> w.lba, seen |-> w.seen, parts |-> w.parts, status |-> w.status]
    BY DEF Walk
  <2>2. v = [w EXCEPT !.seen = S, !.parts = P]
    OBVIOUS
  <2>3. WalkOver(c, w, e, "done", w.lba)
          = [lba |-> w.lba, seen |-> S, parts |-> P, status |-> "done"]
    BY DEF WalkOver
  <2>4. WalkOver(c, w, e, "bad", w.lba)
          = [lba |-> w.lba, seen |-> S, parts |-> P, status |-> "bad"]
    BY DEF WalkOver
  <2>5. WalkOver(c, w, e, "walking", c.start + e.next)
          = [lba |-> c.start + e.next, seen |-> S, parts |-> P, status |-> "walking"]
    BY DEF WalkOver
  <2> HIDE DEF v, P, S
  <2>6. v = [lba |-> w.lba, seen |-> S, parts |-> P, status |-> w.status]
    BY <2>1, <2>2
  <2> QED BY <2>3, <2>4, <2>5, <2>6
<1> HIDE DEF v
<1>3. \/ ~Links(e) /\ rest = WalkOver(c, w, e, "done", w.lba)
      \/ rest = WalkOver(c, w, e, "bad", w.lba)
      \/ /\ ~(e.next >= c.sectors)
         /\ w.status = "walking" => rest = WalkOver(c, w, e, "walking", c.start + e.next)
  BY <1>2 DEF Links
<1> HIDE DEF rest
<1>4. /\ w.lba \in Nat /\ e.start \in Nat /\ e.sectors \in Nat
  BY DEF Walk, EbrRecord
<1>5. CASE w.status # "walking"
  BY <1>1, <1>5
<1>6. CASE w.status = "walking" /\ EbrStep(src, t, c, w) # rest
  BY <1>1, <1>6
<1>7. CASE /\ w.status = "walking" /\ EbrStep(src, t, c, w) = rest
           /\ Holds(e) /\ w.lba + e.start + e.sectors > c.start + c.sectors
  BY <1>1, <1>7
<1>8. CASE /\ w.status = "walking" /\ EbrStep(src, t, c, w) = rest
           /\ ~(Holds(e) /\ w.lba + e.start + e.sectors > c.start + c.sectors)
  <2>1. Holds(e) => w.lba + e.start + e.sectors <= c.start + c.sectors
    BY <1>4, <1>8
  <2> QED BY <1>3, <1>8, <2>1
<1> QED BY <1>5, <1>6, <1>7, <1>8

\* How a walk may be left by the record at w.lba.
Carries(c, w, e, st, lba) ==
    /\ Holds(e) => w.lba + e.start + e.sectors <= c.start + c.sectors
    /\ st \in {"walking", "done", "bad"} /\ InContainer(c, lba)
    /\ st = "done" => ~Links(e) /\ lba = w.lba
    /\ st = "walking" => lba = c.start + e.next

LEMMA WalkedStep ==
    ASSUME NEW src, NEW t, NEW c, c.start \in Nat, c.sectors \in Nat,
           t.ebr \in [Block -> EbrRecord], c.start + c.sectors <= MaxBlocks,
           NEW w, Walked(t, c, w)
    PROVE  Walked(t, c, EbrStep(src, t, c, w))
<1> DEFINE e == t.ebr[w.lba]
           x == EbrStep(src, t, c, w)
<1> SUFFICES Walked(t, c, x)
  OBVIOUS
<1>1. w \in Walk /\ w.lba \in Nat /\ c.start <= w.lba /\ w.lba < c.start + c.sectors
  BY DEF Walked, InContainer
<1>2. w.lba \in Block
  BY <1>1, DiskTablesAssumption DEF Block
<1>3. e \in EbrRecord
  BY <1>2
<1>4. e.start \in Nat /\ e.sectors \in Nat /\ e.next \in Nat
  BY <1>3 DEF EbrRecord
<1>5. CASE x = w
  BY <1>5
<1>6. ASSUME NEW st \in {"loop", "bad"}, x = [w EXCEPT !.status = st]
      PROVE  Walked(t, c, x)
  <2>1. /\ x \in Walk /\ x.lba = w.lba /\ x.seen = w.seen /\ x.parts = w.parts
        /\ x.status \in {"loop", "bad"}
    BY <1>1, <1>6 DEF Walk
  <2> HIDE DEF x
  <2> QED BY <2>1 DEF Walked
<1>7. ASSUME NEW st, NEW lba, Carries(c, w, e, st, lba), x = WalkOver(c, w, e, st, lba),
             w.status = "walking"
      PROVE  Walked(t, c, x)
  <2> USE <1>7 DEF Carries
  <2> DEFINE l == [start |-> w.lba + e.start, sectors |-> e.sectors]
  <2>1. /\ x.lba = lba /\ x.seen = w.seen \cup {w.lba} /\ x.status = st
        /\ x.parts = IF Holds(e) THEN w.parts \cup {l} ELSE w.parts
        /\ x = [lba |-> x.lba, seen |-> x.seen, parts |-> x.parts, status |-> x.status]
    BY <1>7 DEF WalkOver
  <2>2. l \in [start : Nat, sectors : Nat] /\ l.start = w.lba + e.start /\ l.sectors = e.sectors
    BY <1>1, <1>4
  <2> HIDE DEF x, l
  <2>3. /\ w.seen \in SUBSET Nat /\ w.parts \in SUBSET [start : Nat, sectors : Nat]
    BY <1>1 DEF Walk
  <2>4. x \in Walk
    <3>1. x.seen \in SUBSET Nat
      BY <1>1, <2>1, <2>3
    <3>2. x.parts \in SUBSET [start : Nat, sectors : Nat]
      BY <2>1, <2>2, <2>3
    <3>3. x.lba \in Nat
      BY <1>7, <2>1 DEF InContainer
    <3>4. x.status \in {"walking", "done", "loop", "bad"}
      BY <2>1
    <3> QED BY <2>1, <3>1, <3>2, <3>3, <3>4 DEF Walk
  <2>5. InContainer(c, x.lba) /\ \A b \in x.seen : InContainer(c, b)
    BY <1>7, <2>1 DEF Walked
  <2>6. c.start \in x.seen
    BY <2>1 DEF Walked
  <2>7. ASSUME x.status \in {"walking", "done"}, NEW b \in x.seen, Links(t.ebr[b])
        PROVE  c.start + t.ebr[b].next \in x.seen \cup {x.lba}
    <3>1. CASE b = w.lba
      BY <1>7, <2>1, <2>7, <3>1
    <3>2. CASE b # w.lba
      <4>1. b \in w.seen
        BY <2>1, <3>2
      <4>2. c.start + t.ebr[b].next \in w.seen \cup {w.lba}
        BY <1>7, <2>7, <4>1 DEF Walked
      <4> QED BY <2>1, <4>2
    <3> QED BY <3>1, <3>2
  <2>8. x.status = "done" => x.lba \in x.seen
    BY <1>7, <2>1
  <2>9. ASSUME NEW b \in x.seen, Holds(t.ebr[b])
        PROVE  [start |-> b + t.ebr[b].start, sectors |-> t.ebr[b].sectors] \in x.parts
    <3>1. CASE b = w.lba
      BY <2>1, <2>9, <3>1 DEF l
    <3>2. CASE b # w.lba
      <4>1. b \in w.seen
        BY <2>1, <3>2
      <4> QED BY <2>1, <2>9, <4>1 DEF Walked
    <3> QED BY <3>1, <3>2
  <2>10. ASSUME NEW k \in x.parts
         PROVE  /\ k.sectors # 0 /\ c.start <= k.start
                /\ k.start + k.sectors <= c.start + c.sectors
    <3>1. CASE k \in w.parts
      BY <3>1 DEF Walked
    <3>2. CASE k = l /\ Holds(e)
      BY <1>1, <1>4, <1>7, <2>2, <3>2 DEF Holds
    <3> QED BY <2>1, <2>10, <3>1, <3>2
  <2> QED BY <2>4, <2>5, <2>6, <2>7, <2>8, <2>9, <2>10 DEF Walked
<1>8. CASE w.status # "walking"
  BY <1>8 DEF EbrStep
<1>9. CASE w.status = "walking"
  <2>1. InContainer(c, w.lba)
    BY DEF Walked
  <2>2. ~(e.next >= c.sectors) => InContainer(c, c.start + e.next)
    BY <1>4 DEF InContainer
  <2>3. \/ x = w
        \/ \E st \in {"loop", "bad"} : x = [w EXCEPT !.status = st]
        \/ /\ Holds(e) => w.lba + e.start + e.sectors <= c.start + c.sectors
           /\ \/ ~Links(e) /\ x = WalkOver(c, w, e, "done", w.lba)
              \/ x = WalkOver(c, w, e, "bad", w.lba)
              \/ /\ ~(e.next >= c.sectors)
                 /\ x = WalkOver(c, w, e, "walking", c.start + e.next)
    BY <1>1, <1>3, EbrStepIs
  <2> HIDE DEF x, e
  <2>4. CASE x = w
    BY <1>5, <2>4
  <2>5. CASE \E st \in {"loop", "bad"} : x = [w EXCEPT !.status = st]
    <3>1. PICK st \in {"loop", "bad"} : x = [w EXCEPT !.status = st]
      BY <2>5
    <3> QED BY <1>6, <3>1
  <2>6. CASE Holds(e) => w.lba + e.start + e.sectors <= c.start + c.sectors
    <3>1. CASE ~Links(e) /\ x = WalkOver(c, w, e, "done", w.lba)
      <4>1. Carries(c, w, e, "done", w.lba)
        BY <2>1, <2>6, <3>1 DEF Carries
      <4> QED BY <1>7, <1>9, <3>1, <4>1
    <3>2. CASE x = WalkOver(c, w, e, "bad", w.lba)
      <4>1. Carries(c, w, e, "bad", w.lba)
        BY <2>1, <2>6 DEF Carries
      <4> QED BY <1>7, <1>9, <3>2, <4>1
    <3>3. CASE /\ ~(e.next >= c.sectors)
               /\ x = WalkOver(c, w, e, "walking", c.start + e.next)
      <4>1. Carries(c, w, e, "walking", c.start + e.next)
        BY <2>2, <2>6, <3>3 DEF Carries
      <4> QED BY <1>7, <1>9, <3>3, <4>1
    <3> QED BY <2>3, <2>4, <2>5, <3>1, <3>2, <3>3
  <2> QED BY <2>3, <2>4, <2>5, <2>6
<1> QED BY <1>8, <1>9

\* A walk that came to its end has seen every record the links lead to.
LEMMA WalkedWhole ==
    ASSUME NEW src, NEW t, NEW c, c.start \in Nat, c.sectors \in Nat \ {0},
           t.ebr \in [Block -> EbrRecord], c.start + c.sectors <= MaxBlocks
    PROVE  Walked(t, c, EbrWalk(src, t, c))
<1>1. PICK g : /\ EbrWalk(src, t, c) = g[MaxEbr]
               /\ g[0] = WalkStart(c)
               /\ \A n \in 1..MaxEbr : g[n] = EbrStep(src, t, c, g[n - 1])
  BY WalkIs
<1> DEFINE G == {n \in Nat : Walked(t, c, g[n])}
<1>2. 0 \in G
  <2> DEFINE w == WalkStart(c)
  <2>1. /\ w.lba = c.start /\ w.seen = {} /\ w.parts = {} /\ w.status = "walking"
        /\ w \in Walk
    BY DEF WalkStart, Walk
  <2>2. InContainer(c, w.lba)
    BY <2>1 DEF InContainer
  <2> HIDE DEF w
  <2>3. Walked(t, c, w)
    BY <2>1, <2>2 DEF Walked
  <2> QED BY <1>1, <2>3 DEF w
<1>3. ASSUME NEW n \in 1..MaxEbr, n - 1 \in G
      PROVE  n \in G
  <2>1. Walked(t, c, EbrStep(src, t, c, g[n - 1]))
    BY <1>3, WalkedStep
  <2> QED BY <1>1, <2>1
<1> HIDE DEF G
<1>4. MaxEbr \in Nat
  BY DiskTablesAssumption
<1>5. MaxEbr \in G
  BY <1>2, <1>3, <1>4, StepUp
<1> QED BY <1>1, <1>5 DEF G

-----------------------------------------------------------------------------
(* Volumes and the partition tables they come from.                        *)

LEMMA TableAtType ==
    ASSUME disk \in Disks, NEW b
    PROVE  TableType(TableAt(b))
<1>1. CASE b \in DOMAIN disk.tables
  BY <1>1, DiskTablesAssumption DEF TableAt
<1>2. CASE b \notin DOMAIN disk.tables
  <2>1. NoEbr \in EbrRecord
    BY DEF NoEbr, EbrRecord, Kind
  <2>2. NoTable.ebr \in [Block -> EbrRecord]
    BY <2>1 DEF NoTable
  <2>3. /\ NoTable.size = 0 /\ NoTable.alternate = 0
        /\ NoTable.first_usable = 0 /\ NoTable.last_usable = 0
        /\ NoTable.entries = {} /\ NoTable.mbr = {}
    BY DEF NoTable
  <2>4. TableType(NoTable)
    BY <2>2, <2>3 DEF TableType
  <2> QED BY <1>2, <2>4 DEF TableAt
<1> QED BY <1>1, <1>2

\* The partitions of a GPT that parse_gpt accepts.
GptParts(t) == {Partition(e.number, e.first, e.last - e.first + 1) : e \in t.entries}

LEMMA ParseGptFacts ==
    ASSUME NEW src, src.len \in Nat, NEW t, TableType(t), NEW copy, NEW lba, NEW alternate,
           parse_gpt(src, t, copy, lba, alternate).ok
    PROVE  /\ copy = "good" /\ parse_gpt(src, t, copy, lba, alternate).parts = GptParts(t)
           /\ \A p \in GptParts(t) : Inside(src, p.offset, p.length)
           /\ \A e \in t.entries : /\ e.first # 0 /\ e.last >= e.first
                                   /\ e.first + (e.last - e.first + 1) <= src.len
<1>1. /\ copy = "good"
      /\ ~(t.first_usable = 0) /\ ~(t.last_usable >= src.len)
      /\ \A e \in t.entries : /\ ~(e.first < t.first_usable) /\ ~(e.last < e.first)
                              /\ ~(e.last > t.last_usable)
  BY DEF parse_gpt, Refused
<1>2. parse_gpt(src, t, copy, lba, alternate) = Found(GptParts(t))
  BY DEF parse_gpt, Refused, GptParts
<1>3. ASSUME NEW e \in t.entries
      PROVE  /\ e.first \in Nat /\ e.last \in Nat /\ e.first # 0 /\ e.last >= e.first
             /\ e.first + (e.last - e.first + 1) <= src.len
  <2>1. /\ e.first \in Nat /\ e.last \in Nat
        /\ t.first_usable \in Nat /\ t.last_usable \in Nat
    BY DEF TableType
  <2> QED BY <1>1, <2>1
<1>4. ASSUME NEW e \in t.entries,
             NEW p, p = Partition(e.number, e.first, e.last - e.first + 1)
      PROVE  Inside(src, p.offset, p.length)
  <2>1. p.offset = e.first /\ p.length = e.last - e.first + 1
    BY <1>4 DEF Partition
  <2> QED BY <1>3, <2>1 DEF Inside
<1>5. \A p \in GptParts(t) : Inside(src, p.offset, p.length)
  BY <1>4 DEF GptParts
<1> QED BY <1>1, <1>2, <1>3, <1>5 DEF Found

LEMMA DiscoverGptFacts ==
    ASSUME NEW src, src.len \in Nat, NEW t, TableType(t), discover_gpt(src, t).ok
    PROVE  /\ "good" \in {t.primary, BackupCopy(src, t)}
           /\ discover_gpt(src, t).parts = GptParts(t)
           /\ \A p \in GptParts(t) : Inside(src, p.offset, p.length)
<1>1. CASE parse_primary(src, t).ok
  BY <1>1, ParseGptFacts DEF discover_gpt, parse_primary
<1>2. CASE ~parse_primary(src, t).ok
  <2>1. parse_backup(src, t).ok /\ discover_gpt(src, t) = parse_backup(src, t)
    BY <1>2 DEF discover_gpt
  <2> QED BY <2>1, ParseGptFacts DEF parse_backup
<1> QED BY <1>1, <1>2

\* BackupRecovers and ReadersAgree are about the readers alone.
LEMMA BackupAlways == BackupRecovers
<1> DEFINE src == [base |-> 0, len |-> disk.len]
           t == TableAt(0)
<1>1. \A copy, lba, alternate :
         parse_gpt(src, t, copy, lba, alternate).ok =>
            parse_gpt(src, t, copy, lba, alternate) = Found(GptParts(t))
  BY DEF parse_gpt, Refused, GptParts
<1> HIDE DEF src, t
<1>2. \A found \in {parse_primary(src, t), parse_backup(src, t)} :
         found.ok => found = Found(GptParts(t))
  BY <1>1 DEF parse_primary, parse_backup
<1>3. \A found \in {parse_primary(src, t), parse_backup(src, t)} :
         found.ok => discover_gpt(src, t) = found
  BY <1>2 DEF discover_gpt
<1> QED BY <1>3 DEF BackupRecovers, src, t

LEMMA ReadersAgreeAlways ==
    ASSUME disk \in Disks
    PROVE  ReadersAgree
<1> DEFINE t == TableAt(0)
<1>1. SUFFICES ASSUME parse_primary(Whole, t).ok
               PROVE  pool_partitions(Whole, t) = parse_primary(Whole, t).parts
  BY DEF ReadersAgree
<1>2. TableType(t) /\ Whole.len \in Nat
  BY TableAtType, DiskTablesAssumption DEF Whole
<1> HIDE DEF t
<1>3. /\ t.primary = "good" /\ parse_primary(Whole, t).parts = GptParts(t)
      /\ \A e \in t.entries : /\ e.first # 0 /\ e.last >= e.first
                              /\ e.first + (e.last - e.first + 1) <= Whole.len
  BY <1>1, <1>2, ParseGptFacts DEF parse_primary
<1> DEFINE S == {Partition(e.number, e.first, e.last - e.first + 1)
                   : e \in {x \in t.entries : x.first # 0 /\ x.last >= x.first}}
<1>4. S = GptParts(t)
  BY <1>3 DEF GptParts
<1>5. \A p \in GptParts(t) : p.offset + p.length <= Whole.len
  BY <1>3 DEF GptParts, Partition
<1>6. pool_gpt_partitions(Whole, t) = Found({p \in S : p.offset + p.length <= Whole.len})
  BY <1>3 DEF pool_gpt_partitions
<1> HIDE DEF S
<1>7. {p \in S : p.offset + p.length <= Whole.len} = GptParts(t)
  BY <1>4, <1>5
<1> QED BY <1>3, <1>6, <1>7 DEF pool_partitions, Found

InExtended(t, p) ==
    \E c \in t.mbr : /\ c.kind = "extended" /\ c.start <= p.offset
                     /\ p.offset + p.length <= c.start + c.sectors

\* The EBRs that the links of a container reach are those of its walk.
LEMMA ReachedSeen ==
    ASSUME NEW t, NEW c, c.start \in Nat, c.sectors \in Nat, NEW w,
           Walked(t, c, w), w.status = "done"
    PROVE  Reached(t, c) \subseteq w.seen
<1>1. c.start \in w.seen
  BY DEF Walked
<1>2. \A b \in w.seen : Links(t.ebr[b]) => c.start + t.ebr[b].next \in w.seen
  BY DEF Walked
<1>3. w.seen \in SUBSET {c.start + i : i \in 0..(c.sectors - 1)}
  <2>1. ASSUME NEW b \in w.seen
        PROVE  b \in {c.start + i : i \in 0..(c.sectors - 1)}
    <3>1. b \in Nat /\ c.start <= b /\ b < c.start + c.sectors
      BY DEF Walked, InContainer
    <3>2. b - c.start \in 0..(c.sectors - 1) /\ b = c.start + (b - c.start)
      BY <3>1
    <3> QED BY <3>2
  <2> QED BY <2>1
<1> QED BY <1>1, <1>2, <1>3 DEF Reached, Links

LEMMA DiscoverMbrFacts ==
    ASSUME NEW src, src.len \in Nat, src.len <= MaxBlocks, NEW t, TableType(t),
           t.signed, discover_mbr(src, t).ok
    PROVE  LET parts == discover_mbr(src, t).parts
           IN  /\ \A p \in parts : /\ Inside(src, p.offset, p.length)
                                   /\ p.number = 0 => InExtended(t, p)
               /\ \A c \in t.mbr : c.kind = "extended" /\ c.sectors # 0 =>
                     \A b \in Reached(t, c) : Holds(t.ebr[b]) =>
                        Partition(0, b + t.ebr[b].start, t.ebr[b].sectors) \in parts
<1> DEFINE used == {e \in t.mbr : e.kind # "empty" /\ e.sectors # 0}
           extended == {e \in used : e.kind = "extended"}
           primary == used \ extended
           chains == {EbrWalk(src, t, c) : c \in extended}
           logical == UNION {w.parts : w \in chains}
           parts == discover_mbr(src, t).parts
<1>1. /\ \A e \in primary : LaidOut(src, e)
      /\ \A c \in extended : ContainerFits(src, c)
      /\ \A w \in chains : w.status = "done" /\ \A l \in w.parts : LaidOut(src, l)
  BY DEF discover_mbr, Refused
<1>2. parts = {Partition(e.number, e.start, e.sectors) : e \in primary}
              \cup {Partition(0, l.start, l.sectors) : l \in logical}
  BY <1>1 DEF discover_mbr, Found
<1>3. \A e \in t.mbr : e.number \in Nat \ {0} /\ e.start \in Nat /\ e.sectors \in Nat
  BY DEF TableType
<1>4. ASSUME NEW c \in extended
      PROVE  /\ Walked(t, c, EbrWalk(src, t, c)) /\ EbrWalk(src, t, c).status = "done"
             /\ \A l \in EbrWalk(src, t, c).parts : LaidOut(src, l)
             /\ c \in t.mbr /\ c.kind = "extended" /\ c.start \in Nat /\ c.sectors \in Nat
  <2>1. c \in t.mbr /\ c.kind = "extended" /\ c.sectors # 0
    OBVIOUS
  <2>2. c.start \in Nat /\ c.sectors \in Nat \ {0}
    BY <1>3, <2>1
  <2>3. c.start + c.sectors <= src.len
    BY <1>1 DEF ContainerFits
  <2>4. c.start + c.sectors <= MaxBlocks
    BY <2>2, <2>3, DiskTablesAssumption
  <2>5. Walked(t, c, EbrWalk(src, t, c))
    BY <2>2, <2>4, WalkedWhole DEF TableType
  <2>6. EbrWalk(src, t, c) \in chains
    OBVIOUS
  <2> HIDE DEF chains, extended
  <2> QED BY <1>1, <2>1, <2>2, <2>5, <2>6
<1>5. ASSUME NEW e \in primary, NEW p, p = Partition(e.number, e.start, e.sectors)
      PROVE  Inside(src, p.offset, p.length) /\ p.number # 0
  <2>1. e \in t.mbr /\ e.sectors # 0
    OBVIOUS
  <2>2. p.number = e.number /\ p.offset = e.start /\ p.length = e.sectors
    BY <1>5 DEF Partition
  <2>3. e.start + e.sectors <= src.len
    BY <1>1 DEF LaidOut
  <2> QED BY <1>3, <2>1, <2>2, <2>3 DEF Inside
<1>6. ASSUME NEW l \in logical, NEW p, p = Partition(0, l.start, l.sectors)
      PROVE  Inside(src, p.offset, p.length) /\ InExtended(t, p)
  <2>1. PICK c \in extended : l \in EbrWalk(src, t, c).parts
    OBVIOUS
  <2> DEFINE w == EbrWalk(src, t, c)
  <2>2. /\ Walked(t, c, w) /\ c \in t.mbr /\ c.kind = "extended"
        /\ LaidOut(src, l)
    BY <1>4, <2>1
  <2> HIDE DEF w
  <2>3. l \in w.parts
    BY <2>1 DEF w
  <2>4. w.parts \in SUBSET [start : Nat, sectors : Nat]
    BY <2>2 DEF Walked, Walk
  <2>5. l.start \in Nat /\ l.sectors \in Nat
    BY <2>3, <2>4
  <2>6. l.sectors # 0 /\ c.start <= l.start /\ l.start + l.sectors <= c.start + c.sectors
    BY <2>2, <2>3 DEF Walked
  <2>7. p.offset = l.start /\ p.length = l.sectors
    BY <1>6 DEF Partition
  <2>8. Inside(src, p.offset, p.length)
    BY <2>2, <2>5, <2>6, <2>7 DEF Inside, LaidOut
  <2>9. InExtended(t, p)
    BY <2>2, <2>6, <2>7 DEF InExtended
  <2> QED BY <2>8, <2>9
<1>7. ASSUME NEW c \in t.mbr, c.kind = "extended" /\ c.sectors # 0,
             NEW b \in Reached(t, c), Holds(t.ebr[b])
      PROVE  Partition(0, b + t.ebr[b].start, t.ebr[b].sectors) \in parts
  <2> DEFINE w == EbrWalk(src, t, c)
             l == [start |-> b + t.ebr[b].start, sectors |-> t.ebr[b].sectors]
  <2>1. c \in extended
    BY <1>7
  <2>2. Walked(t, c, w) /\ w.status = "done" /\ c.start \in Nat /\ c.sectors \in Nat
    BY <1>4, <2>1
  <2>3. w \in chains
    BY <2>1
  <2> HIDE DEF w, chains, extended, primary
  <2>4. b \in w.seen
    BY <2>2, ReachedSeen
  <2>5. l \in w.parts
    BY <1>7, <2>2, <2>4 DEF Walked
  <2>6. l \in logical
    BY <2>3, <2>5
  <2>7. Partition(0, l.start, l.sectors) \in parts
    BY <1>2, <2>6
  <2> QED BY <2>7
<1>8. ASSUME NEW p \in parts
      PROVE  Inside(src, p.offset, p.length) /\ (p.number = 0 => InExtended(t, p))
  <2> HIDE DEF parts, primary, logical
  <2> QED BY <1>2, <1>5, <1>6
<1> QED BY <1>7, <1>8

\* A session shows the volumes of the table it was opened with.
Laid(s) ==
    /\ LenOf(s.layers) \in 1..MaxBlocks
    /\ discover_partitions(s.layers).ok
    /\ s.volumes = Volumes(s.layers, discover_partitions(s.layers).parts)

LEMMA ContainerLength ==
    ASSUME NEW layers, Stacked(layers), LenOf(layers) \in 1..MaxBlocks,
           open_disk_container(layers) # None
    PROVE  LenOf(open_disk_container(layers)) \in 1..MaxBlocks
<1>1. ASSUME LenOf(layers) > 1
      PROVE  LenOf(Within(layers, 1, LenOf(layers) - 1)) \in 1..MaxBlocks
  <2>1. LenOf(layers) - 1 \in Nat /\ LenOf(layers) - 1 \in 1..MaxBlocks
    BY <1>1, DiskTablesAssumption
  <2> QED BY <2>1, WithinStacked
<1> QED BY <1>1 DEF open_disk_container

LEMMA InspectLaid ==
    ASSUME NEW layers, Stacked(layers), LenOf(layers) <= MaxBlocks, NEW offset, NEW length,
           inspect_source_at(layers, offset, length) # None
    PROVE  Laid(inspect_source_at(layers, offset, length))
<1> DEFINE stored == Within(layers, offset, length)
           virtual == open_disk_container(stored)
           found == discover_partitions(virtual)
           s == inspect_source_at(layers, offset, length)
<1>1. Inside(SourceOf(layers), offset, length) /\ virtual # None /\ found.ok
  BY DEF inspect_source_at
<1>2. s = [layers |-> virtual, volumes |-> Volumes(virtual, found.parts)]
  BY <1>1 DEF inspect_source_at
<1>3. SourceOf(layers).len = LenOf(layers) /\ LenOf(layers) \in Nat
  BY StackedTop DEF SourceOf
<1>4. offset \in Nat /\ length \in Nat \ {0} /\ offset + length <= LenOf(layers)
  BY <1>1, <1>3 DEF Inside
<1>5. Stacked(stored) /\ LenOf(stored) = length
  BY <1>4, WithinStacked
<1>6. LenOf(stored) \in 1..MaxBlocks
  BY <1>3, <1>4, <1>5, DiskTablesAssumption
<1> HIDE DEF stored
<1>7. LenOf(virtual) \in 1..MaxBlocks
  BY <1>1, <1>5, <1>6, ContainerLength
<1> HIDE DEF virtual
<1>8. s.layers = virtual /\ s.volumes = Volumes(virtual, found.parts)
  BY <1>2
<1> HIDE DEF s
<1>9. Laid(s)
  BY <1>1, <1>7, <1>8 DEF Laid
<1> QED BY <1>9 DEF s

\* The parts of VolumesAreTheTables, of one session.
SessionFits(s) ==
    \A v \in s.volumes :
        LET src == SourceOf(s.layers)
            t == TableAt(src.base)
        IN  /\ Inside(src, v.partition.offset, v.partition.length)
            /\ ~HasGpt(src, t) /\ v.partition.number = 0 /\ t.signed =>
                  v.partition.offset = 0 \/ InExtended(t, v.partition)

SessionByCopies(s) ==
    LET src == SourceOf(s.layers)
        t == TableAt(src.base)
        parts == {v.partition : v \in s.volumes}
    IN  HasGpt(src, t) =>
            /\ "good" \in {t.primary, BackupCopy(src, t)}
            /\ t.entries # {} => parts = GptParts(t)

SessionComplete(s) ==
    LET src == SourceOf(s.layers)
        t == TableAt(src.base)
        parts == {v.partition : v \in s.volumes}
    IN  ~HasGpt(src, t) /\ t.signed /\ ~probe_volume(s.layers, 0, src.len) =>
            \A c \in t.mbr : c.kind = "extended" /\ c.sectors # 0 =>
                \A b \in Reached(t, c) : Holds(t.ebr[b]) =>
                    Partition(0, b + t.ebr[b].start, t.ebr[b].sectors) \in parts

SessionBoot(s) ==
    LET src == SourceOf(s.layers)
    IN  ~HasGpt(src, TableAt(src.base)) /\ probe_volume(s.layers, 0, src.len) =>
            \A v \in s.volumes : v.partition = Partition(0, 0, src.len) /\ v.filesystem

LEMMA LaidFacts ==
    ASSUME disk \in Disks, NEW s, Stacked(s.layers), Laid(s)
    PROVE  SessionFits(s) /\ SessionByCopies(s) /\ SessionComplete(s) /\ SessionBoot(s)
<1> DEFINE layers == s.layers
           src == SourceOf(layers)
           t == TableAt(src.base)
           found == discover_partitions(layers)
           whole == Partition(0, 0, LenOf(layers))
           parts == {v.partition : v \in s.volumes}
<1>1. src.len = LenOf(layers) /\ src.len \in Nat /\ src.len # 0 /\ src.len <= MaxBlocks
  BY DiskTablesAssumption DEF Laid, SourceOf
<1>2. TableType(t)
  BY TableAtType
<1>3. found.ok /\ s.volumes = Volumes(layers, found.parts)
  BY DEF Laid
<1>4. parts = IF found.parts = {} THEN {whole} ELSE found.parts
  <2> DEFINE P == IF found.parts = {} THEN {whole} ELSE found.parts
             vol(p) == [partition |-> p,
                        filesystem |-> probe_volume(layers, p.offset, p.length)]
  <2>1. s.volumes = {vol(p) : p \in P}
    BY <1>3 DEF Volumes
  <2>2. \A p : vol(p).partition = p
    OBVIOUS
  <2> HIDE DEF P, vol
  <2>3. parts = P
    BY <2>1, <2>2
  <2> QED BY <2>3 DEF P
<1>5. Inside(src, whole.offset, whole.length) /\ whole.offset = 0
  BY <1>1 DEF Inside, Partition
<1>6. ASSUME HasGpt(src, t)
      PROVE  /\ "good" \in {t.primary, BackupCopy(src, t)}
             /\ found.parts = GptParts(t)
             /\ \A p \in found.parts : Inside(src, p.offset, p.length)
  <2>1. found = discover_gpt(src, t)
    BY <1>6 DEF discover_partitions
  <2> HIDE DEF found, src, t
  <2> QED BY <1>1, <1>2, <1>3, <2>1, DiscoverGptFacts
<1>7. ASSUME ~HasGpt(src, t), probe_volume(layers, 0, src.len)
      PROVE  found.parts = {}
  BY <1>7 DEF discover_partitions, Found
<1>8. ASSUME ~HasGpt(src, t), ~probe_volume(layers, 0, src.len)
      PROVE  found = discover_mbr(src, t)
  BY <1>8 DEF discover_partitions
<1>9. ASSUME ~HasGpt(src, t)
      PROVE  \A p \in found.parts : /\ Inside(src, p.offset, p.length)
                                    /\ p.number = 0 => InExtended(t, p)
  <2>1. CASE probe_volume(layers, 0, src.len)
    BY <1>7, <1>9, <2>1
  <2>2. CASE ~probe_volume(layers, 0, src.len) /\ ~t.signed
    <3>1. discover_mbr(src, t).parts = {}
      BY <2>2 DEF discover_mbr, Found
    <3> QED BY <1>8, <1>9, <2>2, <3>1
  <2>3. CASE ~probe_volume(layers, 0, src.len) /\ t.signed
    <3>1. found = discover_mbr(src, t)
      BY <1>8, <1>9, <2>3
    <3> HIDE DEF found, src, t
    <3> QED BY <1>1, <1>2, <1>3, <2>3, <3>1, DiscoverMbrFacts
  <2> QED BY <2>1, <2>2, <2>3
<1>10. SessionFits(s)
  <2>1. ASSUME NEW v \in s.volumes
        PROVE  /\ Inside(src, v.partition.offset, v.partition.length)
               /\ ~HasGpt(src, t) /\ v.partition.number = 0 =>
                     v.partition.offset = 0 \/ InExtended(t, v.partition)
    <3>1. v.partition \in parts
      OBVIOUS
    <3>2. v.partition = whole \/ v.partition \in found.parts
      BY <1>4, <3>1
    <3> HIDE DEF found, src, t, whole, parts
    <3> QED BY <1>5, <1>6, <1>9, <3>2
  <2> QED BY <2>1 DEF SessionFits
<1>11. SessionByCopies(s)
  <2>1. t.entries # {} => GptParts(t) # {}
    BY DEF GptParts
  <2>2. HasGpt(src, t) => /\ "good" \in {t.primary, BackupCopy(src, t)}
                          /\ t.entries # {} => parts = GptParts(t)
    <3> HIDE DEF found, src, t, whole, parts
    <3> QED BY <1>4, <1>6, <2>1
  <2> QED BY <2>2 DEF SessionByCopies
<1>12. SessionComplete(s)
  <2>1. ASSUME ~HasGpt(src, t), t.signed, ~probe_volume(layers, 0, src.len),
               NEW c \in t.mbr, c.kind = "extended" /\ c.sectors # 0,
               NEW b \in Reached(t, c), Holds(t.ebr[b])
        PROVE  Partition(0, b + t.ebr[b].start, t.ebr[b].sectors) \in parts
    <3>1. found = discover_mbr(src, t)
      BY <1>8, <2>1
    <3>2. Partition(0, b + t.ebr[b].start, t.ebr[b].sectors) \in found.parts
      <4> HIDE DEF found, src, t
      <4> QED BY <1>1, <1>2, <1>3, <2>1, <3>1, DiscoverMbrFacts
    <3> HIDE DEF found, src, t, whole, parts
    <3> QED BY <1>4, <3>2
  <2> QED BY <2>1 DEF SessionComplete
<1>13. SessionBoot(s)
  <2>1. ASSUME ~HasGpt(src, t), probe_volume(layers, 0, src.len), NEW v \in s.volumes
        PROVE  v.partition = Partition(0, 0, src.len) /\ v.filesystem
    <3>1. v \in Volumes(layers, {})
      BY <1>3, <1>7, <2>1
    <3>2. v = [partition |-> whole,
               filesystem |-> probe_volume(layers, whole.offset, whole.length)]
      BY <3>1 DEF Volumes
    <3>3. whole.offset = 0 /\ whole.length = src.len /\ whole = Partition(0, 0, src.len)
      BY <1>1 DEF Partition
    <3> HIDE DEF whole
    <3>4. v.partition = whole
      BY <3>2
    <3>5. v.filesystem = probe_volume(layers, whole.offset, whole.length)
      BY <3>2
    <3> QED BY <2>1, <3>3, <3>4, <3>5
  <2> QED BY <2>1 DEF SessionBoot
<1> QED BY <1>10, <1>11, <1>12, <1>13

SessionSound(s) ==
    SessionFits(s) /\ SessionByCopies(s) /\ SessionComplete(s) /\ SessionBoot(s)

AllLaid == \A k \in DOMAIN sessions : Laid(sessions[k])

LEMMA SessionsStacked ==
    ASSUME NEW ss, SessionsOK(ss)
    PROVE  \A k \in DOMAIN ss : Stacked(ss[k].layers)
<1>1. PICK S : ss \in Seq(S) /\ \A s \in S : SessionOK(s)
  BY DEF SessionsOK
<1>2. \A k \in DOMAIN ss : ss[k] \in S
  BY <1>1
<1> QED BY <1>1, <1>2 DEF SessionOK

LEMMA LaidVolumes ==
    ASSUME ImageInv, AllLaid
    PROVE  VolumesAreTheTables
<1>1. disk \in Disks /\ \A k \in DOMAIN sessions : Stacked(sessions[k].layers)
  BY SessionsStacked DEF ImageInv
<1>2. \A k \in DOMAIN sessions : SessionSound(sessions[k])
  BY <1>1, LaidFacts DEF AllLaid, SessionSound
<1>3. VolumesFit
  BY <1>2 DEF SessionSound, SessionFits, VolumesFit, InExtended
<1>4. GptByItsCopies
  BY <1>2 DEF SessionSound, SessionByCopies, GptByItsCopies, HasGpt, GptParts
<1>5. LogicalsComplete
  BY <1>2 DEF SessionSound, SessionComplete, LogicalsComplete, Holds
<1>6. BootSectorNoTable
  BY <1>2 DEF SessionSound, SessionBoot, BootSectorNoTable
<1> QED BY <1>1, <1>3, <1>4, <1>5, <1>6, BackupAlways, ReadersAgreeAlways
       DEF VolumesAreTheTables

LEMMA LaidKept ==
    ASSUME disk' = disk, NEW s, Laid(s)
    PROVE  Laid(s)'
<1>1. \A layers, o, n : probe_volume(layers, o, n)' <=> probe_volume(layers, o, n)
  BY DEF probe_volume
<1>2. \A b : TableAt(b)' = TableAt(b)
  BY DEF TableAt
<1>3. discover_partitions(s.layers)' = discover_partitions(s.layers)
  <2>1. \A src, t : BackupCopy(src, t)' = BackupCopy(src, t)
    BY DEF BackupCopy, Ending
  <2> QED BY <1>1, <1>2, <2>1 DEF discover_partitions, HasGpt, discover_gpt,
                                  parse_primary, parse_backup
<1>4. Volumes(s.layers, discover_partitions(s.layers).parts)'
        = Volumes(s.layers, discover_partitions(s.layers).parts)
  BY <1>3 DEF Volumes, probe_volume
<1> QED BY <1>3, <1>4 DEF Laid

LEMMA LaidStep ==
    ASSUME ImageInv, AllLaid, [DiskNext]_diskVars
    PROVE  AllLaid'
<1>0. disk' = disk /\ disk \in Disks
  BY DiskKept DEF ImageInv
<1>1. ASSUME sessions' = sessions
      PROVE  AllLaid'
  BY <1>0, <1>1, LaidKept DEF AllLaid
<1>2. ASSUME sessions' = <<>>
      PROVE  AllLaid'
  BY <1>2 DEF AllLaid
<1>3. ASSUME NEW s, Laid(s), sessions' = <<s>>
      PROVE  AllLaid'
  <2>1. Laid(s)'
    BY <1>0, <1>3, LaidKept
  <2>2. \A k \in DOMAIN sessions' : sessions'[k] = s
    BY <1>3
  <2> QED BY <2>1, <2>2 DEF AllLaid
<1>4. ASSUME NEW s, Laid(s), sessions' = Append(sessions, s)
      PROVE  AllLaid'
  <2>1. Laid(s)'
    BY <1>0, <1>4, LaidKept
  <2>2. PICK S : sessions \in Seq(S)
    BY DEF ImageInv, SessionsOK
  <2>3. \A k \in DOMAIN sessions' :
           sessions'[k] = s \/ (k \in DOMAIN sessions /\ sessions'[k] = sessions[k])
    BY <1>4, <2>2
  <2>4. ASSUME NEW x, \E k \in DOMAIN sessions : x = sessions[k]
        PROVE  Laid(x)'
    <3>1. Laid(x)
      BY <2>4 DEF AllLaid
    <3> QED BY <1>0, <3>1, LaidKept
  <2>5. ASSUME NEW k \in DOMAIN sessions', NEW x, x = sessions'[k]
        PROVE  Laid(x)'
    BY <2>1, <2>3, <2>4, <2>5
  <2>6. \A k \in DOMAIN sessions' : Laid(sessions[k])'
    BY <2>5
  <2> QED BY <2>6 DEF AllLaid
<1>5. ASSUME NEW w \in Window, InspectDisk(w[1], w[2])
      PROVE  AllLaid'
  <2> DEFINE file == <<[start |-> 0, len |-> disk.len]>>
             wanted == WindowLength(file, w[1], w[2])
             s == inspect_source_at(file, w[1], wanted)
  <2>1. disk.len \in Nat /\ disk.len <= MaxBlocks
    BY <1>0, DiskTablesAssumption
  <2>2. Stacked(file) /\ LenOf(file) <= MaxBlocks
    BY <2>1, OneLayerStacked
  <2>3. sessions' = IF s = None THEN <<>> ELSE <<s>>
    BY <1>5 DEF InspectDisk
  <2> HIDE DEF file, wanted
  <2>4. s # None => Laid(s)
    BY <2>2, InspectLaid
  <2> HIDE DEF s
  <2> QED BY <1>2, <1>3, <2>3, <2>4
<1>6. ASSUME sessions # <<>>, NEW selector, NEW v \in select_volume(Top, selector),
             NEW f \in FilesOf(volume_source(Top, v)), NEW w \in Window,
             InspectChild(v, f, w[1], w[2])
      PROVE  AllLaid'
  <2> DEFINE file == Within(volume_source(Top, v), f.off, f.len)
             wanted == WindowLength(file, w[1], w[2])
             s == inspect_source_at(file, w[1], wanted)
  <2>1. f.off \in Nat /\ f.len \in Nat /\ f.len <= MaxBlocks
    BY <1>0, DiskTablesAssumption, InnerImageAssumption DEF FilesOf
  <2>2. Stacked(volume_source(Top, v))
    BY <1>6, SessionsFacts, SelectedStacked DEF ImageInv, Top
  <2>3. Stacked(file) /\ LenOf(file) <= MaxBlocks
    BY <2>1, <2>2, WithinStacked
  <2>4. s # None /\ sessions' = Append(sessions, s)
    BY <1>6 DEF InspectChild
  <2> HIDE DEF file, wanted
  <2>5. Laid(s)
    BY <2>3, <2>4, InspectLaid
  <2> HIDE DEF s
  <2> QED BY <1>4, <2>4, <2>5
<1>7. CASE AsPool
  BY <1>2, <1>7 DEF AsPool
<1>8. CASE NextImage
  <2>1. \/ \E w \in Window : InspectDisk(w[1], w[2])
        \/ /\ sessions # <<>>
           /\ \E selector : \E v \in select_volume(Top, selector) :
                 \E f \in FilesOf(volume_source(Top, v)) :
                    \E w \in Window : InspectChild(v, f, w[1], w[2])
        \/ sessions' = sessions
    BY <1>8 DEF NextImage, StartExtract, ExtractChunk, FinishExtract, Appear
  <2> QED BY <1>1, <1>5, <1>6, <2>1
<1>9. CASE UNCHANGED diskVars
  BY <1>1, <1>9 DEF diskVars, imageVars
<1> QED BY <1>7, <1>8, <1>9 DEF DiskNext, AsImage

\* VolumesAreTheTables: for every disk, table and window, at any depth, the
\* volumes a session shows are those of a valid copy of the GPT, or of the MBR
\* with every logical partition its EBR chain leads to, and lie on the disk.
THEOREM DiskVolumesAreTheTables == DiskSpec => []VolumesAreTheTables
<1>1. DiskInit => AllLaid
  BY DEF DiskInit, InitImage, AllLaid
<1>2. ImageInv /\ AllLaid /\ [DiskNext]_diskVars => AllLaid'
  BY LaidStep
<1>3. ImageInv /\ AllLaid => VolumesAreTheTables
  BY LaidVolumes
<1> QED BY <1>1, <1>2, <1>3, ImageInvariant, PTL DEF DiskSpec
=============================================================================
