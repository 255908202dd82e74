------------------------------ MODULE PoolOpen ------------------------------
(***************************************************************************)
(* PoolMember::open_with_container_key of src/pool.rs: which part of a     *)
(* disk is the pool member.  A vdev keeps four labels, in the first two    *)
(* and the last two blocks of its extent, any of which may be unreadable   *)
(* or stale; a partition that ends where the disk ends shares the last two *)
(* with the disk as a whole.  The vdev may be the payload of a LUKS        *)
(* container.  A block pointer is read at the place it names in the source *)
(* that was chosen, and its checksum fits only in the vdev it belongs to.  *)
(***************************************************************************)
EXTENDS DiskTables

CONSTANT Key    \* container passphrases

ASSUME PoolOpenAssumption ==
    /\ None \notin Key
    /\ None \notin [src : [base : Nat, len : Nat], luks : BOOLEAN]
    /\ None \notin [src : [base : Nat, len : Nat], luks : BOOLEAN, guid : Nat, txg : Nat]

VARIABLES
    member,     \* the opened PoolMember, None if there is none
    attempt     \* the last call: its key and whether it succeeded

poolVars == <<member, attempt>>

\* A vdev at [base, base + len): txg[i] is what its i-th label says, 0 if it
\* cannot be read; mos holds the txgs whose MOS block is intact.
Vdev ==
    [base : Block, len : 4..MaxBlocks, luks : Key \cup {None},
     txg : [1..4 -> Nat], mos : SUBSET Nat, guid : Nat, children : Nat,
     type : {"disk", "raidz"}]

NoAttempt == [key |-> None, done |-> FALSE, ok |-> FALSE]

\* FileSource::open on the whole disk.
Whole == [base |-> 0, len |-> disk.len]

\* label_offsets
LabelBlock(src, i) ==
    IF i <= 2 THEN src.base + i - 1 ELSE src.base + src.len + i - 5

\* read_labels: the vdevs whose labels are readable at a source's own label
\* places, each with the txg it says.  luks: the source is a LUKS payload.
read_labels(src, luks) ==
    LET here(v) == /\ (v.luks # None) = luks
                   /\ luks => v.base = src.base /\ v.len = src.len
        seen(v) == {v.txg[i] : i \in {k \in 1..4 : \E j \in 1..4 :
                                  LabelBlock(v, k) = LabelBlock(src, j)}} \ {0}
    IN  UNION {{[vdev |-> v, txg |-> t] : t \in seen(v)}
                 : v \in {x \in disk.vdevs : here(x)}}

\* is_luks, unlock_luks
is_luks(src) == \E v \in disk.vdevs : v.luks # None /\ v.base = src.base
Unlocks(src, key) ==
    \E v \in disk.vdevs : v.luks = key /\ v.base = src.base /\ key # None

Opening(src, luks) == [src |-> src, luks |-> luks]

\* The partitions as sources: a slice has room for four labels.
Slices ==
    {Slice(Whole, p.offset, p.length)
       : p \in {q \in pool_partitions(Whole, TableAt(0)) :
                  q.length >= 4 /\ Inside(Whole, q.offset, q.length)}}

\* The candidates of the partition loop.
Candidates(key) ==
    {Opening(s, FALSE) : s \in {x \in Slices : read_labels(x, FALSE) # {}}}
    \cup
    {Opening(s, TRUE)
       : s \in {x \in Slices : /\ read_labels(x, FALSE) = {}
                               /\ Unlocks(x, key)
                               /\ read_labels(x, TRUE) # {}}}

\* Mutant: the first of several candidates is taken.
ChosenFirst(key) ==
    IF read_labels(Whole, FALSE) # {} /\ pool_partitions(Whole, TableAt(0)) = {}
    THEN IF key = None THEN Opening(Whole, FALSE) ELSE None
    ELSE IF is_luks(Whole)
    THEN IF Unlocks(Whole, key) THEN Opening(Whole, TRUE) ELSE None
    ELSE LET candidates == Candidates(key)
         IN  IF candidates = {} THEN None
             ELSE LET c == CHOOSE x \in candidates : TRUE
                  IN  IF key # None /\ ~c.luks THEN None ELSE c

\* The source: the whole disk if it has labels and no partitions, else the
\* payload of a whole-disk LUKS container, else the only candidate.  A key
\* that was given is never left unused.
Chosen(key) ==
    IF read_labels(Whole, FALSE) # {} /\ pool_partitions(Whole, TableAt(0)) = {}
    THEN IF key = None THEN Opening(Whole, FALSE) ELSE None
    ELSE IF is_luks(Whole)
    THEN IF Unlocks(Whole, key) THEN Opening(Whole, TRUE) ELSE None
    ELSE LET candidates == Candidates(key)
         IN  IF Cardinality(candidates) # 1 THEN None
             ELSE LET c == CHOOSE x \in candidates : TRUE
                  IN  IF key # None /\ ~c.luks THEN None ELSE c

\* Mutant: the label of the lowest txg is the active one.
ActiveOldest(labels) ==
    CHOOSE l \in labels : \A m \in labels : l.txg <= m.txg

\* The active label: the sort by txg, and its last element.
Active(labels) == CHOOSE l \in labels : \A m \in labels : l.txg >= m.txg

\* read_block_from of the MOS: in place, and intact at that txg.
MosReads(src, l) == l.vdev.base = src.base /\ l.txg \in l.vdev.mos

\* The rest of open_with_container_key, from the labels of the source.
Member(c) ==
    LET labels == read_labels(c.src, c.luks)
        active == Active(labels)
    IN  IF \/ labels = {}
           \/ active.vdev.children # 1
           \/ active.vdev.type # "disk"
           \/ \E l \in labels : l.vdev.guid # active.vdev.guid
           \/ ~MosReads(c.src, active)
        THEN None
        ELSE [src |-> c.src, luks |-> c.luks, guid |-> active.vdev.guid,
              txg |-> active.txg]

\* open and open_with_container_key; a member already open is replaced.
OpenPool(key) ==
    LET c == Chosen(key)
        m == IF disk.len < 4 \/ c = None THEN None ELSE Member(c)
    IN  /\ member' = m
        /\ attempt' = [key |-> key, done |-> TRUE, ok |-> m # None]
        /\ UNCHANGED disk

InitPool == member = None /\ attempt = NoAttempt
NextPool == \E key \in Key \cup {None} : OpenPool(key)

-----------------------------------------------------------------------------
Newest(v) == CHOOSE t \in {v.txg[i] : i \in 1..4} : \A i \in 1..4 : v.txg[i] <= t

\* A member that opens is read where its vdev lies, and from the newest label
\* that can be read: labels that also belong to the disk around a partition,
\* stale labels and labels of another pool never give a view of something
\* else.
OpenedInPlace ==
    member # None =>
        \E v \in disk.vdevs :
            /\ v.base = member.src.base /\ v.len = member.src.len
            /\ v.guid = member.guid /\ (v.luks # None) = member.luks
            /\ member.txg = Newest(v)

\* A vdev in a partition of the table, with a readable label, that the call
\* can look into.
InReach(v, key) ==
    /\ Slice(Whole, v.base, v.len) \in Slices
    /\ v.luks \in {None, key}
    /\ Newest(v) # 0

\* README: a whole disk is supported when exactly one partition resolves to a
\* plain or LUKS-wrapped member.  With two in reach, no call picks one for
\* the user; a passphrase brings the containers it unlocks in reach.
NoSilentChoice ==
    attempt.ok =>
        \A v, w \in disk.vdevs :
            InReach(v, attempt.key) /\ InReach(w, attempt.key) => v = w

\* The only pool of a disk whose table is intact opens, with the key of its
\* container and no other: no label of the disk as a whole gets in its way.
SolePoolOpens ==
    attempt.done =>
        \A v \in disk.vdevs :
            /\ disk.vdevs = {v}
            /\ v.children = 1 /\ v.type = "disk"
            /\ Newest(v) # 0 /\ Newest(v) \in v.mos
            /\ \/ v.base = 0 /\ v.len = disk.len /\ 0 \notin DOMAIN disk.tables
               \/ v.base # 0 /\ Slice(Whole, v.base, v.len) \in Slices
            => attempt.ok = (attempt.key = v.luks)

\* What opens is the one pool in reach, and the one pool in reach opens.
OnePoolOpens == NoSilentChoice /\ SolePoolOpens

\* format-notes.md: the partitions of a disk are looked at "if it has no labels
\* at disk-relative offsets".  Not so: a partition that ends where the disk
\* does is opened although its rear labels are seen on the disk as a whole
\* (pool.rs:622).
LabelsBeforePartitions ==
    attempt.ok /\ read_labels(Whole, FALSE) # {} => member.src = Whole

\* Hypothesis of the theorems about OpenedInPlace and OnePoolOpens: the disk
\* is as the program may find it.  A vdev is alone at its place and, if it
\* starts where the disk or a partition does, it also ends there; partitions
\* do not overlap, and a LUKS container on the whole disk leaves no room for
\* a table.  Transaction groups are bounded (u64).
Txgs == UNION {{v.txg[i] : i \in 1..4} : v \in disk.vdevs}
DiskSound ==
    /\ disk.len \in Nat /\ disk.vdevs \subseteq Vdev
    /\ \E top \in {0} \cup Txgs : \A v \in disk.vdevs : \A i \in 1..4 : v.txg[i] <= top
    /\ \A v \in disk.vdevs : \A s \in Slices \cup {Whole} :
          v.luks = None /\ v.base = s.base => v.len = s.len
    /\ \A v, w \in disk.vdevs : v.base = w.base => v = w
    /\ is_luks(Whole) => pool_partitions(Whole, TableAt(0)) = {}
    /\ \A s, x \in Slices :
          s # x => s.base + s.len <= x.base \/ x.base + x.len <= s.base
=============================================================================
