----------------------------- MODULE PoolBlocks -----------------------------
(***************************************************************************)
(* How src/pool.rs reads a block, a dnode and an object of an offline      *)
(* pool member.  A block pointer names up to three copies of its block;    *)
(* any copy may be damaged, and may become so while a command runs.        *)
(*                                                                         *)
(* A block is identified with the bytes that were written to it, so "the   *)
(* checksum fits" is "the place still holds that block", and so is "the    *)
(* MAC fits" with the right key.  Units: the size of a dnode block counts  *)
(* dnodes, the size of a file's records counts bytes.                      *)
(***************************************************************************)
EXTENDS Integers, Sequences, FiniteSets, FiniteSetsExt

CONSTANTS
    Pools,              \* the pools a member may come from
    Key,                \* dataset keys
    None,               \* absent
    Failed,             \* an error
    Lost,               \* a place that cannot be read
    Zeroes,             \* the contents of a hole
    MaxBlockSize,       \* MAX_BLOCK_SIZE
    MaxIndirectLevels,  \* MAX_INDIRECT_LEVELS
    MaxZapBlocks,       \* MAX_ZAP_BYTES, in blocks
    MaxDecays           \* how often the member decays, at most

ASSUME PoolBlocksAssumption ==
    /\ {MaxBlockSize, MaxIndirectLevels, MaxZapBlocks, MaxDecays} \subseteq Nat
    /\ None # Failed /\ Zeroes # Failed /\ Key \cap {None, Failed} = {}

VARIABLES
    pool,       \* what was written, and where
    damage,     \* the places that hold something else now, with what
    decays      \* how often that has happened

diskVars == <<pool, damage, decays>>

(***************************************************************************)
(* PoolBlockPointer and PoolDnode.  The pool has                           *)
(*   body : block -> its decoded contents: dnodes, pointers, a set of      *)
(*                   <<name, value>> entries (a ZAP), an objset or bytes   *)
(*   seal : block -> the key it was sealed under, None in plain            *)
(*   home : place -> the block that was written there                      *)
(*   usable : block -> the places of the copies the reader may use         *)
(***************************************************************************)
Pointer(b, dvas, lsize, level, type, sum, crypt) ==
    [block |-> b, dvas |-> dvas, lsize |-> lsize, psize |-> lsize,
     level |-> level, type |-> type, sum |-> sum, crypt |-> crypt,
     embedded |-> FALSE]

Hole == Pointer(None, <<>>, 0, 0, "none", "off", FALSE)

\* A payload of up to 112 bytes in the pointer itself: correct_embedded_payload.
Embedded(b, lsize) == [Hole EXCEPT !.block = b, !.lsize = lsize, !.embedded = TRUE]

Dva(at) == [vdev |-> 0, gang |-> FALSE, at |-> at]

is_hole(p) == ~p.embedded /\ \A i \in DOMAIN p.dvas : p.dvas[i] = None

\* What a place holds now: a block, or Lost.
Stored(at) == IF at \in DOMAIN damage THEN damage[at] ELSE pool.home[at]

\* The object types whose level-0 blocks are encrypted; the others are
\* stored in plain, with a MAC.
is_encrypted_object_type(type) == type \in {"dnode", "file", "dir", "sa"}

Checkable == {"off", "fletcher", "sha256"}

SizesFit(p) == p.lsize \in 1..MaxBlockSize /\ p.psize \in 1..MaxBlockSize

\* A copy that can be fetched: a DVA that is set, on this vdev, no gang block, no read error.
Fetched(dva) ==
    dva # None /\ dva.vdev = 0 /\ ~dva.gang /\ Stored(dva.at) # Lost

\* Mutant: the checksum is not compared.
ChecksumFitsAny(p, dva) == TRUE

ChecksumFits(p, dva) == p.sum = "off" \/ Stored(dva.at) = p.block

\* The first of the copies, in the order of the pointer, that passes.
Best(p, good) ==
    IF good = {} THEN Failed ELSE pool.body[Stored(p.dvas[Min(good)].at)]

\* The copies, out of so many, that can be fetched and fit the checksum.
SoundCopies(p, copies) ==
    {i \in DOMAIN p.dvas :
       i <= copies /\ Fetched(p.dvas[i]) /\ ChecksumFits(p, p.dvas[i])}

\* Mutant: no copy is tried after one whose checksum does not fit.
read_block_from_first(p) ==
    CASE p.lsize \notin 1..MaxBlockSize -> Failed
      [] p.embedded -> pool.body[p.block]
      [] is_hole(p) -> Zeroes
      [] OTHER -> Best(p, {i \in SoundCopies(p, 3) :
                             \A j \in DOMAIN p.dvas : j < i => ~Fetched(p.dvas[j])})

read_block_from(p) ==
    IF p.lsize \notin 1..MaxBlockSize THEN Failed
    ELSE IF p.embedded THEN pool.body[p.block]
    ELSE IF is_hole(p) THEN Zeroes
    ELSE IF ~SizesFit(p) \/ p.sum \notin Checkable THEN Failed
    ELSE Best(p, SoundCopies(p, 3))

\* The third DVA of an encrypted body holds its salt and IV.
Copies(p) ==
    IF p.level = 0 /\ is_encrypted_object_type(p.type) THEN 2 ELSE 3

\* decrypt_block, decrypt_pool_dnode_block and authenticate_block need the
\* key; the MAC of an indirect block (indirect_mac) does not; an objset has
\* its own MAC (verify_objset_mac).
Authentic(p, dva, key) ==
    IF p.level > 0 THEN Stored(dva.at) = p.block
    ELSE p.type = "objset" \/ (Stored(dva.at) = p.block /\ pool.seal[p.block] = key)

read_pool_block_from(p, key) ==
    IF ~p.crypt THEN read_block_from(p)
    ELSE IF \/ key = None
            \/ ~SizesFit(p)
            \/ p.embedded \/ is_hole(p)
            \/ p.sum \notin Checkable
         THEN Failed
    ELSE Best(p, {i \in SoundCopies(p, Copies(p)) : Authentic(p, p.dvas[i], key)})

(***************************************************************************)
(* read_dnode_data_with_key: from the top pointer of a dnode down to the   *)
(* leaf of one logical block.  A dnode has                                 *)
(*   levels, maxblkid, blksz, fan (pointers per indirect block), top (its  *)
(*   own pointers), type and bonus.                                        *)
(***************************************************************************)
PowersOfTwo == {2^k : k \in 0..7}

\* The n-th element of a block that was read.
Nth(block, n) ==
    IF block = Failed THEN Failed
    ELSE IF n > Len(block) THEN Failed ELSE block[n]

\* From a pointer to the n-th pointer of its block; a hole stays a hole.
Child(up, n, key) ==
    IF up = Failed THEN Failed
    ELSE IF is_hole(up) THEN up ELSE Nth(read_pool_block_from(up, key), n)

\* The pointers on the way to a logical block, from the top down, and the
\* last of them, its leaf pointer; Failed where one cannot be had.
Path(dn, id, key) ==
    LET index(down) == id \div dn.fan^(dn.levels - 1 - down)
        f[down \in 0..(dn.levels - 1)] ==
            IF down = 0 THEN Nth(dn.top, index(0) + 1)
            ELSE Child(f[down - 1], (index(down) % dn.fan) + 1, key)
    IN  f
Descend(dn, id, key) == Path(dn, id, key)[dn.levels - 1]

\* Mutant: an unreadable indirect block is taken for a hole.
LeafOrHole(p, key) ==
    IF p = Failed THEN Zeroes
    ELSE IF is_hole(p) THEN Zeroes ELSE read_pool_block_from(p, key)

\* The contents of a leaf pointer.
Leaf(p, key) ==
    IF p = Failed THEN Failed
    ELSE IF is_hole(p) THEN Zeroes ELSE read_pool_block_from(p, key)

read_dnode_data_with_key(dn, id, key) ==
    IF \/ dn.levels \notin 1..MaxIndirectLevels
       \/ id > dn.maxblkid
       \/ dn.fan \notin PowersOfTwo
    THEN Failed
    ELSE Leaf(Descend(dn, id, key), key)

\* A free slot is no object.
Occupied(dn) == IF dn = Failed THEN Failed
                ELSE IF dn.type = "free" THEN None ELSE dn
DnodeIn(block, n) == IF block = Zeroes THEN None ELSE Occupied(Nth(block, n))

\* dnode_with_key: None if the object does not exist.
dnode_with_key(meta, object, key) ==
    IF meta.blksz = 0 THEN None
    ELSE IF object \div meta.blksz > meta.maxblkid THEN None
    ELSE DnodeIn(read_dnode_data_with_key(meta, object \div meta.blksz, key),
                 (object % meta.blksz) + 1)

\* The object, where its absence is an error.
Required(x) == IF x = None THEN Failed ELSE x
Object(meta, object, key) == Required(dnode_with_key(meta, object, key))

\* read_zap_object_with_key and zap_list: the entries of all the blocks.
Joined(blocks) == IF Failed \in blocks THEN Failed ELSE UNION (blocks \ {Zeroes})
read_zap_object_with_key(dn, key) ==
    IF dn = Failed THEN Failed
    ELSE IF dn.blksz = 0 \/ dn.maxblkid + 1 > MaxZapBlocks THEN Failed
    ELSE Joined({read_dnode_data_with_key(dn, i, key) : i \in 0..dn.maxblkid})

\* The entries of an object that must exist, and the value of a name.
Zap(meta, object, key) == read_zap_object_with_key(Object(meta, object, key), key)

zap_lookup(entries, name) ==
    IF entries = Failed THEN Failed
    ELSE IF \A e \in entries : e[1] # name THEN None
    ELSE (CHOOSE e \in entries : e[1] = name)[2]

(***************************************************************************)
(* The member decays: some copies of a block become unreadable or hold     *)
(* another block of the same kind (a lost or misdirected write).           *)
(***************************************************************************)
Damage(places, content) ==
    /\ decays < MaxDecays
    /\ decays' = decays + 1
    /\ damage' = [a \in DOMAIN damage \cup places |->
                    IF a \in places THEN content ELSE damage[a]]
    /\ UNCHANGED pool

\* Every block still has a copy the reader may use.
EveryBlockHasACopy ==
    \A b \in DOMAIN pool.usable : \E at \in pool.usable[b] : at \notin DOMAIN damage
=============================================================================
