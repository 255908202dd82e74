---------------------------- MODULE PoolWritten -----------------------------
(***************************************************************************)
(* A pool that is sound as it was written: pool.dirs and pool.files        *)
(* describe what the member has before it decays, and every block that     *)
(* leads to others or that a command's answer rests on can be read, and    *)
(* cannot be read wrong.  Nothing is asked of the leaves of a file without *)
(* checksum and MAC.  This is the hypothesis of the theorems about the     *)
(* commands on a pool member.                                              *)
(***************************************************************************)
EXTENDS PoolSession

\* The member as it was written.
Intact == INSTANCE PoolBlocks WITH damage <- <<>>

-----------------------------------------------------------------------------
(* Blocks.                                                                 *)

\* A block that cannot be read wrong: it has a checksum, or a MAC that covers
\* it, or lies in the pointer.
Protected(p) ==
    p.embedded \/ p.sum # "off" \/ (p.crypt /\ (p.level > 0 \/ p.type # "objset"))

\* How many of its DVAs are copies.
CopiesOf(p) == IF p.crypt THEN Copies(p) ELSE 3

\* The places a reader may use for p's block are copies that p names.
UsableNamed(p) ==
    /\ p.block \in DOMAIN pool.usable
    /\ \A at \in pool.usable[p.block] : \E i \in DOMAIN p.dvas :
          /\ i <= CopiesOf(p) /\ p.dvas[i] # None
          /\ p.dvas[i].vdev = 0 /\ ~p.dvas[i].gang
          /\ p.dvas[i].at = at /\ pool.home[at] = p.block

\* A pointer whose block was written so that it can be read, and not wrong.
Kept(p, key) ==
    /\ DOMAIN p.dvas \subseteq Nat
    /\ Intact!read_pool_block_from(p, key) # Failed
    /\ Protected(p)
    /\ p.embedded \/ is_hole(p) \/ (UsableNamed(p) /\ p.block # Lost)

\* The dnode's own fields are in order and id is one of its blocks.
Has(dn, id) ==
    /\ dn.levels \in 1..MaxIndirectLevels /\ dn.fan \in PowersOfTwo
    /\ dn.maxblkid \in Nat /\ id \in 0..dn.maxblkid

\* The pointers on the way down to depth N are sound.
WayKept(dn, id, key, N) ==
    \A n \in 0..N : LET p == Intact!Path(dn, id, key)[n]
                    IN  p # Failed /\ (is_hole(p) \/ Kept(p, key))

\* Every block on the way to logical block id is sound, and so is the block.
KeptData(dn, id, key) == Has(dn, id) /\ WayKept(dn, id, key, dn.levels - 1)

-----------------------------------------------------------------------------
(* Objects and ZAPs.                                                       *)

\* An object of a sound block of dnodes.
KeptObject(meta, o, key) ==
    /\ meta.blksz \in Nat \ {0} /\ o \in Nat
    /\ KeptData(meta, o \div meta.blksz, key)
    /\ Intact!Object(meta, o, key) # Failed

KeptZap(dn, key) ==
    /\ dn.blksz # 0 /\ dn.maxblkid \in Nat /\ dn.maxblkid + 1 <= MaxZapBlocks
    /\ \A i \in 0..dn.maxblkid : KeptData(dn, i, key)
    /\ Intact!read_zap_object_with_key(dn, key) # Failed

KeptZapObject(meta, o, key) ==
    KeptObject(meta, o, key) /\ KeptZap(Intact!Object(meta, o, key), key)

-----------------------------------------------------------------------------
(* DSL directories, the datasets and snapshots they lead to, and their     *)
(* files.                                                                  *)

MosDn(o) == Intact!Object(pool.mos, o, None)
MosEntries(o) == Intact!Zap(pool.mos, o, None)

\* The entries of the snapshot names of a directory's head.
SnapEntries(d) ==
    LET names == MosDn(pool.dirs[d].head).bonus.snapnames
    IN  IF names = 0 THEN {} ELSE MosEntries(names)

\* The crypto key object that a directory itself names.
Crypto(d) ==
    zap_lookup(Intact!read_zap_object_with_key(MosDn(d), None), "crypto_key_obj")

ChildrenSound(d) ==
    LET child == pool.dirs[d].child
        at == MosDn(d).bonus.child
    IN  /\ IsFiniteSet(DOMAIN child)
        /\ \A n \in DOMAIN child :
              /\ n \in STRING /\ child[n] \in DOMAIN pool.dirs /\ pool.order[n] \in Int
              /\ \A m \in DOMAIN child : pool.order[n] = pool.order[m] => n = m
        /\ IF at = 0 THEN DOMAIN child = {}
           ELSE /\ KeptZapObject(pool.mos, at, None)
                /\ MosEntries(at) = {<<n, child[n]>> : n \in DOMAIN child}

HeadSound(d) ==
    LET head == pool.dirs[d].head
        names == MosDn(head).bonus.snapnames
    IN  /\ KeptObject(pool.mos, head, None)
        /\ names # 0 => KeptZapObject(pool.mos, names, None)
        /\ \A e \in SnapEntries(d) : KeptObject(pool.mos, e[2], None)
        /\ pool.dirs[d].snaps = {MosDn(e[2]).bonus.guid : e \in SnapEntries(d)}

\* The key is that of the directory, or of the one above it.
KeySound(d) ==
    LET parent == MosDn(d).bonus.parent
    IN  IF Crypto(d) \notin {None, 0}
        THEN /\ KeptZapObject(pool.mos, Crypto(d), None)
             /\ zap_lookup(MosEntries(Crypto(d)), "wrapped") = pool.dirs[d].key
             /\ pool.dirs[d].key \in Key
        ELSE parent # 0 => /\ parent \in DOMAIN pool.dirs
                           /\ pool.dirs[parent].key = pool.dirs[d].key

\* The objects of a dataset (snap is None) or of a snapshot, and its files.
DatasetObjects(d, snap) ==
    IF snap = None THEN {pool.dirs[d].head}
    ELSE {e[2] : e \in {x \in SnapEntries(d) : MosDn(x[2]).bonus.guid = snap}}
FilesOf(d, snap) == {f \in pool.files : f.ds = d /\ f.snap = snap}

Bp(o) == MosDn(o).bonus.bp
KeyOf(d, o) == IF Bp(o).crypt THEN pool.dirs[d].key ELSE None
Objset(d, o) == Intact!read_pool_block_from(Bp(o), KeyOf(d, o))
MasterOf(meta, key) == Intact!Zap(meta, 1, key)
SaOf(meta, key) == zap_lookup(MasterOf(meta, key), "SA_ATTRS") # None

\* A directory has the files that its entries name.
FolderSound(f, meta, key) ==
    LET entries == Intact!Zap(meta, f.object, key)
    IN  /\ KeptZapObject(meta, f.object, key)
        /\ \A e \in entries :
              /\ KeptObject(meta, e[2].object, key)
              /\ \E g \in FilesOf(f.ds, f.snap) :
                    /\ g.path = Append(f.path, e[1]) /\ g.object = e[2].object
                    /\ g.type = e[2].type
        /\ f.entries = {[name |-> e[1], type |-> e[2].type,
                         size |-> attrs(Intact!Object(meta, e[2].object, key),
                                        SaOf(meta, key))] : e \in entries}

\* The block of a file, and the byte at a position, as they were written.
BlockOf(dn, id, key) ==
    IF id > dn.maxblkid THEN Zeroes ELSE Intact!read_dnode_data_with_key(dn, id, key)
ByteOf(block, within) ==
    IF block = Zeroes THEN 0 ELSE IF within + 1 <= Len(block) THEN block[within + 1] ELSE 0
ByteAt(dn, pos, key) == ByteOf(BlockOf(dn, pos \div dn.blksz, key), pos % dn.blksz)

\* The blocks have the file's bytes; without a checksum only their way is sure.
DataSound(f, dn, key) ==
    /\ f.bytes \in Seq(Nat) /\ dn.blksz \in Nat /\ dn.maxblkid \in Nat
    /\ dn.blksz # 0 /\ ~Unprotected(f) =>
          /\ \A id \in 0..dn.maxblkid : KeptData(dn, id, key)
          /\ \A pos \in 0..(Len(f.bytes) - 1) : f.bytes[pos + 1] = ByteAt(dn, pos, key)
    /\ ~f.short_leaf => \A id \in 0..dn.maxblkid :
          LET block == BlockOf(dn, id, key)
          IN  \/ block = Zeroes
              \/ /\ block \in Seq(Nat)
                 /\ \/ Len(block) >= dn.blksz
                    \/ Len(block) >= Len(f.bytes) - id * dn.blksz

FileSound(f, meta, key) ==
    LET dn == Intact!Object(meta, f.object, key)
    IN  /\ KeptObject(meta, f.object, key)
        /\ attrs(dn, SaOf(meta, key)) = Len(f.bytes)
        /\ DataSound(f, dn, key)

TreeSound(d, snap, meta, key) ==
    /\ KeptZapObject(meta, 1, key)
    /\ \E f \in FilesOf(d, snap) :
          f.path = <<>> /\ f.type = "dir" /\ f.object = zap_lookup(MasterOf(meta, key), "ROOT")
    /\ \A f \in FilesOf(d, snap) :
          /\ KeptObject(meta, f.object, key)
          /\ f.type = "dir" => FolderSound(f, meta, key)
          /\ f.type = "file" => FileSound(f, meta, key)

\* The dataset opens, if it is encrypted with the key found from its directory.
DatasetSound(d, snap, o) ==
    (Bp(o).crypt => pool.dirs[d].key # None) =>
        /\ Kept(Bp(o), KeyOf(d, o))
        /\ \A f \in FilesOf(d, snap) : f.key = KeyOf(d, o)
        /\ Objset(d, o).type = "zfs" => TreeSound(d, snap, Objset(d, o).meta, KeyOf(d, o))

DirSound(d) ==
    /\ KeptZapObject(pool.mos, d, None)
    /\ MosDn(d).bonus.head = pool.dirs[d].head
    /\ ChildrenSound(d) /\ KeySound(d)
    /\ pool.dirs[d].head # 0 =>
          /\ HeadSound(d)
          /\ \A snap \in {None} \cup pool.dirs[d].snaps : \A o \in DatasetObjects(d, snap) :
                DatasetSound(d, snap, o)

PoolSound ==
    /\ KeptZapObject(pool.mos, 1, None)
    /\ zap_lookup(MosEntries(1), "root_dataset") = pool.root
    /\ IsFiniteSet(DOMAIN pool.dirs) /\ pool.root \in DOMAIN pool.dirs
    /\ \A d \in DOMAIN pool.dirs : DirSound(d)

\* A member that was written soundly (no pool falls outside the theorems'
\* hypothesis), and then no step, of a command or of decay, comes to the
\* failure of a command that can be answered while each of the member's blocks
\* has an undamaged copy.
WrittenSuffices == PoolSound /\ [][IntactSuffices']_vars
=============================================================================
