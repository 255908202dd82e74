--------------------------- MODULE MCPoolSession ----------------------------
(***************************************************************************)
(* PoolSession on two families of pools: Trees has DSL directories with    *)
(* inherited keys, cycles, two names for one directory and a directory     *)
(* without a head; Files has one dataset, plain or encrypted, with a head, *)
(* a snapshot and files with holes, indirect blocks, short leaves and a    *)
(* sparse tail.                                                            *)
(***************************************************************************)
EXTENDS PoolWritten

CONSTANTS k1, k2

(***************************************************************************)
(* Pointers.  A copy of block b is at <<b, i>>.  The first DVA of "kids"   *)
(* is a gang block, that of "wrap" is on another vdev; the third DVA of an *)
(* encrypted body is its salt, which points anywhere.                      *)
(***************************************************************************)
At(b, n) == [i \in 1..n |-> Dva(<<b, i>>)]
Odd(b) ==
    CASE b = "kids" -> <<[Dva(<<b, 1>>) EXCEPT !.gang = TRUE], None, Dva(<<b, 2>>)>>
      [] b = "wrap" -> <<[Dva(<<b, 1>>) EXCEPT !.vdev = 1], Dva(<<b, 2>>)>>
      [] OTHER -> At(b, 2)
Mos(b) == Pointer(b, Odd(b), 4, 0, "zap", "fletcher", FALSE)
Zpl(b, n, size, level, type, sum, key) ==
    LET salted == key # None /\ level = 0 /\ is_encrypted_object_type(type)
    IN  Pointer(b, IF salted THEN SubSeq(At(b, n) \o <<None>>, 1, 2) \o <<Dva(<<"salt", 1>>)>>
                   ELSE At(b, n),
                size, level, type, sum, key # None)
UsableAt(b) ==
    CASE b \in {"kids", "wrap"} -> {<<b, 2>>}
      [] b \in {"f0", "f2", "f9", "g0", "t0"} -> {<<b, 1>>}
      [] OTHER -> {<<b, 1>>, <<b, 2>>}

\* Dnodes.
Free == [type |-> "free"]
Dn(type, blksz, levels, maxblkid, top, bonus) ==
    [type |-> type, blksz |-> blksz, fan |-> 2, levels |-> levels,
     maxblkid |-> maxblkid, top |-> top, bonus |-> bonus]
NoBonus == [kind |-> "none"]
ZapDn(p) == Dn("zap", 1, 1, 0, <<p>>, NoBonus)
DirDn(p, parent, head, child) ==
    Dn("dsl_dir", 1, 1, 0, <<p>>, [parent |-> parent, head |-> head, child |-> child])
SetDn(snapnames, guid, bp) ==
    Dn("dsl_dataset", 1, 1, 0, <<Hole>>, [snapnames |-> snapnames, guid |-> guid, bp |-> bp])
Meta(b, n, key) == Dn("dnode", 16, 1, 0, <<Zpl(b, n, 16, 0, "dnode", "fletcher", key)>>, NoBonus)
Znode(size) == [kind |-> "znode", size |-> size]
Sa(size) == [kind |-> "sa", size |-> size]

Entry(o, t) == [object |-> o, type |-> t]
File(ds, snap, path, object, key, bytes, sum) ==
    [ds |-> ds, snap |-> snap, path |-> path, object |-> object, key |-> key, type |-> "file",
     bytes |-> bytes, sum |-> sum, sparse_tail |-> FALSE, short_leaf |-> FALSE]
Folder(ds, snap, path, object, key, entries) ==
    [ds |-> ds, snap |-> snap, path |-> path, object |-> object, key |-> key, type |-> "dir",
     bytes |-> <<>>, sum |-> "fletcher", entries |-> entries]
Shown(name, type, size) == [name |-> name, type |-> type, size |-> size]

\* stored: the blocks on disk; inline: those in pointers; sealed: those under key.
Made(mos, body, stored, inline, sealed, key, dirs, files) ==
    LET kinds == {{"f0", "g0"}, {"f2", "f9"}, {"i1", "i9"}, {"hd", "sd"}}
    IN  [mos |-> mos, body |-> body,
         seal |-> [b \in stored \cup inline |-> IF b \in sealed THEN key ELSE None],
         home |-> [at \in {<<"salt", 1>>} \cup (stored \X {1, 2}) |-> at[1]],
         usable |-> [b \in stored |-> UsableAt(b)],
         alike |-> [b \in stored |-> UNION {k \ {b} : k \in {x \in kinds : b \in x}}],
         order |-> "$o" :> 0 @@ "a" :> 1 @@ "b" :> 2 @@ "c" :> 3 @@ "l" :> 4,
         root |-> 2, dirs |-> dirs, files |-> files]

(***************************************************************************)
(* Trees: a is encrypted; the key of its child c is c's own, its parent's, *)
(* or cannot be found because the chain of parents runs in a circle; b has *)
(* no head; l, below b, is another name for the root, for c or for the     *)
(* hidden directory $o.  Without c, $o is the fourth directory.            *)
(***************************************************************************)
SmallZpl(b, key) ==
    [type |-> "zfs", mac |-> key,
     meta |-> Dn("dnode", 16, 1, 0, <<Zpl(b, 2, 16, 0, "dnode", "fletcher", key)>>, NoBonus)]
SmallDnodes(key) ==
    LET empty == IF key = None THEN Embedded("empty", 1) ELSE Hole
    IN  <<Free, ZapDn(IF key = None THEN Embedded("master", 1)
                      ELSE Zpl("kmaster", 2, 1, 0, "master", "fletcher", key)),
          Dn("dir", 1, 1, 0, <<empty>>, Znode(2))>>

Tree(ownkey, link, circle, hasc) ==
    LET Ptr(b, key) == Zpl(b, 2, 1, 0, "objset", "fletcher", key)
        dnodes == <<Free, ZapDn(Embedded("objects", 1)),
                    DirDn(Hole, 0, 3, 4), SetDn(0, 30, Ptr("plain", None)),
                    ZapDn(Mos("kids")),
                    DirDn(IF circle THEN Hole ELSE Embedded("acrypt", 1),
                          IF circle THEN 11 ELSE 2, 6, 10),
                    SetDn(8, 60, Ptr("secret", k1)),
                    DirDn(Hole, 2, 0, 14), ZapDn(Embedded("snaps", 1)),
                    DirDn(Hole, 2, 3, 0),
                    ZapDn(Embedded("akids", 1)),
                    DirDn(IF ownkey THEN Embedded("ccrypt", 1) ELSE Hole, 5, 13, 0),
                    ZapDn(Mos("wrap")), SetDn(0, 130, Ptr("secret", k1)),
                    ZapDn(Embedded("bkids", 1)), SetDn(0, 150, Ptr("secret", k1))>>
        body == "objects" :> {<<"root_dataset", 2>>} @@
                "kids" :> {<<"a", 5>>, <<"b", 7>>, <<"$o", 9>>} @@
                "akids" :> (IF hasc THEN {<<"c", 11>>} ELSE {}) @@
                "bkids" :> {<<"l", link>>} @@
                "acrypt" :> {<<"crypto_key_obj", 12>>} @@
                "ccrypt" :> {<<"crypto_key_obj", 12>>} @@
                "wrap" :> {<<"wrapped", k1>>} @@
                "snaps" :> {<<"s", 15>>} @@
                "mos" :> dnodes @@
                "plain" :> SmallZpl("pd", None) @@ "secret" :> SmallZpl("kd", k1) @@
                "pd" :> SmallDnodes(None) @@ "kd" :> SmallDnodes(k1) @@
                "master" :> {<<"ROOT", 2>>} @@ "kmaster" :> {<<"ROOT", 2>>} @@
                "empty" :> {} @@ "salt" :> {}
        D(name, head, child, snaps, key) ==
            [name |-> name, head |-> head, child |-> child, snaps |-> snaps, key |-> key]
        none == [n \in {} |-> 0]
        key == IF circle /\ ~ownkey THEN None ELSE k1
        dirs == 2 :> D(<<>>, 3, "a" :> 5 @@ "b" :> 7 @@ "$o" :> 9, {}, None) @@
                5 :> D(<<"a">>, 6, IF hasc THEN "c" :> 11 ELSE none, {150}, key) @@
                7 :> D(<<"b">>, 0, "l" :> link, {}, None) @@
                9 :> D(<<"b", "l">>, 3, none, {}, None) @@
                11 :> D(<<"a", "c">>, 13, none, {}, key)
    IN  Made(Dn("dnode", 16, 1, 0, <<Mos("mos")>>, NoBonus), body,
             {"mos", "kids", "wrap", "plain", "secret", "pd", "kd", "kmaster"},
             {"objects", "akids", "bkids", "acrypt", "ccrypt", "snaps", "master", "empty"},
             {"secret", "kd", "kmaster"}, k1,
             dirs,
             {Folder(d, None, <<>>, 2, None, {}) : d \in {2, 9}}
             \cup (IF key = None THEN {}
                   ELSE {Folder(5, None, <<>>, 2, k1, {}), Folder(5, 150, <<>>, 2, k1, {}),
                         Folder(11, None, <<>>, 2, k1, {})}))

(***************************************************************************)
(* Files, in one dataset under key, the leaves with checksum sum; the root *)
(* directory has an indirect block:                                        *)
(*   f   1 2 0 0 3 0 (snapshot: 1 2 0 0 2 0), with a hole and a short leaf *)
(*   d/g 2, the first byte of its record                                   *)
(*   t   1 1 0, the last byte beyond dn_maxblkid                           *)
(*   x   a symbolic link, a device or a pipe                               *)
(***************************************************************************)
FilesPool(key, sum, sa) ==
    LET Record(b, n) == Zpl(b, 1, n, 0, "file", sum, key)
        Ind(b) == Zpl(b, 2, 2, 1, "file", "fletcher", key)
        Dir(b) == Zpl(b, 2, 1, 0, "dir", "fletcher", key)
        Bonus(n) == IF sa THEN Sa(n) ELSE Znode(n)
        F(i) == Dn("file", 2, 2, 2, <<Ind("i0"), Ind(i)>>, Bonus(6))
        D(b) == Dn("dir", 1, 1, 0, <<Dir(b)>>, Bonus(1))
        R == Dn("dir", 1, 2, 0, <<Zpl("ri", 2, 1, 1, "dir", "fletcher", key)>>, Bonus(1))
        S(b) == Dn("sa", 1, 1, 0, <<Zpl(b, 2, 1, 0, "sa", "fletcher", key)>>, NoBonus)
        Dnodes(i) == <<Free, Dn("master", 1, 1, 0,
                                <<Zpl("fmaster", 2, 1, 0, "master", "fletcher", key)>>, NoBonus),
                       R, F(i),
                       Dn("file", 2, 1, 0, <<Record("t0", 2)>>, Bonus(3)),
                       D("subd"),
                       Dn("file", 2, 1, 0, <<Record("g0", 2)>>, Bonus(1)),
                       S("sam"), S("sar"), S("sal"),
                       Dn("file", 2, 1, 0, <<Hole>>, Bonus(2))>>
        body == "objects" :> {<<"root_dataset", 2>>} @@ "snaps" :> {<<"s", 6>>} @@
                "acrypt" :> {<<"crypto_key_obj", 5>>} @@ "cwrap" :> {<<"wrapped", k1>>} @@
                "mos" :> <<Free, ZapDn(Embedded("objects", 1)),
                           DirDn(Embedded("acrypt", 1), 0, 3, 0),
                           SetDn(4, 30, Zpl("head", 2, 1, 0, "objset", "fletcher", key)),
                           ZapDn(Embedded("snaps", 1)), ZapDn(Embedded("cwrap", 1)),
                           SetDn(0, 100, Zpl("snap", 2, 1, 0, "objset", "fletcher", key))>> @@
                "head" :> [type |-> "zfs", mac |-> key, meta |-> Meta("hd", 2, key)] @@
                "snap" :> [type |-> "zfs", mac |-> key, meta |-> Meta("sd", 2, key)] @@
                "hd" :> Dnodes("i1") @@ "sd" :> Dnodes("i9") @@
                "i0" :> <<Record("f0", 2), Hole>> @@
                "ri" :> <<Dir("rootd")>> @@
                "i1" :> <<Record("f2", 1), Hole>> @@ "i9" :> <<Record("f9", 1), Hole>> @@
                "f0" :> <<1, 2>> @@ "f2" :> <<3>> @@ "f9" :> <<2>> @@
                "g0" :> <<2, 1>> @@ "t0" :> <<1, 1>> @@
                "fmaster" :> ({<<"ROOT", 2>>} \cup IF sa THEN {<<"SA_ATTRS", 7>>} ELSE {}) @@
                "sam" :> {<<"REGISTRY", 8>>, <<"LAYOUTS", 9>>} @@
                "sar" :> {<<"registry", 1>>} @@ "sal" :> {<<"layout", 1>>} @@
                "rootd" :> {<<"f", Entry(3, "file")>>, <<"t", Entry(4, "file")>>,
                            <<"d", Entry(5, "dir")>>, <<"x", Entry(10, "other")>>} @@
                "subd" :> {<<"g", Entry(6, "file")>>} @@ "salt" :> {}
        sealed == {"head", "snap", "hd", "sd", "i0", "i1", "i9", "ri", "f0", "f2", "f9", "g0",
                   "t0", "fmaster", "rootd", "subd"} \cup IF sa THEN {"sam", "sar", "sal"} ELSE {}
        At0(snap, last) ==
            {[File(2, snap, <<"f">>, 3, key, <<1, 2, 0, 0, last, 0>>, sum)
                 EXCEPT !.short_leaf = TRUE],
             [File(2, snap, <<"t">>, 4, key, <<1, 1, 0>>, sum) EXCEPT !.sparse_tail = TRUE],
             File(2, snap, <<"d", "g">>, 6, key, <<2>>, sum),
             [File(2, snap, <<"x">>, 10, key, <<>>, "fletcher") EXCEPT !.type = "other"],
             Folder(2, snap, <<>>, 2, key, {Shown("f", "file", 6), Shown("t", "file", 3),
                                            Shown("d", "dir", 1), Shown("x", "other", 2)}),
             Folder(2, snap, <<"d">>, 5, key, {Shown("g", "file", 1)})}
    IN  Made(Dn("dnode", 16, 1, 0, <<Mos("mos")>>, NoBonus), body,
             sealed \cup {"mos"}, {"objects", "snaps", "acrypt", "cwrap"}, sealed, key,
             2 :> [name |-> <<>>, head |-> 3, child |-> [n \in {} |-> 0], snaps |-> {100},
                   key |-> k1],
             At0(None, 3) \cup At0(100, 2))

MCPools ==
    {Tree(own, 2, circle, TRUE) : own, circle \in BOOLEAN}
    \cup {Tree(FALSE, 11, FALSE, TRUE)} \cup {Tree(TRUE, 9, FALSE, hasc) : hasc \in BOOLEAN}
    \cup {FilesPool(None, "fletcher", FALSE), FilesPool(None, "off", FALSE),
          FilesPool(k1, "off", TRUE)}

Do(op, ds, snap, path, key, force) ==
    [NoCall EXCEPT !.op = op, !.ds = ds, !.snap = snap, !.path = path, !.key = key,
                   !.force = force, !.count = IF op = "small" THEN 6 ELSE 0]
ReadAt(offset, count) ==
    [NoCall EXCEPT !.op = "read", !.offset = offset, !.count = count]
TreeCalls ==
    {Do("inspect", <<>>, None, <<>>, None, FALSE)}
    \cup {Do("require", ds, None, <<>>, None, FALSE) : ds \in {<<"a">>, <<"a", "c">>, <<"b">>}}
    \cup {Do("list", ds, s, <<>>, k, FALSE)
            : ds \in {<<>>, <<"a">>, <<"a", "c">>}, s \in {None, 150}, k \in {None, k1, k2}}
\* Every command on files whose key is k, and two with another key or none.
FileCalls(k) ==
    {Do("list", <<>>, None, p, k, FALSE) : p \in {<<>>, <<"d">>}}
    \cup {Do("extract", <<>>, s, <<"f">>, k, TRUE) : s \in {None, 100}}
    \cup {Do(op, <<>>, None, p, k, FALSE)
            : op \in {"treefile", "small"}, p \in {<<"t">>, <<"d", "g">>, <<"x">>}}
    \cup {Do(op, <<>>, None, <<"f">>, k, FALSE) : op \in {"small", "extract"}}
    \cup {Do("extract", <<>>, None, p, k, FALSE) : p \in {<<"f", "g">>, <<"d">>, <<"z">>, <<"x">>}}
    \cup {Do("image", <<>>, 100, p, k, FALSE) : p \in {<<"f">>, <<"t">>, <<"x">>}}
    \cup {Do(op, <<>>, None, <<"f">>, other, FALSE)
            : op \in {"extract", "image"}, other \in {None, k1} \ {k}}
\* A second command, on what the first left.
SecondCalls(k) ==
    {Do("extract", <<>>, s, <<"f">>, k, TRUE) : s \in {None, 100}}
    \cup {Do("extract", <<>>, None, <<"f">>, k, FALSE),
          Do("treefile", <<>>, None, <<"d", "g">>, k, FALSE)}
    \cup {ReadAt(0, 3), ReadAt(1, 5), ReadAt(5, 2)}
MCCalls(p, n) ==
    LET files == "f0" \in DOMAIN p.body
        open == \E f \in p.files : Unprotected(f)
        k == (CHOOSE f \in p.files : TRUE).key
        forced == {c \in FileCalls(k) : c.force}
    IN  CASE ~files /\ n = 1 -> TreeCalls
          [] files /\ n = 1 /\ open -> forced
          [] files /\ n = 1 /\ ~open ->
                FileCalls(k) \cup {[c EXCEPT !.mortal = TRUE] : c \in forced}
          [] files /\ n = 2 /\ ~open -> SecondCalls(k)
          [] OTHER -> {}
=============================================================================
