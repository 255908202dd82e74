------------------------------ MODULE MCImages ------------------------------
(***************************************************************************)
(* The images inside a backup, in one run.                                 *)
(*                                                                         *)
(* StreamImage has blocks that overlap, are cut in the middle and are      *)
(* replaced, on a stream of two snapshots, and a third that is not in the  *)
(* selected chain.                                                         *)
(*                                                                         *)
(* DiskSession has disks of nine blocks: pool members on the whole disk,   *)
(* in one or two partitions, plain and in LUKS containers, with every      *)
(* pattern of stale and unreadable labels; GPT disks with every state of   *)
(* the two copies; MBR disks with every chain of three EBRs, loops         *)
(* included; and an image in a file of a partition.                        *)
(*                                                                         *)
(* Neither reads the other's state: each moves while the other is in its   *)
(* initial state, and the image of the stream beside one of the disks.     *)
(***************************************************************************)
EXTENDS StreamImage, DiskSession, TLC

\* Readers and the two snapshots of the chain are alike.
Alike == Permutations(Reader) \cup Permutations(Chain)

Disk(tables, vdevs, fs, files, container) ==
    [len |-> MaxBlocks, tables |-> tables, vdevs |-> vdevs, fs |-> fs,
     files |-> files, container |-> container]
Nothing == [b \in {} |-> NoTable]
At0(t) == [b \in {0} |-> t]

Data(n, start, sectors) ==
    [number |-> n, kind |-> "data", start |-> start, sectors |-> sectors]
Protective == [number |-> 1, kind |-> "protective", start |-> 1, sectors |-> 8]
Mbr(entries) == [NoTable EXCEPT !.signed = TRUE, !.mbr = entries]
Gpt(primary, backup, entries) ==
    [Mbr({Protective}) EXCEPT
        !.size = MaxBlocks, !.alternate = MaxBlocks - 1, !.primary = primary, !.backup = backup,
        !.first_usable = 1, !.last_usable = MaxBlocks - 1, !.entries = entries]
Entry(n, first, last) == [number |-> n, first |-> first, last |-> last]

Member1(base, length, luks, txg, mos, guid) ==
    [base |-> base, len |-> length, luks |-> luks, txg |-> txg, mos |-> mos,
     guid |-> guid, children |-> 1, type |-> "disk"]
AnyLabels == [1..4 -> 0..2]
SomeLabels == {<<2, 2, 2, 2>>, <<0, 0, 2, 2>>, <<1, 1, 0, 0>>, <<0, 0, 0, 0>>}
Good == <<2, 2, 2, 2>>
Lock == Key \cup {None}

Halves == {Data(1, 1, 4), Data(2, 5, 4)}
HalvesGpt == {Entry(1, 1, 4), Entry(2, 5, 8)}
SplitTables ==
    {Mbr(Halves), Mbr({Data(2, 5, 4)}), Mbr({Data(1, 1, 4), Data(2, 5, 5)})}
    \cup {Gpt(p, "good", HalvesGpt) : p \in {"good", "bad"}}
    \cup {Gpt("good", "good", {Entry(1, 1, 4), Entry(2, 5, 9)})}

PoolDisks ==
    {Disk(Nothing, {Member1(0, MaxBlocks, luks, txg, mos, 1)}, {}, {}, <<>>)
       : luks \in Lock, txg \in AnyLabels, mos \in SUBSET (1..2)}
    \cup
    {Disk(At0(t), {Member1(5, 4, luks, txg, mos, 1)}, {}, {}, <<>>)
       : t \in SplitTables, luks \in Lock, txg \in AnyLabels,
         mos \in {{1, 2}, {2}}}
    \cup
    {Disk(At0(t), {Member1(1, 4, a, x, {2}, 1), Member1(5, 4, b, y, {1, 2}, g)},
          {}, {}, <<>>)
       : t \in SplitTables, a, b \in Lock, x, y \in SomeLabels, g \in {1, 2}}
    \cup
    {Disk(Nothing, {[Member1(0, MaxBlocks, None, Good, {2}, 1)
                       EXCEPT !.children = c, !.type = k]}, {}, {}, <<>>)
       : c \in {1, 2}, k \in {"disk", "raidz"}}

Fs(base, length) == [base |-> base, len |-> length]
TwoFs == {Fs(1, 3), Fs(5, 3)}

\* With an alternate in the last block, past the end or in the primary's own
\* place; usable to the last block, or to the end of the shortest window.
GptDisks ==
    {Disk(At0([Gpt(p, b, entries) EXCEPT !.alternate = alternate,
                                         !.last_usable = usable]), {}, fs, {}, <<>>)
       : p, b \in Copy, fs \in {TwoFs, {Fs(0, 9)}},
         alternate \in {0, 8, 12}, usable \in {6, 8},
         entries \in {HalvesGpt, {Entry(1, 1, 4)}, {Entry(1, 1, 9)}, {}}}

\* EBRs at blocks 2, 4 and 6 of the extended partition [2, 8).
Ebr(kind, sectors, link, next) ==
    [signed |-> TRUE, kind |-> kind, start |-> 1, sectors |-> sectors,
     link |-> link, next |-> next, rest |-> 1]
Chains ==
    {[b \in Block |-> IF b = 2 THEN x ELSE IF b = 4 THEN y
                      ELSE IF b = 6 THEN z ELSE NoEbr]
       : x \in {Ebr("data", n, l, i) : n \in {1, 9}, l \in {"empty", "extended"},
                                       i \in {0, 2, 4, 6}},
         y \in {Ebr(k, 1, l, i) : k \in {"empty", "data"}, i \in {0, 4},
                                  l \in {"empty", "extended", "data"}},
         z \in {Ebr("data", 1, "empty", 0), Ebr("data", 1, "extended", 2), NoEbr}}
Extended(start, sectors) ==
    [number |-> 2, kind |-> "extended", start |-> start, sectors |-> sectors]
MbrDisks ==
    {Disk(At0([Mbr({Data(1, 1, 1), Extended(2, n)}) EXCEPT !.ebr = chain]),
          {}, {Fs(3, 1)}, {}, <<>>) : chain \in Chains, n \in {6, 8}}

\* A filesystem on [1, 9) with two files: a whole nested disk, and data.
Outer == Mbr({Data(1, 1, 8)})
File(off, length) == [fs |-> 1, off |-> off, len |-> length]
NestedDisks ==
    {Disk([b \in {0, 3, 4} |-> IF b = 0 THEN Outer ELSE IF b = i THEN t ELSE NoTable],
          {}, {Fs(1, 8), Fs(5, 2), Fs(6, 1)},
          {File(2, 5), File(7, 1), [fs |-> 5, off |-> 1, len |-> 1]},
          [b \in {3} |-> kind])
       : i \in {3, 4}, kind \in {"raw", "qcow2", "vmdk", "descriptor"},
         t \in {Mbr({Data(1, 2, 3)}), Mbr({Data(1, 1, 3), Data(2, 3, 2)}), NoTable}}
    \cup {Disk(At0(Mbr({Data(1, 1, 2)})), {}, {Fs(0, 9), Fs(1, 2)},
               {[fs |-> 0, off |-> 2, len |-> 2]}, <<>>)}

\* The whole source, the source without its first block, one that cuts the
\* disk short, one in the middle, and one that is too long.
MCWindow == {<<0, None>>, <<1, None>>, <<0, 7>>, <<2, 3>>, <<1, 9>>}

\* An empty disk, beside which the image is read.
Blank == Disk(Nothing, {}, {}, {}, <<>>)
MCDisks == {Blank} \cup PoolDisks \cup GptDisks \cup MbrDisks \cup NestedDisks

MCInit == Init /\ DiskInit
MCNext ==
    \/ disk = Blank /\ InitPool /\ InitImage /\ Next /\ UNCHANGED diskVars
    \/ Init /\ DiskNext /\ UNCHANGED vars
MCSpec == MCInit /\ [][MCNext]_<<vars, diskVars>>
=============================================================================
