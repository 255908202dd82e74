----------------------------- MODULE DiskTables -----------------------------
(***************************************************************************)
(* The two partition-table readers of the program, over the same disks:    *)
(* the lenient one that looks for a pool member (src/pool.rs) and the      *)
(* strict one that lays out a disk image (src/inception.rs).               *)
(*                                                                         *)
(* A disk is measured in blocks of one vdev label.  Readers are given a    *)
(* source, the interval [base, base + len) of the disk they may read, and  *)
(* see the table that starts at its base.  A GPT copy is "absent" (no      *)
(* signature), "bad" (a CRC or a field is wrong, whatever the source) or   *)
(* "good"; of the two sector sizes the readers try, only the disk's own    *)
(* shows a signature.  A GPT says the size of its disk, whose last block   *)
(* holds the backup, and where the primary says the backup is (alternate). *)
(***************************************************************************)
EXTENDS Integers, FiniteSets

CONSTANTS
    Disks,      \* the disks the program may be given
    MaxBlocks,  \* the size of the largest of them
    MaxEbr,     \* MAX_EBR_PARTITIONS
    None        \* absent value

Block == 0..(MaxBlocks - 1)
Copy == {"absent", "bad", "good"}
Kind == {"empty", "protective", "data", "extended"}

EbrRecord ==
    [signed : BOOLEAN, kind : Kind, start : Nat, sectors : Nat,
     link : Kind, next : Nat, rest : Nat]

\* The fields of a table are unsigned, and the slots of an MBR are numbered
\* from 1; nothing else is assumed of what a disk says.
TableType(t) ==
    /\ t.size \in Nat /\ t.alternate \in Nat
    /\ t.first_usable \in Nat /\ t.last_usable \in Nat
    /\ \A e \in t.entries : e.first \in Nat /\ e.last \in Nat
    /\ \A e \in t.mbr : /\ e.number \in Nat \ {0} /\ e.kind \in Kind
                        /\ e.start \in Nat /\ e.sectors \in Nat
    /\ t.ebr \in [Block -> EbrRecord]

ASSUME DiskTablesAssumption ==
    /\ MaxBlocks \in Nat /\ MaxEbr \in Nat
    /\ \A d \in Disks : /\ d.len \in 0..MaxBlocks
                        /\ \A b \in DOMAIN d.tables : TableType(d.tables[b])

VARIABLE disk   \* the disk, or disk image, being read

Source == [base : Block, len : 0..MaxBlocks]

\* An extended boot record: a logical partition and a link to the next.
NoEbr == [signed |-> FALSE, kind |-> "empty", start |-> 0, sectors |-> 0,
          link |-> "empty", next |-> 0, rest |-> 0]

NoTable ==
    [size |-> 0, primary |-> "absent", backup |-> "absent", alternate |-> 0,
     first_usable |-> 0, last_usable |-> 0, entries |-> {},
     signed |-> FALSE, mbr |-> {}, ebr |-> [b \in Block |-> NoEbr]]

Partition(number, offset, length) ==
    [number |-> number, offset |-> offset, length |-> length]

\* The table at block b of the disk.
TableAt(b) == IF b \in DOMAIN disk.tables THEN disk.tables[b] ELSE NoTable

\* SlicedImage::new, FileSource::slice: is it a part of the source?  Offsets
\* and lengths are unsigned.
Inside(src, offset, length) ==
    offset \in Nat /\ length \in Nat \ {0} /\ offset + length <= src.len

Slice(src, offset, length) == [base |-> src.base + offset, len |-> length]

\* What the reader found, or the error it returned.
Found(parts) == [ok |-> TRUE, parts |-> parts]
Refused == [ok |-> FALSE, parts |-> {}]

-----------------------------------------------------------------------------
(* src/pool.rs *)

\* gpt_partitions: the primary copy, without the entries that do not fit.
pool_gpt_partitions(src, t) ==
    IF t.primary # "good" THEN Refused
    ELSE Found({p \in {Partition(e.number, e.first, e.last - e.first + 1)
                         : e \in {x \in t.entries :
                                    x.first # 0 /\ x.last >= x.first}} :
                  p.offset + p.length <= src.len})

\* mbr_partitions: the primary entries, without the ones that do not fit.
pool_mbr_partitions(src, t) ==
    IF ~t.signed THEN Refused
    ELSE Found({Partition(e.number, e.start, e.sectors)
                  : e \in {x \in t.mbr :
                             /\ x.kind \notin {"empty", "protective"}
                             /\ x.start # 0 /\ x.sectors # 0
                             /\ x.start + x.sectors <= src.len}})

\* The partitions open_with_container_key looks at.
pool_partitions(src, t) ==
    LET gpt == pool_gpt_partitions(src, t)
    IN  IF gpt.ok THEN gpt.parts ELSE pool_mbr_partitions(src, t).parts

-----------------------------------------------------------------------------
(* src/inception.rs *)

\* parse_gpt of the copy at lba whose signature was seen: its alternate must be
\* another block of the source, the usable range must lie in the source, and
\* every entry in the usable range.
parse_gpt(src, t, copy, lba, alternate) ==
    IF \/ copy # "good"
       \/ alternate >= src.len \/ alternate = lba
       \/ t.first_usable = 0 \/ t.first_usable > t.last_usable
       \/ t.last_usable >= src.len
       \/ \E e \in t.entries : \/ e.first < t.first_usable
                               \/ e.last < e.first
                               \/ e.last > t.last_usable
    THEN Refused
    ELSE Found({Partition(e.number, e.first, e.last - e.first + 1)
                  : e \in t.entries})

\* The tables whose backup lies in the last block of a source.
Ending(src) ==
    {b \in DOMAIN disk.tables :
        /\ disk.tables[b].backup # "absent"
        /\ b + disk.tables[b].size = src.base + src.len}

\* The copy in the last LBA of a source, whose own table is t.  The backup of
\* a disk that starts elsewhere names another LBA as its own: a bad copy.
BackupCopy(src, t) ==
    IF Ending(src) = {} THEN "absent"
    ELSE IF src.base \in Ending(src) THEN t.backup ELSE "bad"

\* The primary names its alternate; the backup's is the primary, at the start.
parse_primary(src, t) == parse_gpt(src, t, t.primary, 0, t.alternate)
parse_backup(src, t) == parse_gpt(src, t, BackupCopy(src, t), src.len - 1, 0)

\* discover_gpt where a signature was seen: the primary, then the backup.
discover_gpt(src, t) ==
    IF parse_primary(src, t).ok THEN parse_primary(src, t)
    ELSE parse_backup(src, t)

\* Was a GPT signature seen, in either place?
HasGpt(src, t) == t.primary # "absent" \/ BackupCopy(src, t) # "absent"

\* mbr_layout
LaidOut(src, e) == e.start # 0 /\ e.start + e.sectors <= src.len

\* Mutant: an EBR without a partition of its own ends the chain.
EbrStepEnds(src, t, c, w) ==
    LET e == t.ebr[w.lba]
        start == w.lba + e.start
        holds == e.kind # "empty" /\ e.sectors # 0
    IN  IF w.status # "walking" THEN w
        ELSE IF w.lba \in w.seen THEN [w EXCEPT !.status = "loop"]
        ELSE IF ~e.signed \/ start + e.sectors > c.start + c.sectors
        THEN [w EXCEPT !.status = "bad"]
        ELSE IF ~holds THEN [w EXCEPT !.status = "done"]
        ELSE LET v == [w EXCEPT !.seen = @ \cup {w.lba},
                                !.parts = @ \cup {[start |-> start,
                                                   sectors |-> e.sectors]}]
             IN  IF e.link = "empty" THEN [v EXCEPT !.status = "done"]
                 ELSE IF e.next >= c.sectors THEN [v EXCEPT !.status = "bad"]
                 ELSE [v EXCEPT !.lba = c.start + e.next]

\* One EBR of the chain in container c, from the walk so far.  A record
\* whose link is empty ends the chain.
EbrStep(src, t, c, w) ==
    LET e == t.ebr[w.lba]
        start == w.lba + e.start
        holds == e.kind # "empty" /\ e.sectors # 0
    IN  IF w.status # "walking" THEN w
        ELSE IF w.lba \in w.seen THEN [w EXCEPT !.status = "loop"]
        ELSE IF ~e.signed \/ (holds /\ start + e.sectors > c.start + c.sectors)
        THEN [w EXCEPT !.status = "bad"]
        ELSE LET v == [w EXCEPT !.seen = @ \cup {w.lba},
                                !.parts = IF holds
                                          THEN @ \cup {[start |-> start,
                                                        sectors |-> e.sectors]}
                                          ELSE @]
             IN  IF e.link = "empty" \/ e.rest = 0
                 THEN [v EXCEPT !.status = "done"]
                 ELSE IF e.link # "extended" \/ e.next >= c.sectors
                 THEN [v EXCEPT !.status = "bad"]
                 ELSE [v EXCEPT !.lba = c.start + e.next]

\* The chain of EBRs of the extended partition c, at most MaxEbr of them.
EbrWalk(src, t, c) ==
    LET walk[n \in 0..MaxEbr] ==
            IF n = 0 THEN [lba |-> c.start, seen |-> {}, parts |-> {},
                           status |-> "walking"]
            ELSE EbrStep(src, t, c, walk[n - 1])
    IN  walk[MaxEbr]

ContainerFits(src, c) == c.start # 0 /\ c.start + c.sectors <= src.len

\* discover_mbr: any entry or chain that is wrong refuses the whole disk.
discover_mbr(src, t) ==
    LET used == {e \in t.mbr : e.kind # "empty" /\ e.sectors # 0}
        extended == {e \in used : e.kind = "extended"}
        primary == used \ extended
        chains == {EbrWalk(src, t, c) : c \in extended}
    IN  IF ~t.signed THEN Found({})
        ELSE IF \/ \E e \in primary : ~LaidOut(src, e)
                \/ \E c \in extended : ~ContainerFits(src, c)
                \/ \E w \in chains :
                      w.status # "done" \/ \E l \in w.parts : ~LaidOut(src, l)
        THEN Refused
        ELSE Found({Partition(e.number, e.start, e.sectors) : e \in primary}
                   \cup {Partition(0, l.start, l.sectors)
                           : l \in UNION {w.parts : w \in chains}})
=============================================================================
