---------------------------- MODULE DiskSession -----------------------------
(***************************************************************************)
(* One disk, or image of one, opened both ways the program offers: as a    *)
(* pool member (PoolOpen) and as a disk image to browse (InnerImage), in   *)
(* any order.                                                              *)
(***************************************************************************)
EXTENDS PoolOpen, InnerImage

diskVars == <<disk, poolVars, imageVars>>

DiskInit == disk \in Disks /\ InitPool /\ InitImage

\* The program has one source open: opening it as a pool closes the image.
AsPool ==
    /\ NextPool
    /\ target = None
    /\ sessions' = <<>>
    /\ UNCHANGED <<target, output>>

\* Opening it as a disk image closes the pool.
AsImage ==
    /\ NextImage
    /\ member' = None /\ attempt' = NoAttempt

DiskNext == AsPool \/ AsImage

DiskSpec == DiskInit /\ [][DiskNext]_diskVars

-----------------------------------------------------------------------------
\* The variables of both readers; a disk keeps its contents.
DiskTypeOK ==
    /\ disk.len \in 0..MaxBlocks
    /\ \A v \in disk.vdevs : v \in [base : Block, len : 4..MaxBlocks,
          luks : Key \cup {None}, txg : [1..4 -> 0..2], mos : SUBSET (1..2),
          guid : Nat, children : Nat, type : {"disk", "raidz"}]
    /\ member # None =>
          /\ member.src \in Source /\ member.luks \in BOOLEAN
          /\ member.src.base + member.src.len <= disk.len
    /\ attempt \in [key : Key \cup {None}, done : BOOLEAN, ok : BOOLEAN]
    /\ attempt.ok = (member # None)
    /\ Len(sessions) <= MaxDepth
    /\ target # None => Len(target.read) <= target.file.len
    /\ output # None => output.owner \in {"run", "other"}

\* The two partition readers agree on a disk both of them lay out by its
\* primary table: the pool looked for, and the volumes shown, are at the same
\* places.
ReadersAgree ==
    \A t \in {TableAt(0)} :
        parse_primary(Whole, t).ok =>
            pool_partitions(Whole, t) = parse_primary(Whole, t).parts

\* The volumes shown are those of the partition table: of a valid GPT copy if
\* there is a signature, of the MBR with all of its logical partitions
\* otherwise, one for a filesystem without a table; they lie on the disk, and
\* the pool reader sees the same ones.
VolumesAreTheTables ==
    /\ VolumesFit /\ GptByItsCopies /\ BackupRecovers
    /\ LogicalsComplete /\ BootSectorNoTable
    /\ ReadersAgree
=============================================================================
