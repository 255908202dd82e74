----------------------------- MODULE InnerImage -----------------------------
(***************************************************************************)
(* InceptionSession of src/inception.rs: a disk image laid out in volumes, *)
(* files extracted from the filesystem of a volume, and files of it opened *)
(* in turn as disk images.  Nothing is copied: every session is a stack of *)
(* bounded readers over the outermost source, each of which checks its own *)
(* bounds and adds its own offset (SlicedImage, FilesystemFileImage, the   *)
(* container readers).                                                     *)
(*                                                                         *)
(* External: what a filesystem is (disk.fs: the extents that hold one that *)
(* its reader accepts), where its files lie (disk.files: contiguous, at an *)
(* offset in the filesystem), and the container formats (a QCOW2 or VMDK   *)
(* has one block of header before its virtual disk).                       *)
(***************************************************************************)
EXTENDS DiskTables, Sequences

CONSTANTS
    MaxDepth,   \* bound: sessions opened inside one another
    CopyBuffer, \* COPY_BUFFER_SIZE, in blocks
    Window      \* the pairs of --image-offset and --image-length in use

ASSUME InnerImageAssumption ==
    /\ MaxDepth \in Nat /\ CopyBuffer \in Nat \ {0}
    /\ \A d \in Disks : \A f \in d.files : f.off \in Nat /\ f.len \in 0..MaxBlocks

VARIABLES
    sessions,   \* the open sessions, each inside the one before it
    target,     \* the ExtractionTarget being written, None if none
    output      \* what is at the output path

imageVars == <<sessions, target, output>>

-----------------------------------------------------------------------------
(* A reader is a sequence of layers, the outermost first, each with its    *)
(* length and the place of its block 0 on the disk: where the layer below  *)
(* it starts, plus the offset it adds.                                     *)

LenOf(layers) == layers[Len(layers)].len
Start(layers, i) == layers[i].start

\* read_exact_at through every layer: each checks the end of the range
\* against its length and hands it on at its own offset.
Reads(layers, offset, n) ==
    \A i \in DOMAIN layers :
        Start(layers, Len(layers)) - Start(layers, i) + offset + n
            <= layers[i].len

\* The blocks of the disk such a read returns.
BlocksOf(layers, offset, n) ==
    [k \in 1..n |-> Start(layers, Len(layers)) + offset + k - 1]

Within(layers, offset, len) ==
    Append(layers, [start |-> Start(layers, Len(layers)) + offset, len |-> len])

\* The table and the extent that parsers see through a reader.
SourceOf(layers) ==
    [base |-> Start(layers, Len(layers)), len |-> LenOf(layers)]

-----------------------------------------------------------------------------
(* Inspection.                                                             *)

\* probe_volume: does the filesystem there pass its reader's own checks?
probe_volume(layers, offset, length) ==
    LET src == SourceOf(layers)
    IN  /\ Inside(src, offset, length)
        /\ \E f \in disk.fs : f.base = src.base + offset /\ f.len <= length

\* discover_partitions: GPT, then a filesystem at block zero, then MBR.
discover_partitions(layers) ==
    LET src == SourceOf(layers)
        t == TableAt(src.base)
    IN  IF HasGpt(src, t) THEN discover_gpt(src, t)
        ELSE IF probe_volume(layers, 0, src.len) THEN Found({})
        ELSE discover_mbr(src, t)

\* open_disk_container: None is a format that is refused.
open_disk_container(layers) ==
    LET b == Start(layers, Len(layers))
        kind == IF b \in DOMAIN disk.container THEN disk.container[b] ELSE "raw"
    IN  CASE kind = "raw" -> layers
          [] kind \in {"qcow2", "vmdk"} /\ LenOf(layers) > 1 ->
                Within(layers, 1, LenOf(layers) - 1)
          [] OTHER -> None

\* The volumes of a virtual disk, with what each one holds.
Volumes(layers, parts) ==
    LET whole == {Partition(0, 0, LenOf(layers))}
    IN  {[partition |-> p,
          filesystem |-> probe_volume(layers, p.offset, p.length)]
           : p \in IF parts = {} THEN whole ELSE parts}

\* inspect_source_at: the session on the window at offset, None on an error.
inspect_source_at(layers, offset, length) ==
    IF ~Inside(SourceOf(layers), offset, length) THEN None
    ELSE LET stored == Within(layers, offset, length)
             virtual == open_disk_container(stored)
         IN  IF virtual = None THEN None
             ELSE LET found == discover_partitions(virtual)
                  IN  IF ~found.ok THEN None
                      ELSE [layers |-> virtual,
                            volumes |-> Volumes(virtual, found.parts)]

\* image_length, or the rest of the source.
WindowLength(layers, offset, length) ==
    IF length = None THEN LenOf(layers) - offset ELSE length

\* select_volume: the named volume, or the only one with a filesystem.  Each
\* caller then needs a filesystem on it.
select_volume(session, selector) ==
    LET supported == {v \in session.volumes : v.filesystem}
    IN  IF selector # None THEN supported \cap {selector}
        ELSE IF Cardinality(supported) = 1 THEN supported ELSE {}

volume_source(session, v) ==
    Within(session.layers, v.partition.offset, v.partition.length)

\* The files of the filesystem that starts where a volume does.
FilesOf(layers) == {f \in disk.files : f.fs = Start(layers, Len(layers))}

Top == sessions[Len(sessions)]

\* from_file_at on the disk: the sessions of an earlier one are dropped.
InspectDisk(offset, length) ==
    LET file == <<[start |-> 0, len |-> disk.len]>>
        s == inspect_source_at(file, offset, WindowLength(file, offset, length))
    IN  /\ target = None
        /\ sessions' = IF s = None THEN <<>> ELSE <<s>>
        /\ UNCHANGED <<disk, target, output>>

\* inspect_child_image_at: a file of the selected volume.
InspectChild(v, f, offset, length) ==
    LET file == Within(volume_source(Top, v), f.off, f.len)
        s == inspect_source_at(file, offset, WindowLength(file, offset, length))
    IN  /\ target = None /\ Len(sessions) < MaxDepth
        /\ s # None
        /\ sessions' = Append(sessions, s)
        /\ UNCHANGED <<disk, target, output>>

-----------------------------------------------------------------------------
(* Extraction of one file.                                                 *)

\* extract, up to the reader's loop.
StartExtract(v, f, force) ==
    /\ target = None
    /\ output = None \/ force
    /\ target' = [file |-> f, force |-> force, read |-> <<>>,
                  layers |-> Within(volume_source(Top, v), f.off, f.len)]
    /\ UNCHANGED <<disk, sessions, output>>

\* One buffer of the file through ExtractionTarget::write.
ExtractChunk(n) ==
    LET at == Len(target.read)
    IN  /\ target # None
        /\ Reads(target.layers, at, n)
        /\ target' = [target EXCEPT !.read = @ \o BlocksOf(target.layers, at, n)]
        /\ UNCHANGED <<disk, sessions, output>>

\* Mutant: a reader that stopped early is not noticed.
FinishExtractShort ==
    /\ target # None
    /\ output' = IF output = None \/ target.force
                 THEN [owner |-> "run", file |-> target.file,
                       blocks |-> target.read]
                 ELSE output
    /\ target' = None
    /\ UNCHANGED <<disk, sessions>>

\* ExtractionTarget::finish, after the reader's loop ended at any point (a
\* damaged filesystem may end a file early): the file must be whole.
FinishExtract ==
    /\ target # None
    /\ output' = IF Len(target.read) = target.file.len
                    /\ (output = None \/ target.force)
                 THEN [owner |-> "run", file |-> target.file,
                       blocks |-> target.read]
                 ELSE output
    /\ target' = None
    /\ UNCHANGED <<disk, sessions>>

\* Another program creates the output while the file is read.
Appear ==
    /\ target # None /\ output = None
    /\ output' = [owner |-> "other", file |-> None, blocks |-> <<>>]
    /\ UNCHANGED <<disk, sessions, target>>

InitImage == sessions = <<>> /\ target = None /\ output = None

NextImage ==
    \/ \E w \in Window : InspectDisk(w[1], w[2])
    \/ /\ sessions # <<>>
       /\ \E selector \in Top.volumes \cup {None} :
           \E v \in select_volume(Top, selector) :
              \E f \in FilesOf(volume_source(Top, v)) :
                 \/ \E w \in Window : InspectChild(v, f, w[1], w[2])
                 \/ \E force \in BOOLEAN : StartExtract(v, f, force)
    \/ \E n \in 1..CopyBuffer : target # None /\ ExtractChunk(n)
    \/ FinishExtract
    \/ Appear

-----------------------------------------------------------------------------
\* The volumes of every session lie in its virtual disk, and a logical
\* partition lies in an extended one, whatever tables the disk carries.
VolumesFit ==
    \A k \in DOMAIN sessions : \A v \in sessions[k].volumes :
        LET src == SourceOf(sessions[k].layers)
            t == TableAt(src.base)
        IN  /\ Inside(src, v.partition.offset, v.partition.length)
            /\ ~HasGpt(src, t) /\ v.partition.number = 0 /\ t.signed =>
                  \/ v.partition.offset = 0
                  \/ \E c \in t.mbr :
                        /\ c.kind = "extended" /\ c.start <= v.partition.offset
                        /\ v.partition.offset + v.partition.length
                              <= c.start + c.sectors

\* A GPT disk is laid out by a valid copy of its table and by nothing else:
\* with both damaged it is refused, never read as the MBR that protects it.
GptByItsCopies ==
    \A k \in DOMAIN sessions :
        LET src == SourceOf(sessions[k].layers)
            t == TableAt(src.base)
            parts == {v.partition : v \in sessions[k].volumes}
        IN  t.primary # "absent" \/ BackupCopy(src, t) # "absent" =>
                /\ "good" \in {t.primary, BackupCopy(src, t)}
                /\ t.entries # {} =>
                      parts = {Partition(e.number, e.first, e.last - e.first + 1)
                                 : e \in t.entries}

\* format-notes.md: a damaged primary falls back to a valid backup.  A disk
\* is laid out alike by either copy of its GPT, if the reader accepts one.
BackupRecovers ==
    LET src == [base |-> 0, len |-> disk.len]
        t == TableAt(0)
    IN  \A found \in {parse_primary(src, t), parse_backup(src, t)} :
            found.ok => discover_gpt(src, t) = found

\* The EBRs an extended partition leads to, by its links alone.
Reached(t, c) ==
    LET closed(S) == \A b \in S : t.ebr[b].link # "empty" /\ t.ebr[b].rest # 0
                                    => c.start + t.ebr[b].next \in S
        chains == {S \in SUBSET {c.start + i : i \in 0..(c.sectors - 1)} :
                     c.start \in S /\ closed(S)}
    IN  {b \in Block : \A S \in chains : b \in S}

\* A disk with an extended partition that is accepted shows all of its
\* logical partitions: the walk neither stops early nor turns in a loop.
LogicalsComplete ==
    \A k \in DOMAIN sessions :
        LET src == SourceOf(sessions[k].layers)
            t == TableAt(src.base)
            parts == {v.partition : v \in sessions[k].volumes}
        IN  ~HasGpt(src, t) /\ t.signed /\ ~probe_volume(sessions[k].layers, 0, src.len)
              => \A c \in {e \in t.mbr : e.kind = "extended" /\ e.sectors # 0} :
                   \A b \in Reached(t, c) :
                      t.ebr[b].kind # "empty" /\ t.ebr[b].sectors # 0 =>
                        Partition(0, b + t.ebr[b].start, t.ebr[b].sectors) \in parts

\* An extracted file is the file, all of it and in order, as it lies on the
\* outermost disk.
ExtractedIsFile ==
    output # None /\ output.owner = "run" =>
        output.blocks = [i \in 1..output.file.len |->
                           output.file.fs + output.file.off + i - 1]

\* A filesystem that fills the source is served as one volume: the bytes of
\* its boot sector are not taken for a partition table.
BootSectorNoTable ==
    \A k \in DOMAIN sessions :
        LET layers == sessions[k].layers
            src == SourceOf(layers)
        IN  ~HasGpt(src, TableAt(src.base)) /\ probe_volume(layers, 0, src.len)
              => \A v \in sessions[k].volumes :
                    v.partition = Partition(0, 0, src.len) /\ v.filesystem
=============================================================================
