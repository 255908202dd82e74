---------------------------- MODULE SidecarUpdate ---------------------------
(***************************************************************************)
(* The life of an output file and its .zfse.json sidecar: extraction from  *)
(* a send stream (extract_resolved_snapshot), from a pool snapshot or a    *)
(* live head (Pool::extract_with_key) and from an inner image              *)
(* (ExtractionTarget::finish), and apply_incremental_with_key.             *)
(*                                                                         *)
(* File contents are values.  SHA-256 is taken to be injective, so a hash  *)
(* is the content it was computed from.  A step is one access to the file  *)
(* system; a run may fail or be killed between any two of them, which      *)
(* drops its temporary file.                                               *)
(***************************************************************************)
EXTENDS Naturals

CONSTANTS
    Guid, Content, ContentOf, Edges, None,
    Mixed,          \* an incremental replayed over a file that is not its base
    EditDuringRun   \* may the file change while the program runs?

Ops == {"extract", "pool", "head", "inner", "apply"}
Sidecar == [guid : Guid, sha256 : Content \cup {Mixed}]

ASSUME SidecarUpdateAssumption ==
    /\ ContentOf \in [Guid -> Content]
    /\ Edges \subseteq Guid \X Guid
    /\ Mixed \notin Content
    /\ None \notin Content \cup Guid \cup Ops \cup Sidecar /\ None # Mixed
    /\ EditDuringRun \in BOOLEAN

VARIABLES
    target,    \* the output file
    sidecar,   \* the .zfse.json next to it
    op,        \* the run under way, None if there is none
    pc,        \* its next step
    force,     \* --force
    goal,      \* snapshot it extracts or advances to
    from_guid, \* base of the incremental it applies
    base,      \* the sidecar apply read
    temp,      \* its temporary file
    hash       \* the SHA-256 it will store

disk == <<target, sidecar>>
locals == <<op, force, goal, from_guid>>
work == <<base, temp, hash>>
vars == <<disk, pc, locals, work>>

Steps == {"idle", "check", "build", "recheck", "publish", "hash", "save",
          "unlink", "read", "verify", "copy", "replay"}

\* What replaying the incremental f -> t over contents c leaves.
Patch(c, f, t) == IF c = ContentOf[f] THEN ContentOf[t] ELSE Mixed

Init ==
    /\ target \in Content \cup {None} /\ sidecar = None
    /\ op = None /\ pc = "idle" /\ force = FALSE /\ goal = None
    /\ from_guid = None /\ base = None /\ temp = None /\ hash = None

\* The run is over, with success or without; its locals are gone.
Return ==
    /\ op' = None /\ pc' = "idle" /\ force' = FALSE /\ goal' = None
    /\ from_guid' = None /\ base' = None /\ temp' = None /\ hash' = None

-----------------------------------------------------------------------------
(* Extraction.                                                             *)

\* A snapshot is extracted from a send stream or from a pool member.
StartSnapshot(o, g, f) ==
    /\ pc = "idle" /\ o \in {"extract", "pool"}
    /\ op' = o /\ goal' = g /\ force' = f /\ pc' = "check"
    /\ UNCHANGED <<disk, from_guid, work>>

\* A live head or a file of an inner image is extracted: no snapshot.
StartUnversioned(o, f) ==
    /\ pc = "idle" /\ o \in {"head", "inner"}
    /\ op' = o /\ force' = f /\ pc' = "check"
    /\ UNCHANGED <<disk, goal, from_guid, work>>

\* output.exists() && !force
CheckOutput ==
    /\ pc = "check"
    /\ target = None \/ force
    /\ pc' = "build"
    /\ UNCHANGED <<disk, locals, work>>

\* The temporary file is filled (ObjectReplay), cut and synchronised.  The
\* pool digests what it writes.
Build ==
    /\ pc = "build"
    /\ IF goal # None THEN temp' = ContentOf[goal] ELSE temp' \in Content
    /\ hash' = IF op = "pool" THEN temp' ELSE hash
    /\ pc' = "recheck"
    /\ UNCHANGED <<disk, locals, base>>

\* persist_replace (and ExtractionTarget::finish) looks again ...
CheckAgain ==
    /\ pc = "recheck"
    /\ target = None \/ force
    /\ pc' = "publish"
    /\ UNCHANGED <<disk, locals, work>>

\* ... and renames; then on to the sidecar, if the operation has one.
Publish ==
    /\ pc = "publish"
    /\ target' = temp
    /\ IF op = "inner"
       THEN Return
       ELSE /\ pc' = CASE op \in {"extract", "apply"} -> "hash"
                       [] op = "pool" -> "save"
                       [] op = "head" -> "unlink"
            /\ UNCHANGED <<locals, work>>
    /\ UNCHANGED sidecar

\* Send extraction and apply hash the file they find at the output path.
HashOutput ==
    /\ pc = "hash"
    /\ target # None
    /\ hash' = target
    /\ pc' = "save"
    /\ UNCHANGED <<disk, locals, base, temp>>

\* Mutant: the sidecar keeps the hash of the base.
SaveStaleHash ==
    /\ pc = "save"
    /\ sidecar' = [guid |-> goal,
                   sha256 |-> IF base # None THEN base.sha256 ELSE hash]
    /\ Return
    /\ UNCHANGED target

\* save_sidecar replaces the sidecar atomically.
SaveSidecar ==
    /\ pc = "save"
    /\ sidecar' = [guid |-> goal, sha256 |-> hash]
    /\ Return
    /\ UNCHANGED target

\* Mutant: a head extraction is certified as the latest snapshot.
CertifyHead ==
    /\ pc = "unlink"
    /\ \E g \in Guid : sidecar' = [guid |-> g, sha256 |-> ContentOf[g]]
    /\ Return
    /\ UNCHANGED target

\* The extraction of a head removes a sidecar it finds.
RemoveSidecar ==
    /\ pc = "unlink"
    /\ sidecar' = None
    /\ Return
    /\ UNCHANGED target

-----------------------------------------------------------------------------
(* Applying an incremental.                                                *)

StartApply(e) ==
    /\ pc = "idle"
    /\ op' = "apply" /\ goal' = e[2] /\ from_guid' = e[1] /\ pc' = "read"
    /\ force' = TRUE
    /\ UNCHANGED <<disk, work>>

ReadSidecar ==
    /\ pc = "read"
    /\ sidecar # None
    /\ base' = sidecar
    /\ pc' = "verify"
    /\ UNCHANGED <<disk, locals, temp, hash>>

\* Mutant: the target is not hashed.
VerifyNothing ==
    /\ pc = "verify"
    /\ pc' = "copy"
    /\ UNCHANGED <<disk, locals, work>>

\* The hash (and the size) of the target against the sidecar's.
VerifyTarget ==
    /\ pc = "verify"
    /\ target = base.sha256
    /\ pc' = "copy"
    /\ UNCHANGED <<disk, locals, work>>

\* The target is opened again and copied to the temporary file.
CopyTarget ==
    /\ pc = "copy"
    /\ target # None
    /\ temp' = target
    /\ pc' = "replay"
    /\ UNCHANGED <<disk, locals, base, hash>>

\* The record loop: the stream must start from the sidecar's snapshot.
ReplayIncremental ==
    /\ pc = "replay"
    /\ from_guid = base.guid
    /\ temp' = Patch(temp, from_guid, goal)
    /\ pc' = "recheck"
    /\ UNCHANGED <<disk, locals, base, hash>>

-----------------------------------------------------------------------------
\* A refusal, an I/O error or the end of the process, at any step.
Stop ==
    /\ pc # "idle"
    /\ Return
    /\ UNCHANGED disk

\* Somebody else edits, replaces, creates or deletes the file.
Edit(c) ==
    /\ pc = "idle" \/ EditDuringRun
    /\ target' = c
    /\ UNCHANGED <<sidecar, pc, locals, work>>

Next ==
    \/ \E o \in {"extract", "pool"}, g \in Guid, f \in BOOLEAN :
          StartSnapshot(o, g, f)
    \/ \E o \in {"head", "inner"}, f \in BOOLEAN : StartUnversioned(o, f)
    \/ CheckOutput \/ Build \/ CheckAgain \/ Publish \/ HashOutput
    \/ SaveSidecar \/ RemoveSidecar
    \/ \E e \in Edges : StartApply(e)
    \/ ReadSidecar \/ VerifyTarget \/ CopyTarget \/ ReplayIncremental
    \/ Stop
    \/ \E c \in Content \cup {None} : Edit(c)

Spec == Init /\ [][Next]_vars

-----------------------------------------------------------------------------
\* The output file, its sidecar and the locals of the run under way; a
\* sidecar that save_sidecar wrote names a snapshot and a hash.
TypeOK ==
    /\ target \in Content \cup {Mixed, None}
    /\ sidecar \in Sidecar \cup {None}
    /\ op \in Ops \cup {None} /\ pc \in Steps /\ force \in BOOLEAN
    /\ goal \in Guid \cup {None} /\ from_guid \in Guid \cup {None}
    /\ base \in Sidecar \cup {None}
    /\ temp \in Content \cup {Mixed, None}
    /\ hash \in Content \cup {Mixed, None}

\* Whatever runs failed or were killed half way, the sidecar never vouches
\* for a file that is not its snapshot's: a file that passes apply's hash
\* check is the base of the incremental that is then replayed over it.
SidecarSound == sidecar # None => sidecar.sha256 = ContentOf[sidecar.guid]

\* No incremental is ever replayed over a file that is not its base, not
\* after a crash between the two renames, nor after a local edit (README,
\* "The update fails safely if the file has been modified locally").
NeverMixed == target # Mixed

\* The program keeps the promise of VersionedFile.
Abstract == INSTANCE VersionedFile
    WITH content <- target,
         base <- IF sidecar = None THEN None ELSE sidecar.guid,
         busy <- CASE op \in {"extract", "pool"} -> "snapshot"
                   [] op \in {"head", "inner"} -> "plain"
                   [] op = "apply" -> "advance"
                   [] OTHER -> None

Promise == Abstract!Spec

-----------------------------------------------------------------------------
(* The inductive invariant: what a run knows at each of its steps while    *)
(* nobody else touches the file.                                           *)

\* The steps each operation goes through, and the goal it has.
Shape ==
    /\ pc = "idle" <=> op = None
    /\ op \in {None, "head", "inner"} => goal = None
    /\ op \in {"extract", "pool", "apply"} => goal \in Guid
    /\ op = "apply" => <<from_guid, goal>> \in Edges
    /\ pc \in {"check", "build"} => op # "apply"
    /\ pc \in {"read", "verify", "copy", "replay"} => op = "apply"
    /\ pc = "hash" => op \in {"extract", "apply"}
    /\ pc = "save" => op \in {"extract", "pool", "apply"}
    /\ pc = "unlink" => op = "head"

\* apply: the sidecar it read is the one on disk, the file it verified is the
\* one it copies, and what it is about to publish is the next snapshot's.
ApplyKnows ==
    op = "apply" =>
        /\ pc \in {"verify", "copy", "replay", "recheck", "publish"} =>
              sidecar # None /\ base = sidecar
        /\ pc \in {"copy", "replay"} => target = sidecar.sha256
        /\ pc = "replay" => temp = target
        /\ pc \in {"recheck", "publish"} =>
              /\ from_guid = sidecar.guid /\ target = ContentOf[from_guid]
              /\ temp = ContentOf[goal]

\* extraction: what it is about to publish.
BuildKnows ==
    pc \in {"recheck", "publish"} =>
        /\ op \in {"extract", "pool"} => temp = ContentOf[goal]
        /\ op \in {"head", "inner"} => temp \in Content
        /\ op = "pool" => hash = temp

\* After the rename the file is the goal's, and so is the hash.
PublishedKnows ==
    /\ pc \in {"hash", "save"} => target = ContentOf[goal]
    /\ pc = "save" => hash = target

IInv ==
    /\ TypeOK
    /\ Shape
    /\ SidecarSound
    /\ NeverMixed
    /\ ApplyKnows
    /\ BuildKnows
    /\ PublishedKnows
=============================================================================
