---------------------------- MODULE PoolSession -----------------------------
(***************************************************************************)
(* The commands on a pool member: inspect, encryption_requirement,         *)
(* list_directory, extract (with its incremental sidecar), the extraction  *)
(* of a tree's file, the reader for small files and the positioned reader  *)
(* on a file of the pool, each from the selector to its result, with       *)
(* damage to the member and the death of the process at any step.          *)
(***************************************************************************)
EXTENDS PoolCatalog, TLC

CONSTANTS
    Calls(_, _),    \* the commands a user may give on a pool, as the n-th;
                    \* a mortal one may be killed
    MaxCalls        \* commands in a behaviour

\* A command, with the arguments of every one of them.
Ops == {"none", "inspect", "require", "list", "extract", "treefile", "small",
        "image", "read"}
Command ==
    [op : Ops, ds : Seq(STRING), snap : Nat \cup {None}, path : Seq(STRING),
     key : Key \cup {None}, force : BOOLEAN, offset : Nat, count : Nat, mortal : BOOLEAN]

ASSUME PoolSessionAssumption ==
    /\ MaxCalls \in Nat
    /\ \A p \in Pools, n \in 1..(MaxCalls + 1) : Calls(p, n) \subseteq {c \in Command : c.op # "none"}

VARIABLES
    handle,     \* the open PoolImageFile, None if there is none
    output,     \* the bytes at the destination, None if there is no file
    sidecar,    \* the sidecar beside it, NoSidecar if there is none
    calls       \* commands given so far

vars == <<diskVars, call, step, result, handle, output, sidecar, calls>>

fileVars == <<handle, output, sidecar, calls>>

\* attrs: the size a dnode's bonus gives, if it can be decoded.
attrs(dn, sa) ==
    IF dn.bonus.kind = "znode" \/ (dn.bonus.kind = "sa" /\ sa)
    THEN dn.bonus.size ELSE None

\* The first n bytes of a record; what a short leaf lacks is zero.
Extended(block, n) ==
    [i \in 1..n |-> IF block = Zeroes THEN 0
                    ELSE IF i <= Len(block) THEN block[i] ELSE 0]

NoSidecar == [snap |-> None]

NoResult == [call |-> NoCall, value |-> None, why |-> "none"]

\* A command begins; every one but a read of the open file walks the datasets.
Start(c) ==
    /\ step = Idle /\ calls < MaxCalls
    /\ calls' = calls + 1
    /\ result' = NoResult
    /\ IF c.op = "read"
       THEN /\ handle # None
            /\ call' = [c EXCEPT !.ds = handle.ds, !.snap = handle.snap,
                                 !.path = handle.path, !.key = handle.key]
            /\ step' = [at |-> "read", buffer |-> <<>>]
       ELSE call' = c /\ step' = [at |-> "start"]
    /\ UNCHANGED <<diskVars, handle, output, sidecar>>

Begin ==
    /\ step.at = "start"
    /\ StartWalk
    /\ UNCHANGED <<diskVars, call, fileVars>>

(***************************************************************************)
(* resolve_path: one component, and the object at the end.                 *)
(***************************************************************************)
Descended(entry) ==
    IF entry \in {Failed, None} THEN Fail
    ELSE Continue([step EXCEPT !.left = Tail(@), !.object = entry.object,
                               !.type = entry.type])
Component ==
    /\ step.at = "resolve" /\ step.left # <<>>
    /\ IF step.type # "dir" THEN Fail
       ELSE Descended(zap_lookup(Zap(step.view.meta, step.object, step.view.key),
                                 Head(step.left)))
    /\ UNCHANGED <<diskVars, call, fileVars>>

\* The object at the end, and the first checks of the command that asked: a
\* listing wants a directory, everything else a regular file (not a link, a
\* device or a pipe).
WantedType(c) == IF c.op = "list" THEN "dir" ELSE "file"
ResolvedTo(dn) ==
    IF dn = Failed THEN Fail
    ELSE IF attrs(dn, step.view.sa) = None THEN Fail
    ELSE IF step.type # WantedType(call) THEN Fail
    ELSE IF call.op = "extract" /\ output # None /\ ~call.force
    THEN Return(Failed, "output")
    ELSE Continue([at |-> call.op, dn |-> dn, size |-> attrs(dn, step.view.sa),
                   view |-> step.view, object |-> step.object, buffer |-> <<>>])
Resolve ==
    /\ step.at = "resolve" /\ step.left = <<>>
    /\ ResolvedTo(Object(step.view.meta, step.object, step.view.key))
    /\ UNCHANGED <<diskVars, call, fileVars>>

\* list_directory_with_key: an entry whose object cannot be read has no size.
SizeOf(dn) == IF dn \in {Failed, None} THEN None ELSE attrs(dn, step.view.sa)
Listing(entries) ==
    IF entries = Failed THEN Fail
    ELSE Return({[name |-> e[1], type |-> e[2].type,
                  size |-> SizeOf(dnode_with_key(step.view.meta, e[2].object,
                                                 step.view.key))] : e \in entries},
                "done")
List ==
    /\ step.at = "list"
    /\ Listing(read_zap_object_with_key(step.dn, step.view.key))
    /\ UNCHANGED <<diskVars, call, fileVars>>

(***************************************************************************)
(* write_file into the temporary file, a record at a time.                 *)
(***************************************************************************)
Extracting == step.at \in {"extract", "treefile"}

\* The blocks that the size asks for must lie within dn_maxblkid.
TooShort(dn, size) == (size + dn.blksz - 1) \div dn.blksz - 1 > dn.maxblkid

RecordLength(dn, left) == Min({left, dn.blksz})

\* write_file_record
Written(block, n) ==
    IF block = Failed THEN Fail
    ELSE Continue([step EXCEPT !.buffer = @ \o Extended(block, n)])
WriteRecord ==
    /\ Extracting /\ Len(step.buffer) < step.size
    /\ IF step.dn.blksz = 0 THEN Fail
       ELSE IF TooShort(step.dn, step.size) THEN Fail
       ELSE Written(read_dnode_data_with_key(
                        step.dn, Len(step.buffer) \div step.dn.blksz, step.view.key),
                    RecordLength(step.dn, step.size - Len(step.buffer)))
    /\ UNCHANGED <<diskVars, call, fileVars>>

\* Mutant: what could be read so far is published.
CompletePart == step.buffer # <<>> \/ step.size = 0

Complete == Len(step.buffer) = step.size

\* The temporary file takes the length of the file, is synchronized and
\* renamed into place (persist_replace), which fails if a file is there that
\* may not be replaced.  A tree's file has no sidecar.
Publish ==
    /\ Extracting /\ Complete
    /\ IF output # None /\ ~(call.op = "extract" /\ call.force)
       THEN Return(Failed, "output") /\ UNCHANGED output
       ELSE /\ output' = step.buffer
            /\ IF call.op = "treefile" THEN Return(step.buffer, "done")
               ELSE Continue([step EXCEPT !.at = "sidecar"])
    /\ UNCHANGED <<diskVars, call, handle, sidecar, calls>>

Certificate ==
    [snap |-> step.view.snap, object |-> step.object, path |-> call.path,
     size |-> step.size, sha256 |-> step.buffer]

\* The sidecar of a snapshot's file is saved, that of a head's removed.
SettleSidecar ==
    /\ step.at = "sidecar"
    /\ sidecar' = IF step.view.snap # None THEN Certificate ELSE NoSidecar
    /\ Return(step.buffer, "done")
    /\ UNCHANGED <<diskVars, call, handle, output, calls>>

\* save_sidecar or remove_file fails: the new file stays.
SidecarFails ==
    /\ step.at = "sidecar"
    /\ step.view.snap # None \/ sidecar # NoSidecar
    /\ Return(Failed, "output")
    /\ UNCHANGED <<diskVars, call, fileVars>>

(***************************************************************************)
(* read_small_file_with_key: the block is found from what is filled, and   *)
(* copied from its first byte.                                             *)
(***************************************************************************)
Filled(block, left) ==
    IF block = Failed THEN Fail
    ELSE IF block # Zeroes /\ block = <<>> THEN Fail
    ELSE Continue([step EXCEPT !.buffer = @ \o
            Extended(block, Min({left, step.dn.blksz}
                                \cup IF block = Zeroes THEN {} ELSE {Len(block)}))])
ReadSmall ==
    /\ step.at = "small"
    /\ IF step.size > call.count THEN Fail
       ELSE IF Len(step.buffer) = step.size THEN Return(step.buffer, "done")
       ELSE IF step.dn.blksz = 0 THEN Fail
       ELSE Filled(read_dnode_data_with_key(
                       step.dn, Len(step.buffer) \div step.dn.blksz, step.view.key),
                   step.size - Len(step.buffer))
    /\ UNCHANGED <<diskVars, call, fileVars>>

(***************************************************************************)
(* into_image_file_with_key, and PoolImageFile::read_exact_at.             *)
(***************************************************************************)
OpenImage ==
    /\ step.at = "image"
    /\ handle' = [dn |-> step.dn, size |-> step.size, key |-> step.view.key,
                  ds |-> call.ds, snap |-> call.snap, path |-> call.path]
    /\ Return(<<>>, "done")
    /\ UNCHANGED <<diskVars, call, output, sidecar, calls>>

\* The part of a block from within on; wanted reaches to its end at most.
Copied(block, within, wanted) ==
    IF block = Failed THEN Fail
    ELSE Continue([step EXCEPT !.buffer = @ \o
            SubSeq(Extended(block, within + wanted), within + 1, within + wanted)])

\* Beyond dn_maxblkid there are zeroes.
ImageBlock(dn, id) ==
    IF id > dn.maxblkid THEN Zeroes ELSE read_dnode_data_with_key(dn, id, handle.key)

ReadImage ==
    /\ step.at = "read"
    /\ LET dn == handle.dn
           position == call.offset + Len(step.buffer)
           within == position % dn.blksz
       IN  IF call.offset + call.count > handle.size \/ dn.blksz = 0 THEN Fail
           ELSE IF Len(step.buffer) = call.count THEN Return(step.buffer, "done")
           ELSE Copied(ImageBlock(dn, position \div dn.blksz), within,
                       Min({call.count - Len(step.buffer), dn.blksz - within}))
    /\ UNCHANGED <<diskVars, call, fileVars>>

\* The process is killed: its temporary file and its open file are gone.
Crash ==
    /\ step # Idle /\ call.mortal
    /\ Return(Failed, "crash")
    /\ handle' = None
    /\ UNCHANGED <<diskVars, call, output, sidecar, calls>>

Decay ==
    /\ \E b \in DOMAIN pool.usable :
         \E places \in (SUBSET pool.usable[b]) \ {{}}, c \in pool.alike[b] \cup {Lost} :
            Damage(places, c)
    /\ UNCHANGED <<call, step, result, fileVars>>

Init ==
    /\ pool \in Pools
    /\ damage = <<>> /\ decays = 0
    /\ call = NoCall /\ step = Idle
    /\ result = NoResult
    /\ handle = None /\ output = None /\ sidecar = NoSidecar
    /\ calls = 0

\* A step of the command that runs.  It changes the locals: one that did not
\* would be repeated for ever, and shows here as a deadlock.
Running ==
    /\ \/ Begin
       \/ CatalogNext /\ UNCHANGED fileVars
       \/ Component \/ Resolve \/ List
       \/ WriteRecord \/ Publish \/ SettleSidecar \/ SidecarFails
       \/ ReadSmall \/ OpenImage \/ ReadImage
    /\ step' # step

\* No command is left to give.
Ended == step = Idle /\ Calls(pool, calls + 1) = {} /\ UNCHANGED vars

Next ==
    (\E c \in Calls(pool, calls + 1) : Start(c)) \/ Running \/ Crash \/ Decay \/ Ended

\* A step of the command that runs, or its death: of the steps of Next these
\* are the ones that neither start a command nor damage the member.  That a
\* command nobody kills has such a step in every state is what the absence
\* of deadlock shows.
Onward == step # Idle /\ (step' = Idle \/ step' # Idle) /\ UNCHANGED <<calls, decays>>

\* A command that has begun goes on: it waits for nobody.
Spec == Init /\ [][Next]_vars /\ WF_step(Onward)

(***************************************************************************)
(* Reference: the DSL directories, in pool.dirs, with their children, the  *)
(* GUIDs of their snapshots, the key found from there (None if there is    *)
(* none) and the name that inspect lists them by; and the files and        *)
(* directories that were written, in pool.files, with the DSL directory of *)
(* their dataset, the snapshot (None for the head), the path, the object   *)
(* and the key that opens them.                                            *)
(***************************************************************************)
\* The name leads from the root to directory d.
Denotes(name, d) ==
    \E way \in [0..Len(name) -> DOMAIN pool.dirs] :
        /\ way[0] = pool.root /\ way[Len(name)] = d
        /\ \A i \in 1..Len(name) :
              /\ name[i] \in DOMAIN pool.dirs[way[i - 1]].child
              /\ way[i] = pool.dirs[way[i - 1]].child[name[i]]

\* What was written to the dataset or snapshot that a command names.
Within(c) == {f \in pool.files : f.snap = c.snap /\ Denotes(c.ds, f.ds)}
Named(c) == {f \in Within(c) : f.path = c.path}

\* What a command that returns bytes should return.
Bytes(f, c) ==
    IF c.op = "read" THEN SubSeq(f.bytes, c.offset + 1, c.offset + c.count) ELSE f.bytes

\* Nothing tells damage to an unencrypted block without a checksum.
Unprotected(f) == f.sum = "off" /\ f.key = None

Closed(S) == \A d \in S : \A n \in DOMAIN pool.dirs[d].child :
               n \notin Hidden => pool.dirs[d].child[n] \in S
Reachable ==
    {d \in DOMAIN pool.dirs :
       \A S \in SUBSET DOMAIN pool.dirs : pool.root \in S /\ Closed(S) => d \in S}

\* Whether a command asks for something that is there, by its listed name.
AskedOf(f, c) ==
    /\ pool.dirs[f.ds].name = c.ds
    /\ CASE c.op = "require" -> TRUE
         [] c.op = "list" -> f.path = c.path /\ f.type = "dir" /\ f.key = c.key
         [] OTHER ->
              /\ f.path = c.path /\ f.type = "file" /\ f.key = c.key
              /\ c.op \in {"extract", "treefile", "small"} => ~f.sparse_tail
              /\ c.op = "small" => Len(f.bytes) <= c.count
              /\ c.op = "read" => c.offset + c.count <= Len(f.bytes)
Asked(c) == c.op = "inspect" \/ \E f \in Within(c) : AskedOf(f, c)

\* Whether a command can be answered if the member can be read.
Answerable(c) == Asked(c) /\ Cardinality(Reachable) <= MaxDatasets

Done(ops) == result.why = "done" /\ result.call.op \in ops

(***************************************************************************)
(* Properties                                                              *)
(***************************************************************************)
\* Type correctness of the commands, their steps and their results.
TypeOK ==
    /\ call.op \in Ops /\ calls \in 0..MaxCalls
    /\ decays \in 0..MaxDecays
    /\ DOMAIN damage \subseteq DOMAIN pool.home
    /\ result.why \in {"none", "done", "source", "output", "crash"}
    /\ (result.value = Failed) = (result.why \in {"source", "output", "crash"})
    /\ step.at \in {"idle", "start", "walk", "selected", "climb", "crypto", "keyed",
                    "resolve", "sidecar"} \cup Ops
    /\ step.at \in {"extract", "treefile", "small"} => Len(step.buffer) <= step.size
    /\ handle # None => handle.key \in Key \cup {None}

\* The bytes that extract, read_small_file and read_exact_at return are the
\* ones that were written to that file of that dataset or snapshot, whatever
\* happened to the member and whenever: damage leads to another copy or to an
\* error.  Not so for a block without checksum and MAC; and
\* read_small_file_with_key repeats the beginning of a short leaf (see the
\* README's known limits).
DeliveredIsWritten ==
    Done({"extract", "treefile", "small", "read"}) =>
        \E f \in Named(result.call) :
            /\ f.type = "file"
            /\ Len(result.value) = Len(Bytes(f, result.call))
            /\ \/ result.value = Bytes(f, result.call)
               \/ Unprotected(f)
               \/ result.call.op = "small" /\ f.short_leaf

\* A listing has the entries of the directory, and no size that is not the
\* entry's; a size is missing only if a block was lost.
ListingIsDirectory ==
    Done({"list"}) =>
        \E f \in Named(result.call) :
            /\ f.type = "dir"
            /\ {[name |-> e.name, type |-> e.type] : e \in result.value}
                 = {[name |-> e.name, type |-> e.type] : e \in f.entries}
            /\ \A e \in result.value :
                 e \in f.entries \/ (e.size = None /\ ~EveryBlockHasACopy)

\* As long as every block has an undamaged copy that the reader may use, no
\* command that can be answered fails for the member's sake: the damaged
\* copies, the gang blocks and the copies on other vdevs are passed over.
IntactSuffices ==
    result.why = "source" /\ EveryBlockHasACopy => ~Answerable(result.call)

\* inspect lists every directory with a head that the visible names reach,
\* once, by a name that leads there, with its snapshots; cycles and several
\* names for a directory included.
CatalogComplete ==
    Done({"inspect"}) =>
        LET heads == {d \in Reachable : pool.dirs[d].head # 0}
        IN  /\ {r.dir : r \in result.value} = heads
            /\ Cardinality(result.value) = Cardinality(heads)
            /\ \A r \in result.value :
                 Denotes(r.name, r.dir) /\ r.snaps = pool.dirs[r.dir].snaps

\* encryption_requirement asks for the key that opens the dataset, and
\* nothing is read from a dataset with any other key, or with none, or, if
\* it is not encrypted, with a key that would be left unused.
KeyIsTheDatasets ==
    Done(Ops \ {"inspect"}) =>
        \A f \in Within(result.call) :
            f.key = IF result.call.op = "require" THEN result.value ELSE result.call.key

\* At the destination there is never anything but the whole of one file:
\* not after an error in the middle, nor after a crash.
OutputIsWhole ==
    output # None => \E f \in pool.files :
        /\ f.type = "file"
        /\ output = f.bytes \/ (Unprotected(f) /\ Len(output) = Len(f.bytes))

\* After extract returns there is a sidecar exactly if the file is that of a
\* snapshot, and it certifies it; and at all times a sidecar whose digest
\* fits the file names a snapshot in which the file has these bytes, so an
\* incremental stream is never applied to anything else.
SidecarFits ==
    /\ Done({"extract"}) =>
         IF result.call.snap = None THEN sidecar = NoSidecar
         ELSE sidecar.snap = result.call.snap /\ sidecar.sha256 = output
    /\ sidecar # NoSidecar /\ sidecar.sha256 = output =>
         \E f \in pool.files :
            /\ f.snap = sidecar.snap /\ f.path = sidecar.path
            /\ f.bytes = output \/ Unprotected(f)

\* Whatever failed or was killed, the destination has the whole of one file,
\* and a sidecar that certifies it is right.
OutputCertified == OutputIsWhole /\ SidecarFits

\* Every command comes to an end, whatever the graph of the directories: the
\* walk down and the search up both stop at a directory they have seen.
Terminates == (step # Idle) ~> (step = Idle)
=============================================================================
