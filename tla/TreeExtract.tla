---------------------------- MODULE TreeExtract -----------------------------
(***************************************************************************)
(* extract_directory_tree of src/tree.rs: a source directory is walked     *)
(* into a staging directory next to the destination, which is then put in  *)
(* its place by renames, keeping what was there until they have succeeded. *)
(*                                                                         *)
(* The source is a damaged-or-not directory graph: a listing may repeat a  *)
(* name, hold a name that is no path component, or lead back to a          *)
(* directory above it.  What another program may put at the destination    *)
(* during the (long) walk is an action of its own.                         *)
(***************************************************************************)
EXTENDS Integers, Sequences, FiniteSets, SequencesExt

CONSTANTS
    Trees,            \* source graphs: directory -> sequence of entries
    Root,             \* the directory to extract
    BadName,          \* a name validate_component refuses
    MaxEntries,       \* MAX_TREE_ENTRIES
    MaxDepth,         \* MAX_TREE_DEPTH
    U64Max,           \* bound of the byte count
    None

ASSUME TreeExtractAssumption ==
    /\ MaxEntries \in Nat \ {0} /\ MaxDepth \in Nat /\ U64Max \in Nat
    /\ \A t \in Trees :
          /\ Root \in DOMAIN t
          /\ \A d \in DOMAIN t :
                /\ t[d] \in Seq(Range(t[d]))
                /\ \A e \in Range(t[d]) :
                      /\ e.kind \in {"dir", "file", "other"} /\ e.bytes \in Nat
                      /\ e.kind = "dir" => e.node \in DOMAIN t
    /\ None \notin {"run", "old", "other", "ok", "err"}

VARIABLES
    tree,           \* the source
    force,          \* --force
    intruder,       \* may another program create the destination?
    rollback_fails, \* may the rename that undoes a failed publish fail too?
    destination,    \* what is at the destination path
    staged,         \* staging/recovered: a set of [path, kind]
    previous,       \* staging/previous
    stack, here, listing,  \* the walk: directories to do, the one under way,
                           \* and its entries still to do
    count,          \* the RecursiveExtraction so far
    visited,        \* history: the entries done, each with its directory
    pc,
    result,         \* None while the run lasts, then "ok" or "err"
    foreign         \* history: what others have put at the destination

source == <<tree, force, intruder, rollback_fails>>
walk == <<stack, here, listing, count, visited>>
disk == <<destination, staged, previous>>
vars == <<source, walk, disk, pc, result, foreign>>

\* What can be at a path: nothing, what another program left, or a tree of
\* this program's.
Nothing == [owner |-> None, tree |-> {}]
Left(who) == [owner |-> who, tree |-> {}]
Tree(nodes) == [owner |-> "run", tree |-> nodes]

Top == [dir |-> Root, path |-> <<>>, depth |-> 0]
Child(d, e) == [dir |-> e.node, path |-> Append(d.path, e.name),
                depth |-> d.depth + 1]

Init ==
    /\ tree \in Trees /\ force \in BOOLEAN
    /\ intruder \in BOOLEAN /\ rollback_fails \in BOOLEAN
    /\ destination \in {Nothing, Left("old")}
    /\ foreign = {destination} \ {Nothing}
    /\ staged = {} /\ previous = Nothing
    /\ stack = <<>> /\ here = Top /\ listing = <<>>
    /\ count = [files |-> 0, directories |-> 0, skipped |-> 0, bytes |-> 0]
    /\ visited = {}
    /\ pc = "start" /\ result = None

\* Any error return: the TempDir is dropped on the way out.
Fail == pc' = "drop" /\ result' = "err"

\* Mutant: the root directory is not counted.
StartUncounted ==
    /\ pc = "start"
    /\ IF destination # Nothing /\ ~force
       THEN /\ pc' = "done" /\ result' = "err"
            /\ UNCHANGED <<walk, disk>>
       ELSE /\ staged' = {[path |-> <<>>, kind |-> "dir"]}
            /\ stack' = <<Top>>
            /\ pc' = "walk"
            /\ UNCHANGED <<destination, previous, here, listing, count, visited, result>>
    /\ UNCHANGED <<source, foreign>>

\* The check for an existing destination; the staging directory.
Start ==
    /\ pc = "start"
    /\ IF destination # Nothing /\ ~force
       THEN /\ pc' = "done" /\ result' = "err"
            /\ UNCHANGED <<walk, disk>>
       ELSE /\ staged' = {[path |-> <<>>, kind |-> "dir"]}
            /\ count' = [count EXCEPT !.directories = 1]
            /\ stack' = <<Top>>
            /\ pc' = "walk"
            /\ UNCHANGED <<destination, previous, here, listing, visited, result>>
    /\ UNCHANGED <<source, foreign>>

\* Mutant: the directory stays on the stack.
PopDirectoryPeeks ==
    /\ pc = "walk" /\ listing = <<>> /\ stack # <<>>
    /\ here' = Last(stack)
    /\ IF Last(stack).depth > MaxDepth
       THEN Fail /\ UNCHANGED listing
       ELSE /\ listing' = tree[Last(stack).dir]
            /\ UNCHANGED <<pc, result>>
    /\ UNCHANGED <<source, stack, count, visited, disk, foreign>>

\* The next directory is taken off the stack and listed.
PopDirectory ==
    /\ pc = "walk" /\ listing = <<>> /\ stack # <<>>
    /\ stack' = Front(stack)
    /\ here' = Last(stack)
    /\ IF Last(stack).depth > MaxDepth
       THEN Fail /\ UNCHANGED listing
       ELSE /\ listing' = tree[Last(stack).dir]
            /\ UNCHANGED <<pc, result>>
    /\ UNCHANGED <<source, count, visited, disk, foreign>>

\* The entries seen so far, compared with the limit before each entry.
Total == count.files + count.directories + count.skipped

\* The entry can be created: it has a usable name that is not there yet.
Creatable(e) ==
    /\ e.name # BadName
    /\ \A s \in staged : s.path # Append(here.path, e.name)

\* One entry of the listing.
Entry ==
    LET e == Head(listing)
        new == [path |-> Append(here.path, e.name), kind |-> e.kind]
    IN  /\ pc = "walk" /\ listing # <<>>
        /\ listing' = Tail(listing)
        /\ visited' = visited \cup {<<here, Len(tree[here.dir]) - Len(listing) + 1>>}
        /\ \/ /\ Total >= MaxEntries \/ e.name = BadName
              /\ Fail /\ UNCHANGED <<staged, stack, count>>
           \/ /\ Total < MaxEntries /\ e.name # BadName /\ e.kind = "other"
              /\ count' = [count EXCEPT !.skipped = @ + 1]
              /\ UNCHANGED <<staged, stack, pc, result>>
           \/ /\ Total < MaxEntries /\ e.kind = "dir" /\ Creatable(e)
              /\ staged' = staged \cup {new}
              /\ count' = [count EXCEPT !.directories = @ + 1]
              /\ stack' = Append(stack, Child(here, e))
              /\ UNCHANGED <<pc, result>>
           \/ /\ Total < MaxEntries /\ e.kind = "file" /\ Creatable(e)
              /\ staged' = staged \cup {new}
              /\ IF count.bytes + e.bytes > U64Max
                 THEN /\ count' = [count EXCEPT !.files = @ + 1]
                      /\ Fail
                 ELSE /\ count' = [count EXCEPT !.files = @ + 1,
                                                !.bytes = @ + e.bytes]
                      /\ UNCHANGED <<pc, result>>
              /\ UNCHANGED stack
           \/ /\ Total < MaxEntries /\ e.kind \in {"dir", "file"} /\ ~Creatable(e)
              /\ Fail /\ UNCHANGED <<staged, stack, count>>
        /\ UNCHANGED <<source, here, destination, previous, foreign>>

\* Mutant: what is at the destination is deleted before the publish.
StageDeletes ==
    /\ pc = "walk" /\ listing = <<>> /\ stack = <<>>
    /\ destination' = Nothing
    /\ pc' = "publish"
    /\ UNCHANGED <<source, walk, staged, previous, result, foreign>>

\* The walk is over; what is at the destination is moved aside.
StagePrevious ==
    /\ pc = "walk" /\ listing = <<>> /\ stack = <<>>
    /\ previous' = destination
    /\ destination' = Nothing
    /\ pc' = "publish"
    /\ UNCHANGED <<source, walk, staged, result, foreign>>

\* The staged tree is renamed to the destination.  A rename over a directory
\* with files in it fails.
Publish ==
    /\ pc = "publish" /\ destination = Nothing
    /\ destination' = Tree(staged)
    /\ staged' = {}
    /\ pc' = "clean"
    /\ UNCHANGED <<source, walk, previous, result, foreign>>

PublishFails ==
    /\ pc = "publish"
    /\ pc' = "rollback"
    /\ UNCHANGED <<source, walk, disk, result, foreign>>

\* `let _ = fs::rename(&previous, destination)': its failure goes unnoticed.
Rollback ==
    /\ pc = "rollback"
    /\ \/ /\ previous # Nothing /\ destination = Nothing
          /\ destination' = previous /\ previous' = Nothing
       \/ /\ previous = Nothing \/ destination # Nothing \/ rollback_fails
          /\ UNCHANGED <<destination, previous>>
    /\ Fail
    /\ UNCHANGED <<source, walk, staged, foreign>>

\* remove_staged_path; if it fails the run fails, the new tree in place.
Clean ==
    /\ pc = "clean"
    /\ \/ /\ previous' = Nothing
          /\ pc' = "drop" /\ result' = "ok"
       \/ previous # Nothing /\ Fail /\ UNCHANGED previous
    /\ UNCHANGED <<source, walk, destination, staged, foreign>>

\* The TempDir goes, with everything in it.
Drop ==
    /\ pc = "drop"
    /\ staged' = {} /\ previous' = Nothing
    /\ pc' = "done"
    /\ UNCHANGED <<source, walk, destination, result, foreign>>

\* Mutant: a failed extraction is passed over.
IOErrorIgnored ==
    /\ pc = "walk" /\ listing # <<>>
    /\ listing' = Tail(listing)
    /\ UNCHANGED <<source, stack, here, count, visited, disk, pc, result, foreign>>

\* list, create_dir, extract or the first rename fails.
IOError ==
    /\ pc = "walk"
    /\ Fail
    /\ UNCHANGED <<source, walk, disk, foreign>>

\* The process is killed; nothing is dropped.
Crash ==
    /\ pc \notin {"start", "done", "dead"}
    /\ pc' = "dead"
    /\ UNCHANGED <<source, walk, disk, result, foreign>>

\* Another program creates the destination.
Intrude ==
    /\ intruder /\ pc \notin {"done", "dead"}
    /\ destination = Nothing /\ Left("other") \notin foreign
    /\ destination' = Left("other")
    /\ foreign' = foreign \cup {destination'}
    /\ UNCHANGED <<source, walk, staged, previous, pc, result>>

Terminated == pc \in {"done", "dead"} /\ UNCHANGED vars

Step ==
    \/ Start \/ PopDirectory \/ Entry \/ StagePrevious
    \/ Publish \/ PublishFails \/ Rollback \/ Clean \/ Drop

Next == Step \/ IOError \/ Crash \/ Intrude \/ Terminated

\* The program keeps running until it returns; the system may fail it or kill
\* it, others may interfere, and none of them has to.
Spec == Init /\ [][Next]_vars /\ WF_vars(Step)

-----------------------------------------------------------------------------
(* The tree a source graph stands for, by the routes that lead down to its *)
(* directories.                                                            *)

Entries(t) == UNION {Range(t[d]) : d \in DOMAIN t}

\* The directory that the first n entries of a route lead to.
End(s, n) == IF n = 0 THEN Root ELSE s[n].node

\* n directory entries, each in the directory that those before it lead to.
Routes(t, n) ==
    {s \in [1..n -> Entries(t)] :
        \A i \in 1..n : s[i].kind = "dir" /\ s[i] \in Range(t[End(s, i - 1)])}

Level(t, n) ==
    {[dir |-> End(s, n), path |-> [i \in 1..n |-> s[i].name], depth |-> n] :
        s \in Routes(t, n)}

\* Every entry within the depth limit, as its directory and its place there.
Pairs(t) ==
    UNION {UNION {{<<d, i>> : i \in DOMAIN t[d.dir]} : d \in Level(t, n)} :
             n \in 0..MaxDepth}

EntryAt(t, p) == t[p[1].dir][p[2]]
Of(t, P, kind) == {p \in P : EntryAt(t, p).kind = kind}
Node(t, p) == [path |-> Append(p[1].path, EntryAt(t, p).name),
               kind |-> EntryAt(t, p).kind]

\* The root and the directories and files of some entries.
Nodes(t, P) ==
    {[path |-> <<>>, kind |-> "dir"]} \cup
    {Node(t, p) : p \in {q \in P : EntryAt(t, q).kind # "other"}}

WholeTree(t) == Tree(Nodes(t, Pairs(t)))

\* The tree can be recovered: it is within the limits and every name is usable.
Recoverable(t) ==
    /\ Level(t, MaxDepth + 1) = {}
    /\ Cardinality(Pairs(t)) + 1 <= MaxEntries
    /\ \A p \in Pairs(t) : EntryAt(t, p).name # BadName

-----------------------------------------------------------------------------
\* The state of extract_directory_tree; its counters stay within the entry
\* limit and the byte count within u64 for every source graph.
TypeOK ==
    /\ tree \in Trees /\ force \in BOOLEAN
    /\ intruder \in BOOLEAN /\ rollback_fails \in BOOLEAN
    /\ pc \in {"start", "walk", "publish", "rollback", "clean", "drop", "done",
               "dead"}
    /\ result \in {None, "ok", "err"}
    /\ pc = "done" => result # None
    /\ count \in [files : Nat, directories : Nat, skipped : Nat, bytes : 0..U64Max]
    /\ count.files + count.directories + count.skipped <= MaxEntries
    /\ \A i \in 1..Len(stack) : stack[i].depth \in 0..(MaxDepth + 1)

\* "publish it only after every regular file succeeds": the destination holds
\* what others put there, nothing, or the whole tree; never a part of it, and
\* never a tree that breaks a limit or has an unusable name.
AllOrNothing ==
    \/ destination \in foreign \cup {Nothing}
    \/ destination = WholeTree(tree) /\ Recoverable(tree)

\* A run that reports success has put exactly the tree in place and counted
\* every entry of it, the skipped ones included, once.
SuccessIsComplete ==
    result = "ok" =>
        /\ destination = WholeTree(tree)
        /\ count.files = Cardinality(Of(tree, Pairs(tree), "file"))
        /\ count.directories = Cardinality(Of(tree, Pairs(tree), "dir")) + 1
        /\ count.skipped = Cardinality(Of(tree, Pairs(tree), "other"))

\* "A forced replacement keeps the previous tree in the staging directory
\* until the new tree has been renamed into place": at every step, and after
\* a crash at any step, what was at the destination is still on disk unless
\* the whole new tree has taken its place.  It takes a destination that others
\* leave alone, and a rename back that works.
PreviousNeverLost ==
    ~intruder /\ ~rollback_fails =>
    \A c \in foreign : c \in {destination, previous} \/ destination = WholeTree(tree)

\* A run that is neither killed nor finished goes on: the walk ends on every
\* source, one that leads back to a directory above itself included.
Terminates == <>(pc \in {"done", "dead"})
=============================================================================
