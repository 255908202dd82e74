---------------------------- MODULE PoolCatalog -----------------------------
(***************************************************************************)
(* From a selector to an opened dataset, in src/pool.rs: the walk over the *)
(* DSL directories (datasets), the snapshots of a dataset, select_dataset, *)
(* the search for the encryption key (encryption_params), dataset_view.    *)
(*                                                                         *)
(* Each function runs for many reads of the member, so each turn of its    *)
(* loops is a step; `step' holds the locals of the function that runs.     *)
(***************************************************************************)
EXTENDS PoolBlocks

CONSTANTS
    Hidden,         \* directory names that begin with $ or %
    MaxDatasets,    \* MAX_DATASETS
    MaxSnapshots,   \* MAX_SNAPSHOTS_PER_DATASET
    MaxParentWalk   \* MAX_DSL_PARENT_WALK

ASSUME PoolCatalogAssumption ==
    {MaxDatasets, MaxSnapshots, MaxParentWalk} \subseteq Nat

VARIABLES
    call,       \* the command: op, ds, snap, path, key, ...
    step,       \* where it is, with the locals of that function
    result      \* how the last command ended

Idle == [at |-> "idle"]

NoCall == [op |-> "none", ds |-> <<>>, snap |-> None, path |-> <<>>, key |-> None,
           force |-> FALSE, offset |-> 0, count |-> 0, mortal |-> FALSE]

\* The command returns: a value, or why it has none.
Return(value, why) ==
    /\ step' = Idle
    /\ result' = [call |-> call, value |-> value, why |-> why]

Fail == Return(Failed, "source")

Continue(next) == step' = next /\ UNCHANGED result

MosObject(object) == Object(pool.mos, object, None)
MosZap(object) == Zap(pool.mos, object, None)

(***************************************************************************)
(* datasets: a breadth-first walk from root_dataset.                       *)
(***************************************************************************)
WalkFrom(root) ==
    IF root \in {Failed, None} THEN Fail
    ELSE Continue([at |-> "walk", queue |-> <<[dir |-> root, name |-> <<>>]>>,
                   seen |-> {}, listed |-> {}])
StartWalk == WalkFrom(zap_lookup(MosZap(1), "root_dataset"))

\* The children are queued in the order of their names, the hidden left out.
Rank(c, children) ==
    Cardinality({x \in children : pool.order[x[1]] <= pool.order[c[1]]})
Queued(children, name) ==
    LET shown == {c \in children : c[1] \notin Hidden}
    IN  [i \in 1..Cardinality(shown) |->
            LET c == CHOOSE x \in shown : Rank(x, shown) = i
            IN  [dir |-> c[2], name |-> Append(name, c[1])]]

\* Mutant: a directory without a head is skipped with all below it.
VisitHeads(here, directory, head, children) ==
    IF \/ Cardinality(step.seen) + 1 > MaxDatasets
       \/ directory = Failed \/ head = Failed \/ children = Failed
    THEN Fail
    ELSE Continue([step EXCEPT
            !.queue = IF head = None THEN Tail(@)
                      ELSE Tail(@) \o Queued(children, here.name),
            !.seen = @ \cup {here.dir},
            !.listed = IF head = None THEN @
                       ELSE @ \cup {[name |-> here.name, dir |-> here.dir,
                                     head |-> directory.bonus.head]}])

\* A directory that was not seen before.
Visit(here, directory, head, children) ==
    IF \/ Cardinality(step.seen) + 1 > MaxDatasets
       \/ directory = Failed \/ head = Failed \/ children = Failed
    THEN Fail
    ELSE Continue([step EXCEPT
            !.queue = Tail(@) \o Queued(children, here.name),
            !.seen = @ \cup {here.dir},
            !.listed = IF head = None THEN @
                       ELSE @ \cup {[name |-> here.name, dir |-> here.dir,
                                     head |-> directory.bonus.head]}])

\* The head and the children of a directory; 0 stands for none.
HeadOf(directory) ==
    IF directory.bonus.head = 0 THEN None ELSE MosObject(directory.bonus.head)
ChildrenOf(directory) ==
    IF directory.bonus.child = 0 THEN {} ELSE MosZap(directory.bonus.child)

VisitDirectory(here, directory) ==
    IF directory = Failed THEN Fail
    ELSE Visit(here, directory, HeadOf(directory), ChildrenOf(directory))

Walk ==
    /\ step.at = "walk" /\ step.queue # <<>>
    /\ IF Head(step.queue).dir \in step.seen
       THEN Continue([step EXCEPT !.queue = Tail(@)])
       ELSE VisitDirectory(Head(step.queue), MosObject(Head(step.queue).dir))
    /\ UNCHANGED <<diskVars, call>>

\* snapshots_for: the snapshots of a dataset, each with its GUID.
SnapshotsIn(snaps) ==
    IF \E s \in snaps : s.dn = Failed THEN Failed
    ELSE {[object |-> s.object, guid |-> s.dn.bonus.guid] : s \in snaps}
SnapshotsNamed(names) ==
    IF names = Failed THEN Failed
    ELSE IF Cardinality(names) > MaxSnapshots THEN Failed
    ELSE SnapshotsIn({[object |-> n[2], dn |-> MosObject(n[2])] : n \in names})
SnapshotsOf(head) ==
    IF head = Failed THEN Failed
    ELSE IF head.bonus.snapnames = 0 THEN {}
    ELSE SnapshotsNamed(MosZap(head.bonus.snapnames))
snapshots_for(dataset) == SnapshotsOf(MosObject(dataset.head))

\* inspect and snapshots: the datasets, each with its snapshots.
Report(found) ==
    IF \E f \in found : f.snaps = Failed THEN Fail
    ELSE Return({[name |-> f.dataset.name, dir |-> f.dataset.dir,
                  snaps |-> {s.guid : s \in f.snaps}] : f \in found}, "done")
Inspect ==
    /\ step.at = "walk" /\ step.queue = <<>> /\ call.op = "inspect"
    /\ Report({[dataset |-> d, snaps |-> snapshots_for(d)] : d \in step.listed})
    /\ UNCHANGED <<diskVars, call>>

(***************************************************************************)
(* select_dataset.  A snapshot is selected by its name or its GUID: both   *)
(* find it in the same list, so the model selects by GUID.                 *)
(***************************************************************************)
Selected(dataset, object) ==
    Continue([at |-> "selected", dir |-> dataset.dir, snap |-> call.snap,
              object |-> object])
SelectSnapshot(dataset, snaps) ==
    IF snaps = Failed THEN Fail
    ELSE IF \A s \in snaps : s.guid # call.snap THEN Fail
    ELSE Selected(dataset, (CHOOSE s \in snaps : s.guid = call.snap).object)
SelectIn(dataset) ==
    IF call.snap = None THEN Selected(dataset, dataset.head)
    ELSE SelectSnapshot(dataset, snapshots_for(dataset))
Select ==
    /\ step.at = "walk" /\ step.queue = <<>> /\ call.op # "inspect"
    /\ IF \A d \in step.listed : d.name # call.ds THEN Fail
       ELSE SelectIn(CHOOSE d \in step.listed : d.name = call.ds)
    /\ UNCHANGED <<diskVars, call>>

\* Mutant: a key for a dataset that is not encrypted is not refused.
NeedsKeyLenient(bp) ==
    IF bp.crypt
    THEN Continue([at |-> "climb", from |-> step, bp |-> bp, dir |-> step.dir,
                   seen |-> {}])
    ELSE IF call.op = "require" THEN Return(None, "done")
    ELSE Continue([at |-> "keyed", from |-> step, bp |-> bp, key |-> None])

\* dataset_view and encryption_requirement up to the key.
NeedsKey(bp) ==
    IF bp.crypt
    THEN Continue([at |-> "climb", from |-> step, bp |-> bp, dir |-> step.dir,
                   seen |-> {}])
    ELSE IF call.op = "require" THEN Return(None, "done")
    ELSE IF call.key # None THEN Fail
    ELSE Continue([at |-> "keyed", from |-> step, bp |-> bp, key |-> None])
OpenPointerOf(dataset) ==
    IF dataset = Failed THEN Fail ELSE NeedsKey(dataset.bonus.bp)
OpenPointer ==
    /\ step.at = "selected"
    /\ OpenPointerOf(MosObject(step.object))
    /\ UNCHANGED <<diskVars, call>>

\* encryption_params, one turn of its loop: the crypto key object of the
\* nearest directory that has one.
ClimbOn(directory, crypto) ==
    IF crypto = Failed THEN Fail
    ELSE IF crypto \notin {None, 0}
    THEN Continue([at |-> "crypto", from |-> step.from, bp |-> step.bp,
                   object |-> crypto])
    ELSE Continue([step EXCEPT !.seen = @ \cup {step.dir},
                               !.dir = directory.bonus.parent])
ClimbAt(directory) ==
    ClimbOn(directory,
            zap_lookup(read_zap_object_with_key(directory, None), "crypto_key_obj"))

\* Mutant: the loop ends only at the top of the chain.
ClimbForever ==
    /\ step.at = "climb"
    /\ IF step.dir = 0 THEN Fail ELSE ClimbAt(MosObject(step.dir))
    /\ UNCHANGED <<diskVars, call>>

Climb ==
    /\ step.at = "climb"
    /\ IF \/ step.dir = 0 \/ step.dir \in step.seen
          \/ Cardinality(step.seen) >= MaxParentWalk
       THEN Fail
       ELSE ClimbAt(MosObject(step.dir))
    /\ UNCHANGED <<diskVars, call>>

\* The rest of encryption_params, and unlock with the key material.
UnlockWith(wrapped) ==
    IF wrapped \in {Failed, None} THEN Fail
    ELSE IF call.op = "require" THEN Return(wrapped, "done")
    ELSE IF call.key # wrapped THEN Fail
    ELSE Continue([at |-> "keyed", from |-> step.from, bp |-> step.bp, key |-> call.key])
Unlock ==
    /\ step.at = "crypto"
    /\ UnlockWith(zap_lookup(MosZap(step.object), "wrapped"))
    /\ UNCHANGED <<diskVars, call>>

\* sa_context: whether system attributes can be decoded.
SaPart(meta, object, key) ==
    IF object \in {Failed, None} THEN Failed ELSE Zap(meta, object, key)
SaParts(meta, sa, key) ==
    {SaPart(meta, zap_lookup(sa, name), key) : name \in {"REGISTRY", "LAYOUTS"}}
sa_context(meta, sa_object, key) ==
    IF sa_object = None THEN FALSE
    ELSE IF Failed \in SaParts(meta, Zap(meta, sa_object, key), key) THEN Failed
    ELSE TRUE

\* The rest of dataset_view.
ViewOf(meta, root, sa) ==
    IF root \in {Failed, None} \/ sa = Failed THEN Fail
    ELSE Continue([at |-> "resolve", left |-> call.path, object |-> root, type |-> "dir",
                   view |-> [meta |-> meta, root |-> root, sa |-> sa,
                             snap |-> step.from.snap, key |-> step.key]])
ViewIn(meta, master) ==
    IF master = Failed THEN Fail
    ELSE ViewOf(meta, zap_lookup(master, "ROOT"),
                sa_context(meta, zap_lookup(master, "SA_ATTRS"), step.key))

\* verify_objset_mac, and the type of the objset.
OpenObjset(objset) ==
    IF objset = Failed THEN Fail
    ELSE IF step.key # None /\ objset.mac # step.key THEN Fail
    ELSE IF objset.type # "zfs" THEN Fail
    ELSE ViewIn(objset.meta, Zap(objset.meta, 1, step.key))
OpenView ==
    /\ step.at = "keyed"
    /\ OpenObjset(read_pool_block_from(step.bp, step.key))
    /\ UNCHANGED <<diskVars, call>>

CatalogNext ==
    Walk \/ Inspect \/ Select \/ OpenPointer \/ Climb \/ Unlock \/ OpenView
=============================================================================
