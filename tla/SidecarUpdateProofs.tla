------------------------ MODULE SidecarUpdateProofs -------------------------
(***************************************************************************)
(* For every set of snapshots, contents and incrementals, with runs that   *)
(* fail or are killed at any step: no incremental is replayed over a file  *)
(* that is not its base, the sidecar vouches only for its snapshot's file, *)
(* and SidecarUpdate implements VersionedFile.  Assumed: nobody else       *)
(* changes the file during a run, EditDuringRun = FALSE.                   *)
(***************************************************************************)
EXTENDS SidecarUpdate, TLAPS

LEMMA InitIInv == Init => IInv
BY SidecarUpdateAssumption DEF Init, IInv, TypeOK, Ops, Shape, SidecarSound, NeverMixed,
   ApplyKnows, BuildKnows, PublishedKnows, Steps

\* A run that ends leaves only the disk to speak of.
LEMMA ReturnIInv ==
    ASSUME Return, target' \in Content \cup {None},
           sidecar' \in Sidecar \cup {None}, SidecarSound'
    PROVE  IInv'
<1>1. TypeOK'
  BY DEF Return, TypeOK, Steps
<1>2. Shape' /\ ApplyKnows' /\ BuildKnows' /\ PublishedKnows'
  BY SidecarUpdateAssumption
     DEF Return, Shape, ApplyKnows, BuildKnows, PublishedKnows, Ops
<1>3. NeverMixed'
  BY SidecarUpdateAssumption DEF NeverMixed
<1> QED BY <1>1, <1>2, <1>3 DEF IInv

LEMMA StartIInv ==
    ASSUME IInv,
           \/ \E o \in {"extract", "pool"}, g \in Guid, f \in BOOLEAN :
                 StartSnapshot(o, g, f)
           \/ \E o \in {"head", "inner"}, f \in BOOLEAN : StartUnversioned(o, f)
           \/ \E e \in Edges : StartApply(e)
    PROVE  IInv'
<1> USE SidecarUpdateAssumption
<1>1. ASSUME NEW o \in {"extract", "pool"}, NEW g \in Guid, NEW f \in BOOLEAN,
             StartSnapshot(o, g, f)
      PROVE  IInv'
  BY <1>1 DEF StartSnapshot, disk, work, IInv, TypeOK, Steps, Ops, Shape,
     SidecarSound, NeverMixed, ApplyKnows, BuildKnows, PublishedKnows
<1>2. ASSUME NEW o \in {"head", "inner"}, NEW f \in BOOLEAN, StartUnversioned(o, f)
      PROVE  IInv'
  BY <1>2 DEF StartUnversioned, disk, work, IInv, TypeOK, Steps, Ops, Shape,
     SidecarSound, NeverMixed, ApplyKnows, BuildKnows, PublishedKnows
<1>3. ASSUME NEW e \in Edges, StartApply(e)
      PROVE  IInv'
  <2>1. e[1] \in Guid /\ e[2] \in Guid /\ e = <<e[1], e[2]>>
    OBVIOUS
  <2> QED
    BY <1>3, <2>1 DEF StartApply, disk, work, IInv, TypeOK, Steps, Ops, Shape,
       SidecarSound, NeverMixed, ApplyKnows, BuildKnows, PublishedKnows
<1> QED BY <1>1, <1>2, <1>3

LEMMA CheckIInv == IInv /\ (CheckOutput \/ CheckAgain) => IInv'
BY DEF CheckOutput, CheckAgain, disk, locals, work, IInv, TypeOK, Steps, Shape,
   SidecarSound, NeverMixed, ApplyKnows, BuildKnows, PublishedKnows

LEMMA BuildIInv == IInv /\ Build => IInv'
<1> SUFFICES ASSUME IInv, Build PROVE IInv'
  OBVIOUS
<1> USE SidecarUpdateAssumption DEF Build, disk, locals
<1>1. /\ op \in {"extract", "pool"} => goal \in Guid /\ temp' = ContentOf[goal]
      /\ op \in {"head", "inner"} => temp' \in Content
      /\ op \in {"extract", "pool", "head", "inner"}
      /\ temp' \in Content
  BY DEF IInv, TypeOK, Shape, Ops
<1>2. TypeOK'
  BY <1>1 DEF IInv, TypeOK, Steps
<1>3. Shape' /\ SidecarSound' /\ NeverMixed' /\ PublishedKnows'
  BY DEF IInv, Shape, SidecarSound, NeverMixed, PublishedKnows
<1>4. ApplyKnows' /\ BuildKnows'
  BY <1>1 DEF ApplyKnows, BuildKnows
<1> QED BY <1>2, <1>3, <1>4 DEF IInv

LEMMA PublishIInv == IInv /\ Publish => IInv'
<1> SUFFICES ASSUME IInv, Publish PROVE IInv'
  OBVIOUS
<1> USE SidecarUpdateAssumption DEF Publish
<1>1. /\ op \in Ops
      /\ temp \in Content
      /\ op \in {"extract", "pool", "apply"} => temp = ContentOf[goal]
  BY DEF IInv, TypeOK, Shape, ApplyKnows, BuildKnows, Ops
<1>2. SidecarSound' /\ NeverMixed'
  BY <1>1 DEF IInv, SidecarSound, NeverMixed
<1>3. CASE op = "inner"
  BY <1>1, <1>2, <1>3, ReturnIInv DEF IInv, TypeOK
<1>4. CASE op # "inner"
  <2> USE DEF locals, work
  <2>1. pc' = IF op \in {"extract", "apply"} THEN "hash"
              ELSE IF op = "pool" THEN "save" ELSE "unlink"
    BY <1>1, <1>4 DEF Ops
  <2>2. TypeOK' /\ Shape'
    BY <1>1, <1>4, <2>1 DEF IInv, TypeOK, Shape, Steps, Ops
  <2>3. ApplyKnows' /\ BuildKnows'
    BY <1>4, <2>1 DEF ApplyKnows, BuildKnows
  <2>4. PublishedKnows'
    BY <1>1, <1>4, <2>1 DEF IInv, BuildKnows, PublishedKnows, Ops
  <2> QED BY <1>2, <2>2, <2>3, <2>4 DEF IInv
<1> QED BY <1>3, <1>4

LEMMA HashIInv == IInv /\ HashOutput => IInv'
BY DEF HashOutput, disk, locals, IInv, TypeOK, Steps, Shape, SidecarSound,
   NeverMixed, ApplyKnows, BuildKnows, PublishedKnows

LEMMA SaveIInv == IInv /\ SaveSidecar => IInv'
<1> SUFFICES ASSUME IInv, SaveSidecar PROVE IInv'
  OBVIOUS
<1>1. goal \in Guid /\ hash = ContentOf[goal] /\ target' = target
  BY DEF IInv, Shape, PublishedKnows, SaveSidecar
<1>2. sidecar' \in Sidecar /\ SidecarSound'
  BY <1>1, SidecarUpdateAssumption DEF SaveSidecar, Sidecar, SidecarSound
<1> QED BY <1>1, <1>2, ReturnIInv DEF IInv, TypeOK, NeverMixed, SaveSidecar

LEMMA RemoveIInv == IInv /\ (RemoveSidecar \/ Stop) => IInv'
BY ReturnIInv DEF IInv, TypeOK, NeverMixed, SidecarSound, RemoveSidecar, Stop, disk

LEMMA ReadIInv == IInv /\ ReadSidecar => IInv'
BY DEF ReadSidecar, disk, locals, IInv, TypeOK, Steps, Shape, SidecarSound,
   NeverMixed, ApplyKnows, BuildKnows, PublishedKnows

LEMMA VerifyIInv == IInv /\ VerifyTarget => IInv'
BY DEF VerifyTarget, disk, locals, work, IInv, TypeOK, Steps, Shape, SidecarSound,
   NeverMixed, ApplyKnows, BuildKnows, PublishedKnows

LEMMA CopyIInv == IInv /\ CopyTarget => IInv'
BY DEF CopyTarget, disk, locals, IInv, TypeOK, Steps, Shape, SidecarSound,
   NeverMixed, ApplyKnows, BuildKnows, PublishedKnows

LEMMA ReplayIInv == IInv /\ ReplayIncremental => IInv'
<1> SUFFICES ASSUME IInv, ReplayIncremental PROVE IInv'
  OBVIOUS
<1> USE SidecarUpdateAssumption DEF ReplayIncremental, disk, locals
<1>1. /\ op = "apply" /\ goal \in Guid /\ sidecar # None /\ base = sidecar
      /\ temp = target /\ target = sidecar.sha256
  BY DEF IInv, Shape, ApplyKnows
<1>2. from_guid = sidecar.guid /\ target = ContentOf[from_guid]
  BY <1>1 DEF IInv, SidecarSound
<1>3. temp' = ContentOf[goal] /\ temp' \in Content
  BY <1>1, <1>2 DEF Patch
<1>4. TypeOK' /\ Shape'
  BY <1>1, <1>3 DEF IInv, TypeOK, Shape, Steps
<1>5. SidecarSound' /\ NeverMixed' /\ PublishedKnows'
  BY DEF IInv, SidecarSound, NeverMixed, PublishedKnows
<1>6. ApplyKnows' /\ BuildKnows'
  BY <1>1, <1>2, <1>3 DEF ApplyKnows, BuildKnows
<1> QED BY <1>4, <1>5, <1>6 DEF IInv

LEMMA EditIInv ==
    ASSUME EditDuringRun = FALSE, IInv, NEW c \in Content \cup {None}, Edit(c)
    PROVE  IInv'
BY SidecarUpdateAssumption DEF Edit, locals, work, IInv, TypeOK, Shape,
   SidecarSound, NeverMixed, ApplyKnows, BuildKnows, PublishedKnows

LEMMA NextIInv ==
    ASSUME EditDuringRun = FALSE, IInv, [Next]_vars
    PROVE  IInv'
<1>1. CASE UNCHANGED vars
  BY <1>1 DEF vars, disk, locals, work, IInv, TypeOK, Shape, SidecarSound,
     NeverMixed, ApplyKnows, BuildKnows, PublishedKnows
<1>2. CASE Next
  BY <1>2, StartIInv, CheckIInv, BuildIInv, PublishIInv, HashIInv, SaveIInv,
     RemoveIInv, ReadIInv, VerifyIInv, CopyIInv, ReplayIInv, EditIInv DEF Next
<1> QED BY <1>1, <1>2

LEMMA Invariance ==
    ASSUME EditDuringRun = FALSE
    PROVE  Spec => []IInv
<1>1. IInv /\ [Next]_vars => IInv'
  BY NextIInv
<1> QED BY InitIInv, <1>1, PTL DEF Spec

\* No crash, failure or local edit between runs makes apply replay an
\* incremental over a file that is not its base.
THEOREM UpdateNeverMixes ==
    ASSUME EditDuringRun = FALSE
    PROVE  Spec => []NeverMixed
<1>1. IInv => NeverMixed
  BY DEF IInv
<1> QED BY <1>1, Invariance, PTL

\* A sidecar on disk always holds the hash of its snapshot's file.
THEOREM UpdateSidecarSound ==
    ASSUME EditDuringRun = FALSE
    PROVE  Spec => []SidecarSound
<1>1. IInv => SidecarSound
  BY DEF IInv
<1> QED BY <1>1, Invariance, PTL

-----------------------------------------------------------------------------
(* The refinement of VersionedFile.                                        *)

BaseOf == IF sidecar = None THEN None ELSE sidecar.guid
Busy == CASE op \in {"extract", "pool"} -> "snapshot"
          [] op \in {"head", "inner"} -> "plain"
          [] op = "apply" -> "advance"
          [] OTHER -> None

LEMMA BusyFacts ==
    /\ op \in {"extract", "pool"} => Busy = "snapshot"
    /\ op \in {"head", "inner"} => Busy = "plain"
    /\ op = "apply" => Busy = "advance"
    /\ op = None => Busy = None
<1>1. None \notin Ops
  BY SidecarUpdateAssumption
<1> QED BY <1>1 DEF Busy, Ops

\* The same facts of the next state.
LEMMA BusyFactsNext ==
    /\ op' \in {"extract", "pool"} => Busy' = "snapshot"
    /\ op' \in {"head", "inner"} => Busy' = "plain"
    /\ op' = "apply" => Busy' = "advance"
    /\ op' = None => Busy' = None
<1>1. None \notin Ops
  BY SidecarUpdateAssumption
<1> QED BY <1>1 DEF Busy, Ops

LEMMA AbstractStep ==
    ASSUME EditDuringRun = FALSE, IInv, [Next]_vars
    PROVE  \/ UNCHANGED <<target, BaseOf, Busy>>
           \/ /\ Busy = None /\ target' \in Content \cup {None}
              /\ UNCHANGED <<BaseOf, Busy>>
           \/ /\ Busy = None /\ Busy' \in {"snapshot", "plain", "advance"}
              /\ UNCHANGED <<target, BaseOf>>
           \/ /\ Busy = "snapshot" /\ (\E g \in Guid : target' = ContentOf[g])
              /\ UNCHANGED <<BaseOf, Busy>>
           \/ /\ Busy = "plain" /\ Busy' \in {Busy, None} /\ target' \in Content
              /\ UNCHANGED BaseOf
           \/ /\ Busy = "advance"
              /\ \E e \in Edges : /\ BaseOf = e[1] /\ target = ContentOf[e[1]]
                                  /\ target' = ContentOf[e[2]]
              /\ UNCHANGED <<BaseOf, Busy>>
           \/ /\ Busy \in {"snapshot", "advance"} /\ Busy' = None
              /\ \E g \in Guid : target = ContentOf[g] /\ BaseOf' = g
              /\ UNCHANGED target
           \/ /\ Busy = "plain" /\ Busy' = None /\ BaseOf' = None
              /\ UNCHANGED target
           \/ /\ Busy # None /\ Busy' = None /\ UNCHANGED <<target, BaseOf>>
<1>0. op \in Ops \cup {None}
  BY DEF IInv, TypeOK
<1>1. ASSUME UNCHANGED <<disk, op>> PROVE UNCHANGED <<target, BaseOf, Busy>>
  BY <1>1 DEF disk, BaseOf, Busy
<1>2. CASE \/ CheckOutput \/ Build \/ CheckAgain \/ HashOutput \/ ReadSidecar
           \/ VerifyTarget \/ CopyTarget \/ ReplayIncremental \/ UNCHANGED vars
  <2>1. UNCHANGED <<disk, op>>
    BY <1>2 DEF CheckOutput, Build, CheckAgain, HashOutput, ReadSidecar,
       VerifyTarget, CopyTarget, ReplayIncremental, vars, disk, locals
  <2> QED BY <1>1, <2>1
<1>3. CASE \/ \E o \in {"extract", "pool"}, g \in Guid, f \in BOOLEAN :
                 StartSnapshot(o, g, f)
           \/ \E o \in {"head", "inner"}, f \in BOOLEAN : StartUnversioned(o, f)
           \/ \E e \in Edges : StartApply(e)
  <2>1. pc = "idle" /\ op' \in Ops /\ UNCHANGED disk
    BY <1>3 DEF StartSnapshot, StartUnversioned, StartApply, Ops
  <2>2. Busy = None
    BY <2>1, BusyFacts DEF IInv, Shape
  <2>3. Busy' \in {"snapshot", "plain", "advance"}
    BY <2>1, BusyFactsNext DEF Ops
  <2>4. UNCHANGED <<target, BaseOf>>
    BY <2>1 DEF disk, BaseOf
  <2> QED BY <2>2, <2>3, <2>4
<1>4. CASE Publish
  <2>1. op \in Ops /\ UNCHANGED BaseOf /\ target' = temp
    BY <1>4 DEF IInv, TypeOK, Shape, Publish, BaseOf
  <2>2. CASE op = "inner"
    <3>1. Busy = "plain" /\ Busy' = None
      BY <1>4, <2>2, BusyFacts, BusyFactsNext DEF Publish, Return
    <3>2. target' \in Content
      BY <1>4, <2>1, <2>2 DEF IInv, BuildKnows, Publish
    <3> QED BY <2>1, <3>1, <3>2
  <2>3. ASSUME op # "inner" PROVE UNCHANGED Busy
    BY <1>4, <2>3 DEF Publish, locals, Busy
  <2>4. CASE op = "head"
    <3>1. Busy = "plain"
      BY <2>4, BusyFacts
    <3>2. target' \in Content
      BY <1>4, <2>1, <2>4 DEF IInv, BuildKnows, Publish
    <3> QED BY <2>1, <2>3, <2>4, <3>1, <3>2
  <2>5. CASE op \in {"extract", "pool"}
    <3>1. Busy = "snapshot"
      BY <2>5, BusyFacts
    <3>2. goal \in Guid /\ target' = ContentOf[goal]
      BY <1>4, <2>1, <2>5 DEF IInv, BuildKnows, Publish, Shape
    <3> QED BY <2>1, <2>3, <2>5, <3>1, <3>2
  <2>6. CASE op = "apply"
    <3>1. Busy = "advance"
      BY <2>6, BusyFacts
    <3>2. /\ <<from_guid, goal>> \in Edges
          /\ BaseOf = from_guid /\ target = ContentOf[from_guid]
          /\ target' = ContentOf[goal]
      BY <1>4, <2>1, <2>6 DEF IInv, ApplyKnows, Publish, Shape, BaseOf
    <3>3. \E e \in Edges : /\ BaseOf = e[1] /\ target = ContentOf[e[1]]
                           /\ target' = ContentOf[e[2]]
      BY <3>2
    <3> QED BY <2>1, <2>3, <2>6, <3>1, <3>3
  <2> QED BY <2>1, <2>2, <2>4, <2>5, <2>6 DEF Ops
<1>5. CASE SaveSidecar
  <2>1. Busy \in {"snapshot", "advance"} /\ Busy' = None
    BY <1>5, BusyFacts, BusyFactsNext DEF IInv, Shape, SaveSidecar, Return
  <2>2. goal \in Guid /\ target = ContentOf[goal] /\ UNCHANGED target
    BY <1>5 DEF IInv, Shape, PublishedKnows, SaveSidecar
  <2>3. hash \in Content
    BY <1>5, <2>2, SidecarUpdateAssumption DEF IInv, PublishedKnows, SaveSidecar
  <2>4. sidecar' = [guid |-> goal, sha256 |-> hash] /\ sidecar' # None
    BY <1>5, <2>2, <2>3, SidecarUpdateAssumption DEF SaveSidecar, Sidecar
  <2> QED BY <2>1, <2>2, <2>4 DEF BaseOf
<1>6. CASE RemoveSidecar
  <2>1. Busy = "plain" /\ Busy' = None
    BY <1>6, BusyFacts, BusyFactsNext DEF IInv, Shape, RemoveSidecar, Return
  <2>2. BaseOf' = None /\ UNCHANGED target
    BY <1>6 DEF RemoveSidecar, BaseOf
  <2> QED BY <2>1, <2>2
<1>7. CASE Stop
  <2>1. op \in Ops /\ op' = None /\ UNCHANGED <<target, sidecar>>
    BY <1>7, <1>0 DEF IInv, Shape, Stop, Return, disk
  <2>2. Busy \in {"snapshot", "plain", "advance"} /\ Busy' = None
    BY <2>1, BusyFacts, BusyFactsNext DEF Ops
  <2> QED BY <2>1, <2>2, SidecarUpdateAssumption DEF BaseOf
<1>8. CASE \E c \in Content \cup {None} : Edit(c)
  <2>1. pc = "idle" /\ target' \in Content \cup {None} /\ UNCHANGED <<sidecar, op>>
    BY <1>8 DEF Edit, locals
  <2>2. Busy = None /\ UNCHANGED Busy
    BY <2>1, BusyFacts, BusyFactsNext DEF IInv, Shape
  <2>3. UNCHANGED BaseOf
    BY <2>1 DEF BaseOf
  <2> QED BY <2>1, <2>2, <2>3
<1> QED BY <1>2, <1>3, <1>4, <1>5, <1>6, <1>7, <1>8 DEF Next

\* Extraction, apply and every failure of theirs keep the promise that
\* VersionedFile states.
THEOREM UpdateKeepsPromise ==
    ASSUME EditDuringRun = FALSE
    PROVE  Spec => Promise
<1>1. Init => Abstract!Init
  BY BusyFacts DEF Init, Abstract!Init, Busy
<1>2. IInv /\ [Next]_vars => [Abstract!Next]_(Abstract!vf)
  BY AbstractStep DEF BaseOf, Busy, Abstract!Next, Abstract!vf, Abstract!Edit,
     Abstract!Start, Abstract!Restore, Abstract!RestorePlain, Abstract!Advance,
     Abstract!Certify, Abstract!Forget, Abstract!Stop
<1> QED BY <1>1, <1>2, Invariance, PTL DEF Spec, Promise, Abstract!Spec
=============================================================================
