---------------------------- MODULE SnapshotChain ---------------------------
(***************************************************************************)
(* Which substreams of a send file make up one snapshot: plan_snapshot of  *)
(* src/filesystem.rs chooses the target and walks its `toguid -> fromguid' *)
(* links backwards; the index (build_plan_with_key) and the extraction     *)
(* (replay_object of src/operations.rs) then read the file again and       *)
(* replay the substreams whose GUID is in the chain.                       *)
(*                                                                         *)
(* A substream is its header; replaying it turns the state of its base     *)
(* into the state of its snapshot, and any other state into a mixture.     *)
(* The file may grow or be cut between and during the three readings.      *)
(* Streams with encrypted raw records take another path and are left out.  *)
(***************************************************************************)
EXTENDS Naturals, Sequences, FiniteSets

CONSTANTS
    Headers,      \* the BEGIN headers a file may hold: to and from GUID, full
                  \* name (dataset@snapshot) and short name (snapshot)
    Selectors,    \* what --snapshot may be: the text, the text without its @,
                  \* and the number it parses to, 0 if it is none
    NoSelector,   \* no --snapshot
    Mixture,      \* a state that is no snapshot's
    MaxLen,       \* bound on the substreams of a file
    MaxChanges,   \* bound on the changes of the file during a run
    Rewrites      \* may a file that was cut off be written on?

ASSUME SnapshotChainAssumption ==
    /\ \A h \in Headers : h.to \in Nat \ {0} /\ h.from \in Nat
    /\ NoSelector \notin Selectors
    /\ MaxLen \in Nat /\ MaxChanges \in Nat
    /\ Rewrites \in BOOLEAN

VARIABLES
    file,        \* the substreams of the send file
    changes,     \* changes so far
    was_cut,     \* was one of them a cut?
    replicated,  \* did two substreams of the file ever make the same snapshot?
    selector,    \* --snapshot
    phase,       \* "start", "walk", "index", "replay", "done" or "failed"
    why,         \* why it failed, "none" before
    snapshots,   \* the headers that snapshot_headers read
    target,      \* the index of the target in snapshots
    chain,       \* the GUIDs of the plan, the base first
    cursor, from_guid,  \* the walk
    pos,         \* the next substream of this reading
    seen,        \* the GUIDs of the chain met in this reading
    state,       \* the GUID of the state rebuilt in this reading
    index        \* the GUID of the state that the index holds

past == <<changes, was_cut, replicated>>
reading == <<pos, seen, state>>
plan == <<snapshots, target, chain>>
walk == <<cursor, from_guid>>
vars == <<file, past, selector, phase, why, plan, walk, reading, index>>

Guids == {h.to : h \in Headers} \cup {h.from : h \in Headers}
Nothing == 0   \* fromguid of a full substream: no base

Files == UNION {[1..n -> Headers] : n \in 0..MaxLen}
Distinct(f, key) ==
    \A i, j \in DOMAIN f : f[i][key] = f[j][key] => i = j

\* No stream is in a file twice, but a replica of it may be, or the stream of
\* the same snapshot under another name.
Legal(f) == Distinct(f, "full")

-----------------------------------------------------------------------------
(* plan_snapshot.                                                          *)

Fail(reason) == phase' = "failed" /\ why' = reason

\* select_snapshot: the substreams s may mean, by the first form that
\* decides: its full name, its short name, its GUID.
Selected(hs, s) ==
    LET exact == {i \in DOMAIN hs : hs[i].full = s.text}
        named == {i \in DOMAIN hs : hs[i].short = s.short}
        guids == {i \in DOMAIN hs : hs[i].to = s.guid}
    IN  IF s = NoSelector THEN DOMAIN hs
        ELSE IF Cardinality(exact) = 1 THEN exact
        ELSE IF named # {} THEN named
        ELSE guids

\* snapshot_headers and select_snapshot: read the file, choose the target.
Plan ==
    /\ phase = "start"
    /\ snapshots' = file
    /\ LET chosen == Selected(file, selector) IN
       IF Cardinality(chosen) # 1
       THEN /\ Fail("no such snapshot")
            /\ UNCHANGED <<target, chain, walk>>
       ELSE \E t \in chosen :
            /\ target' = file[t].to /\ chain' = <<file[t].to>>
            /\ cursor' = t /\ from_guid' = file[t].from
            /\ phase' = "walk"
            /\ UNCHANGED why
    /\ UNCHANGED <<file, past, selector, reading, index>>

\* Mutant: the first substream that made the base, not the nearest.
BasesFirst ==
    LET made == {i \in 1..(cursor - 1) : snapshots[i].to = from_guid}
    IN  {i \in made : \A j \in made : i <= j}

\* The substreams the walk may take as the base it needs.
Bases == {i \in 1..(cursor - 1) : snapshots[i].to = from_guid}

\* One link of the walk: the nearest earlier substream that made the base.
Walk ==
    /\ phase = "walk" /\ from_guid # Nothing
    /\ IF Bases = {}
       THEN Fail("base is missing") /\ UNCHANGED <<plan, walk>>
       ELSE LET i == CHOOSE i \in Bases : \A j \in Bases : j <= i IN
            /\ chain' = <<snapshots[i].to>> \o chain
            /\ cursor' = i /\ from_guid' = snapshots[i].from
            /\ UNCHANGED <<phase, why, snapshots, target>>
    /\ UNCHANGED <<file, past, selector, reading, index>>

\* A reading of the file begins, with nothing rebuilt.
Reading(p) ==
    /\ phase' = p
    /\ pos' = 1 /\ seen' = {} /\ state' = Nothing

\* The chain is complete: build_plan_with_key opens the file.
Planned ==
    /\ phase = "walk" /\ from_guid = Nothing
    /\ Reading("index")
    /\ UNCHANGED <<file, past, selector, why, plan, walk, index>>

-----------------------------------------------------------------------------
(* build_plan_with_key, then replay_object.                                *)

Chosen(h) == \E k \in DOMAIN chain : chain[k] = h.to

\* What replaying a substream makes of a state.
Replay(g, h) == IF h.from = g THEN h.to ELSE Mixture

\* One substream, from its BEGIN to its END.
Substream ==
    /\ phase \in {"index", "replay"} /\ pos <= Len(file)
    /\ LET h == file[pos] IN
       IF Chosen(h)
       THEN /\ seen' = seen \cup {h.to}
            /\ state' = Replay(state, h)
       ELSE UNCHANGED <<seen, state>>
    /\ pos' = pos + 1
    /\ UNCHANGED <<file, past, selector, phase, why, plan, walk, index>>

\* The index is built; the path is looked up and the output opened.
Indexed ==
    /\ phase = "index"
    /\ index' = state
    /\ Reading("replay")
    /\ UNCHANGED why

Extracted ==
    /\ phase = "replay"
    /\ phase' = "done"
    /\ UNCHANGED <<why, reading, index>>

\* Mutant: what was met is not compared with the plan.
EndOfFileUnchecked ==
    /\ phase \in {"index", "replay"} /\ pos > Len(file)
    /\ Indexed \/ Extracted
    /\ UNCHANGED <<file, past, selector, plan, walk>>

\* Mutant: a file that changed is read again, as long as it takes.
EndOfFileRetries ==
    /\ phase \in {"index", "replay"} /\ pos > Len(file)
    /\ IF Cardinality(seen) # Len(chain)
       THEN Reading(phase) /\ UNCHANGED <<why, index>>
       ELSE Indexed \/ Extracted
    /\ UNCHANGED <<file, past, selector, plan, walk>>

\* The end of a reading: every GUID of the chain must have been met.
EndOfFile ==
    /\ phase \in {"index", "replay"} /\ pos > Len(file)
    /\ IF Cardinality(seen) # Len(chain)
       THEN Fail("stream changed") /\ UNCHANGED <<reading, index>>
       ELSE Indexed \/ Extracted
    /\ UNCHANGED <<file, past, selector, plan, walk>>

\* next_record fails, a record is unsupported or the path is not found.
ReadError ==
    /\ phase \in {"start", "index", "replay"}
    /\ Fail("read error")
    /\ UNCHANGED <<file, past, selector, plan, walk, reading, index>>

-----------------------------------------------------------------------------
(* The file, written by others.                                            *)

Change ==
    /\ phase \notin {"done", "failed"} /\ changes < MaxChanges
    /\ changes' = changes + 1
    /\ UNCHANGED <<selector, phase, why, plan, walk, reading, index>>

\* A substream is appended.  What was cut off may come back in another order
\* only with Rewrites.
Grow ==
    /\ Change
    /\ Len(file) < MaxLen /\ (was_cut => Rewrites)
    /\ \E h \in Headers : file' = Append(file, h) /\ Legal(file')
    /\ replicated' = (replicated \/ ~Distinct(file', "to"))
    /\ UNCHANGED was_cut

\* The file is cut off at the end of a substream.
Cut ==
    /\ Change
    /\ \E n \in 0..(Len(file) - 1) : file' = SubSeq(file, 1, n)
    /\ was_cut' = TRUE
    /\ UNCHANGED replicated

Init ==
    /\ file \in Files /\ Legal(file) /\ replicated = ~Distinct(file, "to")
    /\ selector \in Selectors \cup {NoSelector}
    /\ changes = 0 /\ was_cut = FALSE /\ phase = "start" /\ why = "none"
    /\ snapshots = << >> /\ target = Nothing /\ chain = << >>
    /\ cursor = 0 /\ from_guid = Nothing /\ index = Nothing
    /\ pos = 1 /\ seen = {} /\ state = Nothing

Step == Plan \/ Walk \/ Planned \/ Substream \/ EndOfFile

Terminated == phase \in {"done", "failed"} /\ UNCHANGED vars

Next == Step \/ ReadError \/ Grow \/ Cut \/ Terminated

Spec == Init /\ [][Next]_vars /\ WF_vars(Step)

-----------------------------------------------------------------------------
(* Properties.                                                             *)

\* The plan never holds more links than the file has substreams.
TypeOK ==
    /\ file \in Files /\ snapshots \in Files
    /\ selector \in Selectors \cup {NoSelector}
    /\ changes \in 0..MaxChanges /\ {was_cut, replicated} \subseteq BOOLEAN
    /\ phase \in {"start", "walk", "index", "replay", "done", "failed"}
    /\ target \in Guids \cup {Nothing}
    /\ Len(chain) <= Len(snapshots)
    /\ cursor \in 0..Len(snapshots) /\ from_guid \in Guids \cup {Nothing}
    /\ pos \in 1..(MaxLen + 1)
    /\ seen \subseteq Guids
    /\ {state, index} \subseteq Guids \cup {Nothing, Mixture}

\* An extraction that succeeds has looked the path up in the target snapshot
\* and written the target snapshot's data (extract_snapshot_with_key): the
\* three readings of the file agree although each only tests a GUID against
\* the chain, whatever else the file holds and although it grows or is cut.
\* A file with a second substream of a snapshot is excepted: both of them are
\* in the chain, and both are replayed.
RebuiltIsTarget == phase = "done" /\ ~replicated => index = target /\ state = target

\* An ancestry of substream t among the headers hs: a full substream first,
\* and each of the others an increment of the one before.
Ancestry(hs, t, S) ==
    /\ t \in S /\ S \subseteq 1..t
    /\ \A i \in S :
          \/ hs[i].from = Nothing /\ \A j \in S : i <= j
          \/ \E j \in S : /\ j < i /\ hs[j].to = hs[i].from
                          /\ \A k \in S : ~(j < k /\ k < i)

\* The substreams of a snapshot are increments of the same base: replicas.
SameBase(hs) == \A i, j \in DOMAIN hs : hs[i].to = hs[j].to => hs[i].from = hs[j].from

\* plan_snapshot says that a base is missing only when no ancestry of the
\* chosen substream exists in the file as it was read: of several candidates
\* for a base, some of which come before their own base, taking the nearest
\* and never going back loses nothing, as long as the substreams that make
\* one snapshot are increments of the same base.
MissingIsMissing ==
    why = "base is missing" /\ SameBase(snapshots) =>
        \A t \in Selected(snapshots, selector) :
            ~\E S \in SUBSET DOMAIN snapshots : Ancestry(snapshots, t, S)

\* The walk and the readings end, whatever links the headers hold (a base
\* that is its own descendant too) and although the file changes.
Terminates == <>(phase \in {"done", "failed"})
=============================================================================
