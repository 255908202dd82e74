--------------------------- MODULE VersionedFile ----------------------------
(***************************************************************************)
(* What the program promises of an extracted file that incremental sends   *)
(* advance.  `content' is the file, `base' the snapshot its sidecar names. *)
(* The program may put the file of a snapshot (or of a live head or an     *)
(* inner image) there as a whole; it may advance the file along an         *)
(* incremental only from the file of the snapshot the sidecar names; and   *)
(* it names a snapshot only while the file is that snapshot's.             *)
(***************************************************************************)
CONSTANTS
    Guid,       \* snapshots
    Content,    \* file contents
    ContentOf,  \* the contents of the file in each snapshot
    Edges,      \* the incremental sends, pairs <<from, to>>
    None        \* no file, no sidecar

VARIABLES
    content,
    base,
    busy        \* the kind of run under way, None if there is none

vf == <<content, base, busy>>

Init == content \in Content \cup {None} /\ base = None /\ busy = None

\* The owner of the file changes, moves or deletes it.
Edit ==
    /\ busy = None
    /\ content' \in Content \cup {None}
    /\ UNCHANGED <<base, busy>>

Start ==
    /\ busy = None
    /\ busy' \in {"snapshot", "plain", "advance"}
    /\ UNCHANGED <<content, base>>

\* The file of a snapshot is put in place as a whole.
Restore ==
    /\ busy = "snapshot"
    /\ \E g \in Guid : content' = ContentOf[g]
    /\ UNCHANGED <<base, busy>>

\* A file that no snapshot vouches for is put in place.
RestorePlain ==
    /\ busy = "plain" /\ busy' \in {busy, None}
    /\ content' \in Content
    /\ UNCHANGED base

\* An incremental is put in place over the file of its base.
Advance ==
    /\ busy = "advance"
    /\ \E e \in Edges :
          /\ base = e[1] /\ content = ContentOf[e[1]]
          /\ content' = ContentOf[e[2]]
    /\ UNCHANGED <<base, busy>>

\* The sidecar is written, and the run ends.
Certify ==
    /\ busy \in {"snapshot", "advance"} /\ busy' = None
    /\ \E g \in Guid : content = ContentOf[g] /\ base' = g
    /\ UNCHANGED content

\* The sidecar of a file that is no snapshot's is removed, and the run ends.
Forget == busy = "plain" /\ busy' = None /\ base' = None /\ UNCHANGED content

\* The run fails.
Stop == busy # None /\ busy' = None /\ UNCHANGED <<content, base>>

Next ==
    \/ Edit \/ Start \/ Restore \/ RestorePlain \/ Advance \/ Certify \/ Forget
    \/ Stop

Spec == Init /\ [][Next]_vf
=============================================================================
