---------------------------- MODULE ClientPlaces ----------------------------
(***************************************************************************)
(* What both clients browse: the views of a backup (snapshots and pool     *)
(* datasets), some of them behind a key, the directories of a view, and    *)
(* the volumes of a disk image in one of them.                             *)
(***************************************************************************)
CONSTANTS
    View, Encrypted,    \* views, or restore points; the ones that need a key
    Dir, Root,          \* directories
    Volume,             \* volumes of a disk image
    None                \* absent value

ASSUME PlacesAssumption ==
    /\ Encrypted \subseteq View
    /\ Root \in Dir
    /\ None \notin View \cup Volume
=============================================================================
