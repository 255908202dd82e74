----------------------------- MODULE MCRawReplay -----------------------------
(***************************************************************************)
(* RawReplay on a file of up to two blocks, with a neighbour that is       *)
(* absent or present.                                                      *)
(***************************************************************************)
EXTENDS RawReplay

\* The neighbour is an empty file.
Neighbours ==
    {[levels |-> 1, max |-> 0, bonus |-> 0, flag |-> FALSE, spill |-> None,
      blocks |-> [b \in Blk |-> Hole]]}

\* Nothing is claimed of what follows a run that lost the OBJECT_RANGE.
Followed == unranged => open \/ mode = "apply"
=============================================================================
