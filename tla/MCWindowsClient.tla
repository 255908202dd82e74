--------------------------- MODULE MCWindowsClient ---------------------------
(***************************************************************************)
(* WindowsClient with a ZFS source and one that opens as ZFS or as a disk  *)
(* image, two encrypted restore points, images of two volumes, up to two   *)
(* images open, and one key or two.  Restore points and volumes are        *)
(* interchangeable.                                                        *)
(***************************************************************************)
EXTENDS WindowsClient, TLC

Interchangeable == Permutations(View) \cup Permutations(Volume)

\* Bound: two keys only outside of images, where an update may be given one or
\* the other.  States with more are checked but not continued.
FewKeys ==
    Cardinality(app.keys) <= IF app.inception = <<>> /\ app.path = Root THEN 2 ELSE 1
=============================================================================
