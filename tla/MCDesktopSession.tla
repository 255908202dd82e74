-------------------------- MODULE MCDesktopSession --------------------------
(***************************************************************************)
(* DesktopSession with one file and one device node, two ZFS sources with  *)
(* views of the same names, a disk image, two encrypted views with         *)
(* different keys and a plain one, and up to two nested images.            *)
(***************************************************************************)
EXTENDS DesktopSession

\* Each encrypted view has its own key; the second medium is a copy of the
\* first whose second view was given another key since.
KeyFor(m, v) == IF v = "v1" \/ m = "zfs2" THEN "k1" ELSE "k2"
=============================================================================
