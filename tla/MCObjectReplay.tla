--------------------------- MODULE MCObjectReplay ---------------------------
(***************************************************************************)
(* ObjectReplay on files of a few bytes.  A write crosses a chunk boundary *)
(* (ChunkSize < MaxBytes), and a file can grow, shrink, be freed and come  *)
(* back; chains and runs of apply have no bound.                           *)
(***************************************************************************)
EXTENDS ObjectReplay
=============================================================================
