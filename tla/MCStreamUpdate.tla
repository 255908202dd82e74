--------------------------- MODULE MCStreamUpdate ---------------------------
(***************************************************************************)
(* What comes in and what is left behind, in one run.  StreamReader reads  *)
(* files of up to nine records (a compound package of one substream takes  *)
(* six), with one fault of the medium anywhere in them.  SidecarUpdate has *)
(* four snapshots, the last of which holds the same file as the first (so  *)
(* that a stale sidecar can look current), a branch, and an edited content *)
(* that no snapshot has.  Neither reads the other's state: each moves      *)
(* while the other is in its initial state.                                *)
(***************************************************************************)
EXTENDS StreamReader, SidecarUpdate

MCGuid == {"g1", "g2", "g3", "g4"}
MCContent == {"a", "b", "c", "edited"}
MCContentOf == [g \in MCGuid |-> CASE g = "g1" -> "a" [] g = "g2" -> "b"
                                   [] g = "g3" -> "c" [] g = "g4" -> "a"]
MCEdges == {<<"g1", "g2">>, <<"g1", "g3">>, <<"g2", "g4">>, <<"g4", "g3">>}

\* The file was accepted or refused, or has reached the bound on its records.
Read == (outcome # "reading" \/ records = MaxRecords) /\ UNCHANGED readerVars

MCInit == ReaderInit /\ Init
MCNext ==
    \/ Init /\ (ReaderNext \/ Read) /\ UNCHANGED vars
    \/ ReaderInit /\ Next /\ UNCHANGED readerVars
MCSpec == MCInit /\ [][MCNext]_<<readerVars, vars>>
=============================================================================
