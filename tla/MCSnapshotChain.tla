--------------------------- MODULE MCSnapshotChain --------------------------
(***************************************************************************)
(* Files of up to four substreams over three snapshots of two datasets:    *)
(* two datasets have a snapshot x, and b@x has been sent a second time     *)
(* under the name a@2, which is also what another one's GUID looks like.   *)
(* Every from-link is possible, cycles and missing bases included.         *)
(***************************************************************************)
EXTENDS SnapshotChain

Names == {[to |-> 1, full |-> "a@x", short |-> "x"], [to |-> 2, full |-> "a@y", short |-> "y"],
          [to |-> 3, full |-> "b@x", short |-> "x"], [to |-> 3, full |-> "a@2", short |-> "2"]}
HeadersAll ==
    {[to |-> n.to, from |-> f, full |-> n.full, short |-> n.short] :
        n \in Names, f \in 0..4}
MCHeaders == {h \in HeadersAll : h.from # h.to}

Text(t, s, g) == [text |-> t, short |-> s, guid |-> g]
MCSelectors ==
    {Text("b@x", "b@x", 0), Text("@y", "y", 0), Text("x", "x", 0),
     Text("2", "2", 2)}
=============================================================================
