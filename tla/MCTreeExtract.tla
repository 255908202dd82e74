--------------------------- MODULE MCTreeExtract ----------------------------
(***************************************************************************)
(* TreeExtract on small graphs: an empty directory, a tree of three        *)
(* levels, one level too many, one entry too many, more bytes than the     *)
(* counter holds, a directory that contains itself, a repeated name, a     *)
(* name repeated by what is passed over, and an unusable name.             *)
(***************************************************************************)
EXTENDS TreeExtract

File(n) == [name |-> n, kind |-> "file", node |-> "none", bytes |-> 2]
Link(n) == [name |-> n, kind |-> "other", node |-> "none", bytes |-> 0]
Dir(n, d) == [name |-> n, kind |-> "dir", node |-> d, bytes |-> 0]

Graph(r, x, y, z) ==
    [d \in {"r", "x", "y", "z"} |-> CASE d = "r" -> r [] d = "x" -> x
                                       [] d = "y" -> y [] d = "z" -> z]

MCTrees ==
    { Graph(<<>>, <<>>, <<>>, <<>>),
      Graph(<<File("a"), Link("b"), Dir("c", "x")>>,
            <<Dir("a", "y"), File("b")>>, <<>>, <<>>),
      Graph(<<Dir("a", "x"), Dir("b", "y")>>, <<File("a")>>,
            <<File("a"), File("b")>>, <<>>),
      Graph(<<Dir("a", "x")>>, <<Dir("a", "y")>>, <<Dir("a", "z")>>, <<>>),
      Graph(<<File("a"), File("b"), Link("c"), Dir("d", "x")>>,
            <<Link("a"), File("b"), Link("c")>>, <<>>, <<>>),
      Graph(<<File("a"), File("b"), File("c"), File("d")>>, <<>>, <<>>, <<>>),
      Graph(<<Dir("a", "r")>>, <<>>, <<>>, <<>>),
      Graph(<<File("a"), Dir("a", "x")>>, <<>>, <<>>, <<>>),
      Graph(<<Link("a"), Link("a"), File("a")>>, <<>>, <<>>, <<>>),
      Graph(<<Dir("a", "x")>>, <<File("bad")>>, <<>>, <<>>) }
=============================================================================
