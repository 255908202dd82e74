-------------------------- MODULE TreeExtractProofs -------------------------
(***************************************************************************)
(* What extract_directory_tree promises about the destination, for every   *)
(* source graph, with any limits, whatever fails, is killed or interferes. *)
(***************************************************************************)
EXTENDS TreeExtract, FiniteSetTheorems, WellFoundedInduction, TLAPS

\* The directories that were met, each on the stack, under way or done.
Found(t, V) == {Top} \cup {Child(p[1], EntryAt(t, p)) : p \in Of(t, V, "dir")}

OnStack(d) == \E k \in 1..Len(stack) : stack[k] = d

\* The place in its directory of the last entry that was done.
At == Len(tree[here.dir]) - Len(listing)

Types ==
    /\ tree \in Trees
    /\ pc \in {"start", "walk", "publish", "rollback", "clean", "drop", "done", "dead"}
    /\ count \in [files : Nat, directories : Nat, skipped : Nat, bytes : Nat]
    /\ result = "ok" => pc \in {"drop", "done", "dead"}
    /\ Nothing \notin foreign
    /\ pc = "start" => visited = {} /\ listing = <<>> /\ count.files = 0 /\ count.skipped = 0

\* What the walk holds is part of the source: the stack, the entries that were
\* done, and the directory under way with the rest of its listing.
Sound ==
    /\ stack \in Seq(UNION {Level(tree, n) : n \in Nat})
    /\ visited \subseteq Pairs(tree)
    /\ listing # <<>> =>
          /\ here.depth \in 0..MaxDepth /\ here \in Level(tree, here.depth)
          /\ listing \in Seq(Range(tree[here.dir]))
          /\ Len(listing) <= Len(tree[here.dir])
          /\ \A j \in 1..Len(listing) : listing[j] = tree[here.dir][At + j]

\* No directory is done twice: what is on the stack, under way or done has a
\* path of its own, which has been created.
Apart ==
    /\ \A k \in 1..Len(stack) : [path |-> stack[k].path, kind |-> "dir"] \in staged
    /\ \A p \in visited : [path |-> p[1].path, kind |-> "dir"] \in staged
    /\ \A j, k \in 1..Len(stack) : stack[j].path = stack[k].path => j = k
    /\ \A p \in visited, k \in 1..Len(stack) : p[1].path # stack[k].path
    /\ listing # <<>> =>
          /\ [path |-> here.path, kind |-> "dir"] \in staged
          /\ \A k \in 1..Len(stack) : here.path # stack[k].path
          /\ \A p \in visited : p[1] = here => p[2] <= At

\* Nothing that was met is forgotten.
Covered ==
    /\ \A d \in Found(tree, visited) :
          \/ OnStack(d)
          \/ /\ d.depth <= MaxDepth
             /\ \/ listing # <<>> /\ d = here
                \/ \A i \in DOMAIN tree[d.dir] : <<d, i>> \in visited
    /\ listing # <<>> => \A i \in 1..At : <<here, i>> \in visited

\* What was done is what was created and counted.
Recorded(V) ==
    /\ IsFiniteSet(V)
    /\ staged = Nodes(tree, V)
    /\ \A p \in V : EntryAt(tree, p).name # BadName
    /\ count.files = Cardinality(Of(tree, V, "file"))
    /\ count.directories = Cardinality(Of(tree, V, "dir")) + 1
    /\ count.skipped = Cardinality(Of(tree, V, "other"))
    /\ Total = Cardinality(V) + 1 /\ Total <= MaxEntries

Walking == pc = "walk" => Sound /\ Apart /\ Covered /\ Recorded(visited)

\* The whole tree is staged, then in place.
Staged ==
    pc \in {"publish", "rollback"} =>
        Level(tree, MaxDepth + 1) = {} /\ Recorded(Pairs(tree))

Counted ==
    /\ count.files = Cardinality(Of(tree, Pairs(tree), "file"))
    /\ count.directories = Cardinality(Of(tree, Pairs(tree), "dir")) + 1
    /\ count.skipped = Cardinality(Of(tree, Pairs(tree), "other"))

Placed ==
    pc = "clean" \/ result = "ok" =>
        destination = WholeTree(tree) /\ Recoverable(tree) /\ Counted

\* What others left is at the destination until it is moved aside, and moved
\* aside until the whole tree has its place.
Others ==
    /\ pc \in {"start", "walk", "publish", "rollback"} =>
          {destination, previous} \subseteq foreign \cup {Nothing}
    /\ AllOrNothing

Kept ==
    ~intruder /\ ~rollback_fails =>
    \A c \in foreign :
        /\ pc \in {"start", "walk"} => destination = c
        /\ pc \in {"publish", "rollback"} => previous = c /\ destination = Nothing
        /\ pc \in {"drop", "done"} => destination = c \/ destination = WholeTree(tree)
        /\ pc = "dead" => c \in {destination, previous} \/ destination = WholeTree(tree)

Inv == Types /\ Walking /\ Staged /\ Placed /\ Others /\ Kept

-----------------------------------------------------------------------------
(* The source.                                                             *)

\* Every nonempty set of naturals has a least member.
LEMMA LeastNat ==
    ASSUME NEW T \in SUBSET Nat, T # {}
    PROVE  \E x \in T : \A y \in T : x <= y
<1>1. PICK x \in T : \A y \in T : ~(<<y, x>> \in OpToRel(<, Nat))
  BY NatLessThanWellFounded, WFMin
<1>2. \A y \in Nat : y < x => <<y, x>> \in OpToRel(<, Nat)
  BY DEF OpToRel
<1>3. \A y \in T : ~(y < x)
  BY <1>1, <1>2
<1> QED BY <1>3

LEMMA TreeFacts ==
    ASSUME NEW t \in Trees, NEW d \in DOMAIN t
    PROVE  /\ t[d] \in Seq(Range(t[d])) /\ Len(t[d]) \in Nat
           /\ DOMAIN t[d] = 1..Len(t[d])
           /\ \A i \in 1..Len(t[d]) :
                 /\ t[d][i] \in Range(t[d]) /\ t[d][i] \in Entries(t)
                 /\ t[d][i].kind \in {"dir", "file", "other"} /\ t[d][i].bytes \in Nat
                 /\ t[d][i].kind = "dir" => t[d][i].node \in DOMAIN t
<1>1. t[d] \in Seq(Range(t[d]))
  BY TreeExtractAssumption
<1>2. Len(t[d]) \in Nat /\ DOMAIN t[d] = 1..Len(t[d])
  BY <1>1
<1>3. ASSUME NEW i \in 1..Len(t[d])
      PROVE  t[d][i] \in Range(t[d]) /\ t[d][i] \in Entries(t)
  <2>1. t[d][i] \in Range(t[d])
    BY <1>2 DEF Range
  <2> QED BY <2>1 DEF Entries
<1> QED BY <1>1, <1>2, <1>3, TreeExtractAssumption

LEMMA AppendLast ==
    ASSUME NEW N, NEW n \in Nat, NEW u \in [1..(n + 1) -> N]
    PROVE  Append([i \in 1..n |-> u[i]], u[n + 1]) = u
<1> DEFINE q == [i \in 1..n |-> u[i]]
<1>1. q \in [1..n -> N] /\ u[n + 1] \in N
  OBVIOUS
<1>2. q \in Seq(N) /\ Len(q) = n /\ \A i \in 1..n : q[i] = u[i]
  BY <1>1
<1>3. \A i \in 1..(n + 1) : i \in 1..n \/ i = n + 1
  OBVIOUS
<1> HIDE DEF q
<1>4. /\ Append(q, u[n + 1]) \in Seq(N) /\ Len(Append(q, u[n + 1])) = n + 1
      /\ \A i \in 1..n : Append(q, u[n + 1])[i] = q[i]
      /\ Append(q, u[n + 1])[n + 1] = u[n + 1]
  BY <1>1, <1>2
<1>5. u \in Seq(N) /\ Len(u) = n + 1
  OBVIOUS
<1>6. Append(q, u[n + 1]) = u
  BY <1>2, <1>3, <1>4, <1>5
<1> QED BY <1>6 DEF q

LEMMA PrefixFacts ==
    ASSUME NEW S, NEW s \in Seq(S), NEW n \in Nat, n <= Len(s)
    PROVE  SubSeq(s, 1, n) \in Seq(S) /\ Len(SubSeq(s, 1, n)) = n
OBVIOUS

LEMMA RouteFacts ==
    ASSUME NEW t \in Trees, NEW n \in Nat, NEW s \in Routes(t, n)
    PROVE  /\ s \in [1..n -> Entries(t)] /\ End(s, n) \in DOMAIN t
           /\ \A i \in 1..n : s[i].kind = "dir" /\ s[i] \in Range(t[End(s, i - 1)])
<1>1. /\ s \in [1..n -> Entries(t)]
      /\ \A i \in 1..n : s[i].kind = "dir" /\ s[i] \in Range(t[End(s, i - 1)])
  BY DEF Routes
<1>2. CASE n = 0
  BY <1>1, <1>2, TreeExtractAssumption DEF End
<1>3. CASE n # 0
  <2>1. n \in 1..n
    BY <1>3
  <2>2. s[n] \in Entries(t) /\ s[n].kind = "dir"
    BY <1>1, <2>1
  <2>3. PICK d \in DOMAIN t : s[n] \in Range(t[d])
    BY <2>2 DEF Entries
  <2>4. s[n].node \in DOMAIN t
    BY <2>2, <2>3, TreeExtractAssumption
  <2> QED BY <1>1, <1>3, <2>4 DEF End
<1> QED BY <1>1, <1>2, <1>3

LEMMA LevelFacts ==
    ASSUME NEW t \in Trees, NEW n \in Nat, NEW d \in Level(t, n)
    PROVE  d.depth = n /\ d.dir \in DOMAIN t
BY RouteFacts DEF Level

LEMMA LevelZero ==
    ASSUME NEW t \in Trees
    PROVE  Level(t, 0) = {Top}
<1>1. \A s \in Routes(t, 0) :
        [dir |-> End(s, 0), path |-> [i \in 1..0 |-> s[i].name], depth |-> 0] = Top
  <2> TAKE s \in Routes(t, 0)
  <2>1. [i \in 1..0 |-> s[i].name] = <<>>
    OBVIOUS
  <2> QED BY <2>1 DEF Top, End
<1>2. [i \in 1..0 |-> Root] \in Routes(t, 0)
  BY DEF Routes
<1> QED BY <1>1, <1>2 DEF Level

\* A directory entry of a directory leads one level down.
LEMMA LevelChild ==
    ASSUME NEW t \in Trees, NEW n \in Nat, NEW d \in Level(t, n),
           NEW j \in DOMAIN t[d.dir], t[d.dir][j].kind = "dir"
    PROVE  Child(d, t[d.dir][j]) \in Level(t, n + 1)
<1> DEFINE e == t[d.dir][j]
<1>1. PICK s \in Routes(t, n) :
        d = [dir |-> End(s, n), path |-> [i \in 1..n |-> s[i].name], depth |-> n]
  BY DEF Level
<1>2. /\ s \in [1..n -> Entries(t)]
      /\ \A i \in 1..n : s[i].kind = "dir" /\ s[i] \in Range(t[End(s, i - 1)])
      /\ End(s, n) \in DOMAIN t
  BY RouteFacts
<1>3. e \in Range(t[End(s, n)]) /\ e \in Entries(t) /\ e.kind = "dir"
  BY <1>1, <1>2 DEF Range, Entries
<1> DEFINE r == [i \in 1..(n + 1) |-> IF i = n + 1 THEN e ELSE s[i]]
<1> HIDE DEF e
<1>4. /\ r[n + 1] = e /\ \A i \in 1..n : r[i] = s[i] /\ i \in 1..(n + 1)
      /\ \A i \in 1..(n + 1) : i \in 1..n \/ i = n + 1
      /\ n + 1 \in 1..(n + 1)
  OBVIOUS
<1>5. r \in [1..(n + 1) -> Entries(t)]
  BY <1>2, <1>3, <1>4
<1> HIDE DEF r
<1>6. \A i \in 0..n : End(r, i) = End(s, i)
  BY <1>4 DEF End
<1>7. r \in Routes(t, n + 1)
  <2>1. ASSUME NEW i \in 1..(n + 1)
        PROVE  r[i].kind = "dir" /\ r[i] \in Range(t[End(r, i - 1)])
    <3>1. i - 1 \in 0..n
      OBVIOUS
    <3>2. CASE i = n + 1
      <4>1. i - 1 = n
        BY <3>2
      <4> QED BY <1>3, <1>4, <1>6, <3>1, <3>2, <4>1
    <3>3. CASE i \in 1..n
      BY <1>2, <1>4, <1>6, <3>1, <3>3
    <3> QED BY <1>4, <3>2, <3>3
  <2> QED BY <1>5, <2>1 DEF Routes
<1>8. End(r, n + 1) = e.node
  BY <1>4 DEF End
<1>9. Append(d.path, e.name) = [i \in 1..(n + 1) |-> r[i].name]
  <2> DEFINE u == [i \in 1..(n + 1) |-> r[i].name]
             N == {x.name : x \in Entries(t)}
  <2>1. u \in [1..(n + 1) -> N] /\ u[n + 1] = e.name /\ \A i \in 1..n : u[i] = s[i].name
    BY <1>4, <1>5
  <2> HIDE DEF N
  <2>2. Append([i \in 1..n |-> u[i]], u[n + 1]) = u
    BY <2>1, AppendLast
  <2>3. [i \in 1..n |-> u[i]] = [i \in 1..n |-> s[i].name]
    BY <2>1
  <2> QED BY <1>1, <2>1, <2>2, <2>3
<1>10. Child(d, e) = [dir |-> End(r, n + 1), path |-> [i \in 1..(n + 1) |-> r[i].name],
                      depth |-> n + 1]
  <2>1. d.depth = n
    BY <1>1
  <2> QED BY <1>8, <1>9, <2>1 DEF Child
<1>11. Child(d, e) \in Level(t, n + 1)
  BY <1>7, <1>10 DEF Level
<1> QED BY <1>11 DEF e

\* Every directory below the root is a directory entry of one a level above.
LEMMA LevelParent ==
    ASSUME NEW t \in Trees, NEW n \in Nat, NEW d \in Level(t, n + 1)
    PROVE  \E b \in Level(t, n) : \E j \in DOMAIN t[b.dir] :
              t[b.dir][j].kind = "dir" /\ d = Child(b, t[b.dir][j])
<1>1. PICK r \in Routes(t, n + 1) :
        d = [dir |-> End(r, n + 1), path |-> [i \in 1..(n + 1) |-> r[i].name],
             depth |-> n + 1]
  BY DEF Level
<1>2. /\ r \in [1..(n + 1) -> Entries(t)]
      /\ \A i \in 1..(n + 1) : r[i].kind = "dir" /\ r[i] \in Range(t[End(r, i - 1)])
  BY RouteFacts
<1> DEFINE s == [i \in 1..n |-> r[i]]
           b == [dir |-> End(s, n), path |-> [i \in 1..n |-> s[i].name], depth |-> n]
<1>3. /\ \A i \in 1..n : r[i] = s[i] /\ i \in 1..(n + 1)
      /\ \A i \in 1..(n + 1) : i \in 1..n \/ i = n + 1
      /\ n + 1 \in 1..(n + 1) /\ (n + 1) - 1 = n
  OBVIOUS
<1>4. s \in [1..n -> Entries(t)]
  BY <1>2, <1>3
<1> HIDE DEF s
<1>5. \A i \in 0..n : End(r, i) = End(s, i)
  BY <1>3 DEF End
<1>6. s \in Routes(t, n)
  <2>1. ASSUME NEW i \in 1..n
        PROVE  s[i].kind = "dir" /\ s[i] \in Range(t[End(s, i - 1)])
    <3>1. i - 1 \in 0..n
      OBVIOUS
    <3> QED BY <1>2, <1>3, <1>5, <3>1
  <2> QED BY <1>4, <2>1 DEF Routes
<1>7. b \in Level(t, n)
  BY <1>6 DEF Level
<1>8. r[n + 1].kind = "dir" /\ r[n + 1] \in Range(t[b.dir])
  BY <1>2, <1>3, <1>5
<1>9. PICK j \in DOMAIN t[b.dir] : t[b.dir][j] = r[n + 1]
  BY <1>8 DEF Range
<1>10. Append(b.path, r[n + 1].name) = [i \in 1..(n + 1) |-> r[i].name]
  <2> DEFINE u == [i \in 1..(n + 1) |-> r[i].name]
             N == {x.name : x \in Entries(t)}
  <2>1. u \in [1..(n + 1) -> N] /\ u[n + 1] = r[n + 1].name
        /\ \A i \in 1..n : u[i] = s[i].name
    BY <1>2, <1>3
  <2> HIDE DEF N
  <2>2. Append([i \in 1..n |-> u[i]], u[n + 1]) = u
    BY <2>1, AppendLast
  <2>3. [i \in 1..n |-> u[i]] = [i \in 1..n |-> s[i].name]
    BY <2>1
  <2> QED BY <2>1, <2>2, <2>3
<1>11. d = Child(b, r[n + 1])
  <2>1. End(r, n + 1) = r[n + 1].node
    BY DEF End
  <2>2. b.depth = n
    OBVIOUS
  <2> HIDE DEF b
  <2> QED BY <1>1, <1>10, <2>1, <2>2 DEF Child
<1> QED BY <1>7, <1>8, <1>9, <1>11

LEMMA PairFacts ==
    ASSUME NEW t \in Trees, NEW p \in Pairs(t)
    PROVE  /\ p = <<p[1], p[2]>> /\ p[1].depth \in 0..MaxDepth
           /\ p[1] \in Level(t, p[1].depth) /\ p[1].dir \in DOMAIN t
           /\ p[2] \in 1..Len(t[p[1].dir])
<1>1. PICK n \in 0..MaxDepth : \E d \in Level(t, n) : \E i \in DOMAIN t[d.dir] : p = <<d, i>>
  BY DEF Pairs
<1>2. PICK d \in Level(t, n) : \E i \in DOMAIN t[d.dir] : p = <<d, i>>
  BY <1>1
<1>3. n \in Nat
  BY TreeExtractAssumption
<1>4. d.depth = n /\ d.dir \in DOMAIN t
  BY <1>3, LevelFacts
<1>5. DOMAIN t[d.dir] = 1..Len(t[d.dir])
  BY <1>4, TreeFacts
<1> QED BY <1>2, <1>4, <1>5

LEMMA PairIs ==
    ASSUME NEW t \in Trees, NEW n \in 0..MaxDepth, NEW d \in Level(t, n),
           NEW i \in DOMAIN t[d.dir]
    PROVE  <<d, i>> \in Pairs(t)
BY DEF Pairs

\* One more entry.
LEMMA OfAdds ==
    ASSUME NEW t, NEW V, NEW p, NEW kind, IsFiniteSet(V), p \notin V
    PROVE  /\ Cardinality(Of(t, V, kind)) \in Nat
           /\ Cardinality(Of(t, V \cup {p}, kind)) =
                 IF EntryAt(t, p).kind = kind THEN Cardinality(Of(t, V, kind)) + 1
                 ELSE Cardinality(Of(t, V, kind))
<1>1. Of(t, V, kind) \subseteq V
  BY DEF Of
<1>2. IsFiniteSet(Of(t, V, kind)) /\ Cardinality(Of(t, V, kind)) \in Nat
  BY <1>1, FS_Subset, FS_CardinalityType
<1>3. p \notin Of(t, V, kind)
  BY <1>1
<1>4. CASE EntryAt(t, p).kind = kind
  <2>1. Of(t, V \cup {p}, kind) = Of(t, V, kind) \cup {p}
    BY <1>4 DEF Of
  <2> QED BY <1>2, <1>3, <1>4, <2>1, FS_AddElement
<1>5. CASE EntryAt(t, p).kind # kind
  <2>1. Of(t, V \cup {p}, kind) = Of(t, V, kind)
    BY <1>5 DEF Of
  <2> QED BY <1>2, <1>5, <2>1
<1> QED BY <1>4, <1>5

LEMMA NodesAdd ==
    ASSUME NEW t, NEW V, NEW p
    PROVE  Nodes(t, V \cup {p}) =
              IF EntryAt(t, p).kind = "other" THEN Nodes(t, V)
              ELSE Nodes(t, V) \cup {Node(t, p)}
<1>1. CASE EntryAt(t, p).kind = "other"
  <2>1. {q \in V \cup {p} : EntryAt(t, q).kind # "other"} =
        {q \in V : EntryAt(t, q).kind # "other"}
    BY <1>1
  <2> QED BY <1>1, <2>1 DEF Nodes
<1>2. CASE EntryAt(t, p).kind # "other"
  <2>1. {q \in V \cup {p} : EntryAt(t, q).kind # "other"} =
        {q \in V : EntryAt(t, q).kind # "other"} \cup {p}
    BY <1>2
  <2>2. {Node(t, q) : q \in {r \in V : EntryAt(t, r).kind # "other"} \cup {p}} =
        {Node(t, q) : q \in {r \in V : EntryAt(t, r).kind # "other"}} \cup {Node(t, p)}
    OBVIOUS
  <2> QED BY <1>2, <2>1, <2>2 DEF Nodes
<1> QED BY <1>1, <1>2

LEMMA FoundAdds ==
    ASSUME NEW t, NEW V, NEW p
    PROVE  \A d \in Found(t, V \cup {p}) :
              \/ d \in Found(t, V)
              \/ EntryAt(t, p).kind = "dir" /\ d = Child(p[1], EntryAt(t, p))
BY DEF Found, Of

\* When nothing is left to do, every entry of the tree has been done, and
\* the tree ends within the limit.
LEMMA WalkedAll ==
    ASSUME Inv, pc = "walk", listing = <<>>, stack = <<>>
    PROVE  visited = Pairs(tree) /\ Level(tree, MaxDepth + 1) = {}
<1>1. tree \in Trees /\ Sound /\ Covered /\ MaxDepth \in Nat
  BY TreeExtractAssumption DEF Inv, Types, Walking
<1>2. \A d : ~OnStack(d)
  BY DEF OnStack
<1>3. \A d \in Found(tree, visited) :
         d.depth <= MaxDepth /\ \A i \in DOMAIN tree[d.dir] : <<d, i>> \in visited
  BY <1>1, <1>2 DEF Covered
<1>4. \A n \in Nat : Level(tree, n) \subseteq Found(tree, visited)
  <2> DEFINE Bad == {n \in Nat : ~(Level(tree, n) \subseteq Found(tree, visited))}
  <2>1. SUFFICES ASSUME Bad # {} PROVE FALSE
    OBVIOUS
  <2>2. PICK n \in Bad : \A m \in Bad : n <= m
    BY <2>1, LeastNat
  <2>3. n \in Nat /\ n # 0
    BY <1>1, <2>2, LevelZero DEF Found
  <2>4. n - 1 \in Nat /\ n = (n - 1) + 1 /\ n - 1 \notin Bad
    BY <2>2, <2>3
  <2>5. Level(tree, n - 1) \subseteq Found(tree, visited)
    BY <2>4
  <2>6. PICK d \in Level(tree, n) : d \notin Found(tree, visited)
    BY <2>2
  <2> HIDE DEF Bad
  <2>7. d \in Level(tree, (n - 1) + 1)
    BY <2>4, <2>6
  <2>8. PICK b \in Level(tree, n - 1) : \E j \in DOMAIN tree[b.dir] :
           tree[b.dir][j].kind = "dir" /\ d = Child(b, tree[b.dir][j])
    BY <1>1, <2>4, <2>7, LevelParent
  <2>9. PICK j \in DOMAIN tree[b.dir] :
           tree[b.dir][j].kind = "dir" /\ d = Child(b, tree[b.dir][j])
    BY <2>8
  <2>10. <<b, j>> \in visited
    BY <1>3, <2>5
  <2>11. <<b, j>>[1] = b /\ EntryAt(tree, <<b, j>>) = tree[b.dir][j]
    BY DEF EntryAt
  <2>12. <<b, j>> \in Of(tree, visited, "dir")
    BY <2>9, <2>10, <2>11 DEF Of
  <2>13. d \in Found(tree, visited)
    BY <2>9, <2>11, <2>12 DEF Found
  <2> QED BY <2>6, <2>13
<1>5. Level(tree, MaxDepth + 1) = {}
  <2>1. SUFFICES ASSUME NEW d \in Level(tree, MaxDepth + 1) PROVE FALSE
    OBVIOUS
  <2>2. MaxDepth + 1 \in Nat
    BY <1>1
  <2>3. d.depth = MaxDepth + 1 /\ d \in Found(tree, visited)
    BY <1>1, <1>4, <2>2, LevelFacts
  <2> QED BY <1>1, <1>3, <2>3
<1>6. Pairs(tree) \subseteq visited
  <2> SUFFICES ASSUME NEW p \in Pairs(tree) PROVE p \in visited
    OBVIOUS
  <2>1. /\ p = <<p[1], p[2]>> /\ p[1] \in Level(tree, p[1].depth) /\ p[1].depth \in Nat
        /\ p[2] \in DOMAIN tree[p[1].dir]
    BY <1>1, PairFacts, TreeFacts
  <2> QED BY <1>3, <1>4, <2>1
<1> QED BY <1>1, <1>5, <1>6 DEF Sound

-----------------------------------------------------------------------------
(* The walk.                                                               *)

LEMMA StringFacts ==
    /\ Nothing # Left("old") /\ Nothing # Left("other")
    /\ \A t : Nothing # WholeTree(t)
    /\ None # "ok" /\ "err" # "ok"
BY TreeExtractAssumption DEF Nothing, Left, WholeTree, Tree

LEMMA InitInv == Init => Inv
<1> SUFFICES ASSUME Init PROVE Inv
  OBVIOUS
<1>1. /\ pc = "start" /\ result = None /\ tree \in Trees /\ visited = {} /\ listing = <<>>
      /\ destination \in {Nothing, Left("old")} /\ foreign = {destination} \ {Nothing}
      /\ previous = Nothing
  BY DEF Init
<1>2. count = [files |-> 0, directories |-> 0, skipped |-> 0, bytes |-> 0]
  BY DEF Init
<1>3. /\ count \in [files : Nat, directories : Nat, skipped : Nat, bytes : Nat]
      /\ count.files = 0 /\ count.skipped = 0
  BY <1>2
<1>4. Types
  BY <1>1, <1>3, StringFacts DEF Types
<1>5. Others /\ Kept
  BY <1>1 DEF Others, Kept, AllOrNothing
<1> QED BY <1>1, <1>4, <1>5, StringFacts DEF Inv, Walking, Staged, Placed

\* An error on the walk leaves the destination alone.
LEMMA FailKeeps ==
    ASSUME Inv, pc = "walk", Fail, UNCHANGED <<source, destination, previous, foreign>>,
           count' \in [files : Nat, directories : Nat, skipped : Nat, bytes : Nat]
    PROVE  Inv'
<1>1. pc' = "drop" /\ result' = "err" /\ UNCHANGED <<tree, intruder, rollback_fails>>
  BY DEF Fail, source
<1>2. Types'
  BY <1>1, StringFacts DEF Inv, Types
<1>3. Others' /\ Kept'
  BY <1>1 DEF Inv, Others, Kept, AllOrNothing
<1> QED BY <1>1, <1>2, <1>3, StringFacts DEF Inv, Walking, Staged, Placed

LEMMA WalkOn ==
    ASSUME Inv, pc = "walk", UNCHANGED <<source, pc, result, destination, previous, foreign>>,
           count' \in [files : Nat, directories : Nat, skipped : Nat, bytes : Nat],
           Sound', Apart', Covered', Recorded(visited)'
    PROVE  Inv'
<1>1. UNCHANGED <<tree, intruder, rollback_fails>> /\ pc' = "walk"
  BY DEF source
<1>2. Types'
  BY <1>1 DEF Inv, Types
<1>3. Others' /\ Kept'
  BY <1>1 DEF Inv, Others, Kept, AllOrNothing
<1>4. Placed'
  BY <1>1, <1>2 DEF Placed, Types
<1> QED BY <1>1, <1>2, <1>3, <1>4 DEF Inv, Walking, Staged

LEMMA StartKeeps == ASSUME Inv, Start PROVE Inv'
<1>1. /\ pc = "start" /\ tree \in Trees /\ UNCHANGED <<tree, intruder, rollback_fails, foreign>>
      /\ Types /\ Others /\ Kept
      /\ count \in [files : Nat, directories : Nat, skipped : Nat, bytes : Nat]
  BY DEF Start, source, Inv, Types
<1>2. CASE destination # Nothing /\ ~force
  <2>1. /\ pc' = "done" /\ result' = "err"
        /\ UNCHANGED <<count, visited, listing, destination, previous>>
    BY <1>2 DEF Start, walk, disk
  <2>2. Types'
    BY <1>1, <2>1, StringFacts DEF Types
  <2>3. Others' /\ Kept'
    BY <1>1, <2>1 DEF Others, Kept, AllOrNothing
  <2> QED BY <2>1, <2>2, <2>3, StringFacts DEF Inv, Walking, Staged, Placed
<1>3. CASE ~(destination # Nothing /\ ~force)
  <2>1. /\ staged' = {[path |-> <<>>, kind |-> "dir"]}
        /\ count' = [count EXCEPT !.directories = 1]
        /\ stack' = <<Top>> /\ pc' = "walk"
        /\ UNCHANGED <<destination, previous, here, listing, visited, result>>
    BY <1>3 DEF Start
  <2>2. visited' = {} /\ listing' = <<>>
    BY <1>1, <2>1 DEF Types
  <2>3. /\ count' \in [files : Nat, directories : Nat, skipped : Nat, bytes : Nat]
        /\ count'.directories = 1 /\ count'.files = 0 /\ count'.skipped = 0
    BY <1>1, <2>1 DEF Types
  <2>4. Len(stack') = 1 /\ stack'[1] = Top
    BY <2>1
  <2>5. Sound'
    <3>1. Top \in Level(tree, 0)
      BY <1>1, LevelZero
    <3>2. Top \in UNION {Level(tree, n) : n \in Nat}
      BY <3>1
    <3>3. stack' \in Seq(UNION {Level(tree, n) : n \in Nat})
      BY <2>1, <3>2
    <3> QED BY <1>1, <2>2, <3>3 DEF Sound
  <2>6. Apart'
    <3>1. Top.path = <<>>
      BY DEF Top
    <3> QED BY <2>1, <2>2, <2>4, <3>1 DEF Apart
  <2>7. Covered'
    <3>1. Found(tree, {}) = {Top}
      BY DEF Found, Of
    <3>2. OnStack(Top)'
      <4>1. 1 \in 1..Len(stack')
        BY <2>4
      <4> QED BY <2>4, <4>1 DEF OnStack
    <3> QED BY <1>1, <2>2, <3>1, <3>2 DEF Covered
  <2>8. Recorded(visited)'
    <3>1. Of(tree, {}, "file") = {} /\ Of(tree, {}, "dir") = {} /\ Of(tree, {}, "other") = {}
      BY DEF Of
    <3>2. Nodes(tree, {}) = {[path |-> <<>>, kind |-> "dir"]}
      BY DEF Nodes
    <3>3. Total' = 1
      BY <2>3 DEF Total
    <3>4. Cardinality({}) = 0 /\ IsFiniteSet({}) /\ 1 <= MaxEntries /\ 0 + 1 = 1
      BY FS_EmptySet, TreeExtractAssumption
    <3>5. tree' = tree /\ visited' = {} /\ staged' = {[path |-> <<>>, kind |-> "dir"]}
      BY <1>1, <2>1, <2>2
    <3> QED BY <2>3, <3>1, <3>2, <3>3, <3>4, <3>5 DEF Recorded
  <2>9. Types'
    BY <1>1, <2>1, <2>3 DEF Types
  <2>10. Others' /\ Kept'
    BY <1>1, <2>1 DEF Others, Kept, AllOrNothing
  <2>11. Placed'
    BY <2>1, <2>9 DEF Placed, Types
  <2> QED BY <2>1, <2>5, <2>6, <2>7, <2>8, <2>9, <2>10, <2>11 DEF Inv, Walking, Staged
<1> QED BY <1>2, <1>3

LEMMA PopDirectoryKeeps == ASSUME Inv, PopDirectory PROVE Inv'
<1>1. /\ pc = "walk" /\ listing = <<>> /\ stack # <<>>
      /\ UNCHANGED <<source, destination, previous, foreign>>
      /\ UNCHANGED <<tree, count, visited, staged>>
  BY DEF PopDirectory, source, disk
<1>2. /\ Types /\ Sound /\ Apart /\ Covered /\ Recorded(visited) /\ tree \in Trees
      /\ count' \in [files : Nat, directories : Nat, skipped : Nat, bytes : Nat]
      /\ MaxDepth \in Nat
  BY <1>1, TreeExtractAssumption DEF Inv, Walking, Types
<1> DEFINE m == Len(stack)
           d == stack[m]
           I == UNION {Level(tree, n) : n \in Nat}
<1>3. /\ m \in Nat \ {0} /\ m \in 1..m /\ d \in I
      /\ stack' \in Seq(I) /\ Len(stack') = m - 1
      /\ \A k \in 1..(m - 1) : stack'[k] = stack[k] /\ k \in 1..m /\ k # m
  <2>1. stack \in Seq(I)
    BY <1>2 DEF Sound
  <2>2. stack' = SubSeq(stack, 1, Len(stack) - 1)
    BY DEF PopDirectory, Front
  <2> HIDE DEF I
  <2>3. m \in Nat \ {0} /\ m \in 1..m /\ d \in I
    BY <1>1, <2>1
  <2>4. stack' \in Seq(I) /\ Len(stack') = m - 1
    <3>1. Len(stack) - 1 \in Nat /\ Len(stack) - 1 <= Len(stack)
      BY <2>3
    <3> QED BY <2>1, <2>2, <3>1, PrefixFacts
  <2>5. \A k \in 1..(m - 1) : stack'[k] = stack[k] /\ k \in 1..m /\ k # m
    BY <2>1, <2>2, <2>3
  <2> QED BY <2>3, <2>4, <2>5
<1>4. here' = d
  BY DEF PopDirectory, Last
<1>5. PICK n \in Nat : d \in Level(tree, n)
  BY <1>3
<1>6. d.depth \in Nat /\ d \in Level(tree, d.depth) /\ d.dir \in DOMAIN tree
  BY <1>2, <1>5, LevelFacts
<1>7. /\ tree[d.dir] \in Seq(Range(tree[d.dir])) /\ Len(tree[d.dir]) \in Nat
      /\ DOMAIN tree[d.dir] = 1..Len(tree[d.dir])
  BY <1>2, <1>6, TreeFacts
<1> HIDE DEF d, I
<1>8. CASE d.depth > MaxDepth
  <2>1. Fail
    BY <1>8 DEF PopDirectory, Last, d
  <2> QED BY <1>1, <1>2, <2>1, FailKeeps
<1>9. CASE ~(d.depth > MaxDepth)
  <2>1. listing' = tree[d.dir] /\ UNCHANGED <<pc, result>>
    BY <1>9 DEF PopDirectory, Last, d
  <2>2. At' = 0 /\ d.depth \in 0..MaxDepth
    BY <1>1, <1>2, <1>4, <1>6, <1>7, <1>9, <2>1 DEF At
  <2>3. Sound'
    <3>1. stack' \in Seq(UNION {Level(tree', n2) : n2 \in Nat})
      BY <1>1, <1>3 DEF I
    <3>2. /\ here'.depth \in 0..MaxDepth /\ here' \in Level(tree', here'.depth)
          /\ listing' \in Seq(Range(tree'[here'.dir]))
          /\ Len(listing') <= Len(tree'[here'.dir])
      BY <1>1, <1>4, <1>6, <1>7, <2>1, <2>2
    <3>3. \A j \in 1..Len(listing') : listing'[j] = tree'[here'.dir][At' + j]
      BY <1>1, <1>4, <1>7, <2>1, <2>2
    <3> QED BY <1>1, <1>2, <3>1, <3>2, <3>3 DEF Sound
  <2>4. Apart'
    <3>1. m \in 1..m /\ d = stack[m]
      BY <1>3 DEF d
    <3>2. \A p \in visited : p[1] # d
      BY <1>2, <3>1 DEF Apart
    <3>3. \A k \in 1..Len(stack') : stack'[k] = stack[k] /\ k \in 1..m /\ k # m
      BY <1>3
    <3> HIDE DEF m
    <3>4. /\ \A k \in 1..Len(stack') : [path |-> stack'[k].path, kind |-> "dir"] \in staged
          /\ \A p \in visited : [path |-> p[1].path, kind |-> "dir"] \in staged
          /\ \A j, k \in 1..Len(stack') : stack'[j].path = stack'[k].path => j = k
          /\ \A p \in visited, k \in 1..Len(stack') : p[1].path # stack'[k].path
      <4>1. /\ \A k \in 1..m : [path |-> stack[k].path, kind |-> "dir"] \in staged
            /\ \A p \in visited : [path |-> p[1].path, kind |-> "dir"] \in staged
        BY <1>2 DEF Apart, m
      <4>2. /\ \A j, k \in 1..m : stack[j].path = stack[k].path => j = k
            /\ \A p \in visited, k \in 1..m : p[1].path # stack[k].path
        BY <1>2 DEF Apart, m
      <4>3. \A k \in 1..Len(stack') : [path |-> stack'[k].path, kind |-> "dir"] \in staged
        BY <3>3, <4>1
      <4>4. \A j, k \in 1..Len(stack') : stack'[j].path = stack'[k].path => j = k
        BY <3>3, <4>2
      <4>5. \A p \in visited, k \in 1..Len(stack') : p[1].path # stack'[k].path
        BY <3>3, <4>2
      <4> QED BY <4>1, <4>3, <4>4, <4>5
    <3>5. /\ [path |-> d.path, kind |-> "dir"] \in staged
          /\ \A k \in 1..Len(stack') : d.path # stack'[k].path
      BY <1>2, <3>1, <3>3 DEF Apart, m
    <3> QED BY <1>1, <1>4, <3>2, <3>4, <3>5 DEF Apart
  <2>5. Covered'
    <3>1. ASSUME NEW b \in Found(tree, visited)
          PROVE  \/ OnStack(b)'
                 \/ /\ b.depth <= MaxDepth
                    /\ \/ listing' # <<>> /\ b = here'
                       \/ \A i \in DOMAIN tree[b.dir] : <<b, i>> \in visited
      <4>1. CASE OnStack(b)
        <5>1. PICK k \in 1..m : stack[k] = b
          BY <4>1 DEF OnStack
        <5>2. CASE k = m
          <6>1. b = d /\ b.depth <= MaxDepth
            BY <2>2, <5>1, <5>2, <1>2 DEF d
          <6>2. listing' = <<>> => DOMAIN tree[b.dir] = {}
            BY <1>7, <2>1, <6>1
          <6> QED BY <1>4, <6>1, <6>2
        <5>3. CASE k # m
          <6>1. k \in 1..(m - 1) /\ stack'[k] = b
            BY <1>3, <5>1, <5>3
          <6> QED BY <1>3, <6>1 DEF OnStack
        <5> QED BY <5>2, <5>3
      <4>2. CASE ~OnStack(b)
        BY <1>1, <1>2, <4>2 DEF Covered
      <4> QED BY <4>1, <4>2
    <3>2. \A i \in 1..At' : <<here', i>> \in visited'
      BY <2>2
    <3> QED BY <1>1, <3>1, <3>2 DEF Covered
  <2>6. Recorded(visited)'
    BY <1>1, <1>2 DEF Recorded, Total
  <2> QED BY <1>1, <1>2, <2>1, <2>3, <2>4, <2>5, <2>6, WalkOn
<1> QED BY <1>8, <1>9

\* The entry under way.
Now == <<here, At + 1>>

\* NodesAdd at the entry being done.
LEMMA NodesAddNow ==
    Nodes(tree, visited \cup {Now}) =
        IF EntryAt(tree, Now).kind = "other" THEN Nodes(tree, visited)
        ELSE Nodes(tree, visited) \cup {Node(tree, Now)}
BY NodesAdd

\* The entry under way is one of the source and has not been done.
LEMMA EntryFacts ==
    ASSUME Inv, Entry
    PROVE  /\ pc = "walk" /\ listing # <<>> /\ tree \in Trees
           /\ Sound /\ Apart /\ Covered /\ Recorded(visited)
           /\ UNCHANGED <<source, tree, here, destination, previous, foreign>>
           /\ here.dir \in DOMAIN tree /\ At \in Nat /\ At + 1 \in 1..Len(tree[here.dir])
           /\ Len(tree[here.dir]) \in Nat /\ DOMAIN tree[here.dir] = 1..Len(tree[here.dir])
           /\ here.depth \in 0..MaxDepth /\ here \in Level(tree, here.depth)
           /\ Head(listing) = tree[here.dir][At + 1] /\ EntryAt(tree, Now) = Head(listing)
           /\ Head(listing).kind \in {"dir", "file", "other"} /\ Head(listing).bytes \in Nat
           /\ Now \in Pairs(tree) /\ Now \notin visited /\ visited' = visited \cup {Now}
           /\ At' = At + 1
           /\ listing' # <<>> =>
                 /\ listing' \in Seq(Range(tree[here.dir]))
                 /\ Len(listing') <= Len(tree[here.dir])
                 /\ \A j \in 1..Len(listing') : listing'[j] = tree[here.dir][At + 1 + j]
           /\ listing' = <<>> => At + 1 = Len(tree[here.dir])
<1>1. /\ pc = "walk" /\ listing # <<>> /\ listing' = Tail(listing)
      /\ UNCHANGED <<source, tree, here, destination, previous, foreign>>
      /\ visited' = visited \cup {<<here, Len(tree[here.dir]) - Len(listing) + 1>>}
  BY DEF Entry, source
<1>2. tree \in Trees /\ Sound /\ Apart /\ Covered /\ Recorded(visited) /\ MaxDepth \in Nat
  BY <1>1, TreeExtractAssumption DEF Inv, Types, Walking
<1> DEFINE T == tree[here.dir]
<1>3. /\ here.depth \in 0..MaxDepth /\ here \in Level(tree, here.depth)
      /\ listing \in Seq(Range(T)) /\ Len(listing) <= Len(T)
      /\ \A j \in 1..Len(listing) : listing[j] = T[At + j]
  BY <1>1, <1>2 DEF Sound
<1>4. here.dir \in DOMAIN tree
  BY <1>2, <1>3, LevelFacts
<1>5. Len(T) \in Nat /\ DOMAIN T = 1..Len(T)
  BY <1>2, <1>4, TreeFacts
<1>6. Len(listing) \in Nat \ {0} /\ Head(listing) = listing[1]
      /\ Tail(listing) \in Seq(Range(T)) /\ Len(Tail(listing)) = Len(listing) - 1
      /\ \A j \in 1..(Len(listing) - 1) : Tail(listing)[j] = listing[j + 1]
  <2> HIDE DEF T
  <2> QED BY <1>1, <1>3
<1>7. At = Len(T) - Len(listing)
  BY DEF At
<1> HIDE DEF T
<1>8. At \in Nat /\ At + 1 \in 1..Len(T) /\ 1 \in 1..Len(listing)
  BY <1>3, <1>5, <1>6, <1>7
<1>9. Head(listing) = T[At + 1]
  BY <1>3, <1>6, <1>8
<1>10. Now[1] = here /\ Now[2] = At + 1 /\ EntryAt(tree, Now) = Head(listing)
  BY <1>9 DEF Now, EntryAt, T
<1>11. Head(listing).kind \in {"dir", "file", "other"} /\ Head(listing).bytes \in Nat
  BY <1>2, <1>4, <1>8, <1>9, TreeFacts DEF T
<1>12. Now \in Pairs(tree)
  BY <1>2, <1>3, <1>5, <1>8, PairIs DEF Now, T
<1>13. Now \notin visited
  <2>1. Now \in visited => At + 1 <= At
    BY <1>1, <1>2, <1>10 DEF Apart
  <2> QED BY <1>8, <2>1
<1>14. At' = At + 1
  <2>1. At' = Len(T) - Len(listing')
    BY <1>1 DEF At, T
  <2> QED BY <1>1, <1>5, <1>6, <1>7, <2>1
<1>15. visited' = visited \cup {Now}
  BY <1>1, <1>7 DEF Now, T
<1>16. /\ listing' \in Seq(Range(T)) /\ Len(listing') <= Len(T)
       /\ \A j \in 1..Len(listing') : listing'[j] = T[At + 1 + j]
  <2>1. Len(listing') <= Len(T)
    BY <1>1, <1>3, <1>5, <1>6
  <2>2. ASSUME NEW j \in 1..Len(listing')
        PROVE  listing'[j] = T[At + 1 + j]
    <3>1. j \in 1..(Len(listing) - 1) /\ j + 1 \in 1..Len(listing) /\ At + (j + 1) = At + 1 + j
      BY <1>1, <1>6, <1>8
    <3>2. listing'[j] = listing[j + 1] /\ listing[j + 1] = T[At + (j + 1)]
      BY <1>1, <1>3, <1>6, <3>1
    <3> QED BY <3>1, <3>2
  <2> QED BY <1>1, <1>6, <2>1, <2>2
<1>17. listing' = <<>> => At + 1 = Len(T)
  <2>1. listing' = <<>> => Len(listing') = 0
    OBVIOUS
  <2>2. Len(listing') = 0 => At + 1 = Len(T)
    BY <1>1, <1>5, <1>6, <1>7
  <2> QED BY <2>1, <2>2
<1> QED BY <1>1, <1>2, <1>3, <1>4, <1>5, <1>8, <1>9, <1>10, <1>11, <1>12, <1>13, <1>14,
           <1>15, <1>16, <1>17 DEF T

LEMMA TotalAdds ==
    ASSUME count.files \in Nat, count.directories \in Nat, count.skipped \in Nat,
           count'.files \in Nat, count'.directories \in Nat, count'.skipped \in Nat,
           \/ /\ count'.files = count.files /\ count'.skipped = count.skipped
              /\ count'.directories = count.directories + 1
           \/ /\ count'.files = count.files + 1 /\ count'.skipped = count.skipped
              /\ count'.directories = count.directories
           \/ /\ count'.files = count.files /\ count'.skipped = count.skipped + 1
              /\ count'.directories = count.directories
    PROVE  Total' = Total + 1
BY DEF Total

\* An entry that is done: created and counted, and a directory put on the stack.
LEMMA EntryOn ==
    ASSUME Inv, Entry, UNCHANGED <<pc, result>>,
           Total < MaxEntries, Head(listing).name # BadName,
           Head(listing).kind # "other" => Creatable(Head(listing)),
           staged' = IF Head(listing).kind = "other" THEN staged
                     ELSE staged \cup {Node(tree, Now)},
           stack' = IF Head(listing).kind = "dir"
                    THEN Append(stack, Child(here, Head(listing))) ELSE stack,
           count' \in [files : Nat, directories : Nat, skipped : Nat, bytes : Nat],
           count'.files = IF Head(listing).kind = "file" THEN count.files + 1 ELSE count.files,
           count'.directories = IF Head(listing).kind = "dir" THEN count.directories + 1
                                ELSE count.directories,
           count'.skipped = IF Head(listing).kind = "other" THEN count.skipped + 1
                            ELSE count.skipped
    PROVE  Inv'
<1> DEFINE e == Head(listing)
           T == tree[here.dir]
           new == Child(here, e)
           I == UNION {Level(tree, n) : n \in Nat}
           path == Append(here.path, e.name)
<1>0. /\ pc = "walk" /\ listing # <<>> /\ tree \in Trees /\ tree' = tree /\ here' = here
      /\ Sound /\ Apart /\ Covered /\ Recorded(visited)
      /\ At \in Nat /\ At' = At + 1 /\ At + 1 \in 1..Len(T) /\ DOMAIN T = 1..Len(T)
      /\ Len(T) \in Nat
      /\ here.depth \in 0..MaxDepth /\ here \in Level(tree, here.depth)
      /\ e = T[At + 1] /\ EntryAt(tree, Now) = e /\ Now[1] = here /\ Now[2] = At + 1
      /\ Now \in Pairs(tree) /\ Now \notin visited /\ visited' = visited \cup {Now}
      /\ e.kind \in {"dir", "file", "other"}
  BY EntryFacts DEF Now
<1>1. UNCHANGED <<source, pc, result, destination, previous, foreign>>
  BY EntryFacts
<1>2. /\ count.files \in Nat /\ count.directories \in Nat /\ count.skipped \in Nat
      /\ MaxEntries \in Nat /\ MaxDepth \in Nat
  BY TreeExtractAssumption DEF Inv, Types
<1>3. stack \in Seq(I)
  BY <1>0 DEF Sound
<1>4. e.kind = "dir" => new \in I
  <2>1. ASSUME e.kind = "dir" PROVE new \in I
    <3>1. here.depth \in Nat /\ here.depth + 1 \in Nat
      BY <1>0, <1>2
    <3>2. new \in Level(tree, here.depth + 1)
      BY <1>0, <2>1, <3>1, LevelChild
    <3> QED BY <3>1, <3>2
  <2> QED BY <2>1
<1>5. Node(tree, Now) = [path |-> path, kind |-> e.kind]
  BY <1>0 DEF Node
<1>6. e.kind # "other" => \A s \in staged : s.path # path
  BY DEF Creatable
<1>7. new.path = path
  BY DEF Child
<1> HIDE DEF I, T, new, path, e
<1>8. /\ stack' \in Seq(I)
      /\ e.kind # "dir" => stack' = stack
      /\ e.kind = "dir" =>
            /\ Len(stack') = Len(stack) + 1 /\ stack'[Len(stack) + 1] = new
            /\ \A k \in 1..Len(stack) : stack'[k] = stack[k]
            /\ Len(stack) \in Nat
  <2>1. CASE e.kind = "dir"
    <3>1. stack' = Append(stack, new)
      BY <2>1 DEF e, new
    <3> QED BY <1>3, <1>4, <2>1, <3>1
  <2>2. CASE e.kind # "dir"
    BY <1>3, <2>2 DEF e
  <2> QED BY <2>1, <2>2
<1>9. \A k \in 1..Len(stack') :
         \/ k \in 1..Len(stack) /\ stack'[k] = stack[k]
         \/ e.kind = "dir" /\ k = Len(stack) + 1 /\ stack'[k] = new
  <2>1. Len(stack) \in Nat
    BY <1>3
  <2> QED BY <1>8, <2>1
<1>10. staged \subseteq staged' /\ (e.kind = "dir" => [path |-> path, kind |-> "dir"] \in staged')
  BY <1>5 DEF e
<1>11. Sound'
  <2>1. stack' \in Seq(UNION {Level(tree', n) : n \in Nat})
    BY <1>0, <1>8 DEF I
  <2>2. visited' \subseteq Pairs(tree')
    BY <1>0 DEF Sound
  <2>3. listing' # <<>> =>
          /\ here'.depth \in 0..MaxDepth /\ here' \in Level(tree', here'.depth)
          /\ listing' \in Seq(Range(tree'[here'.dir]))
          /\ Len(listing') <= Len(tree'[here'.dir])
          /\ \A j \in 1..Len(listing') : listing'[j] = tree'[here'.dir][At' + j]
    BY EntryFacts
  <2> QED BY <2>1, <2>2, <2>3 DEF Sound
<1>12. Apart'
  <2>1. /\ \A k \in 1..Len(stack) : [path |-> stack[k].path, kind |-> "dir"] \in staged
        /\ \A q \in visited : [path |-> q[1].path, kind |-> "dir"] \in staged
        /\ \A j, k \in 1..Len(stack) : stack[j].path = stack[k].path => j = k
        /\ \A q \in visited, k \in 1..Len(stack) : q[1].path # stack[k].path
        /\ [path |-> here.path, kind |-> "dir"] \in staged
        /\ \A k \in 1..Len(stack) : here.path # stack[k].path
        /\ \A q \in visited : q[1] = here => q[2] <= At
    BY <1>0 DEF Apart
  <2>2. e.kind = "dir" =>
          /\ \A k \in 1..Len(stack) : stack[k].path # path
          /\ \A q \in visited : q[1].path # path
          /\ here.path # path
    <3>1. \A x : [path |-> x, kind |-> "dir"] \in staged /\ e.kind = "dir" => x # path
      BY <1>6
    <3> QED BY <2>1, <3>1
  <2>3. \A k \in 1..Len(stack') : [path |-> stack'[k].path, kind |-> "dir"] \in staged'
    BY <1>7, <1>9, <1>10, <2>1
  <2>4. \A q \in visited' : [path |-> q[1].path, kind |-> "dir"] \in staged'
    BY <1>0, <1>10, <2>1
  <2>5. \A j, k \in 1..Len(stack') : stack'[j].path = stack'[k].path => j = k
    BY <1>7, <1>9, <2>1, <2>2
  <2>6. \A q \in visited', k \in 1..Len(stack') : q[1].path # stack'[k].path
    BY <1>0, <1>7, <1>9, <2>1, <2>2
  <2>7. \A k \in 1..Len(stack') : here'.path # stack'[k].path
    BY <1>0, <1>7, <1>9, <2>1, <2>2
  <2>8. \A q \in visited' : q[1] = here' => q[2] <= At'
    <3>1. \A q \in visited : q[2] \in Nat
      <4>1. \A q \in visited : q \in Pairs(tree)
        BY <1>0 DEF Sound
      <4>2. \A q \in Pairs(tree) : q[2] \in 1..Len(tree[q[1].dir])
        BY <1>0, PairFacts
      <4> QED BY <4>1, <4>2
    <3> QED BY <1>0, <2>1, <3>1
  <2> QED BY <1>0, <1>10, <2>1, <2>3, <2>4, <2>5, <2>6, <2>7, <2>8 DEF Apart
<1>13. Covered'
  <2>1. \A d : OnStack(d) => OnStack(d)'
    <3> SUFFICES ASSUME NEW d, NEW k \in 1..Len(stack), stack[k] = d PROVE OnStack(d)'
      BY DEF OnStack
    <3>1. k \in 1..Len(stack') /\ stack'[k] = d
      BY <1>3, <1>8
    <3> QED BY <3>1 DEF OnStack
  <2>2. e.kind = "dir" => \E k \in 1..Len(stack') : stack'[k] = new
    <3>1. e.kind = "dir" => Len(stack) + 1 \in 1..Len(stack')
      BY <1>8
    <3> QED BY <1>8, <3>1
  <2>3. \A i \in 1..(At + 1) : <<here, i>> \in visited'
    <3>1. \A i \in 1..(At + 1) : i \in 1..At \/ i = At + 1
      BY <1>0
    <3>2. <<here, At + 1>> \in visited'
      BY <1>0 DEF Now
    <3> QED BY <1>0, <3>1, <3>2 DEF Covered
  <2>4. ASSUME NEW d \in Found(tree, visited')
        PROVE  \/ OnStack(d)'
               \/ /\ d.depth <= MaxDepth
                  /\ \/ listing' # <<>> /\ d = here
                     \/ \A i \in DOMAIN tree[d.dir] : <<d, i>> \in visited'
    <3>1. d \in Found(tree, visited) \/ (e.kind = "dir" /\ d = new)
      BY <1>0, <2>4, FoundAdds DEF new
    <3>2. CASE e.kind = "dir" /\ d = new
      BY <2>2, <3>2 DEF OnStack
    <3>3. CASE d \in Found(tree, visited)
      <4>1. CASE OnStack(d)
        BY <2>1, <4>1
      <4>2. CASE d.depth <= MaxDepth /\ d = here
        <5>1. listing' = <<>> => \A i \in DOMAIN T : <<here, i>> \in visited'
          <6>1. listing' = <<>> => At + 1 = Len(T)
            BY EntryFacts DEF T
          <6> QED BY <1>0, <2>3, <6>1
        <5> QED BY <4>2, <5>1 DEF T
      <4>3. CASE d.depth <= MaxDepth /\ \A i \in DOMAIN tree[d.dir] : <<d, i>> \in visited
        BY <1>0, <4>3
      <4> QED BY <1>0, <3>3, <4>1, <4>2, <4>3 DEF Covered
    <3> QED BY <3>1, <3>2, <3>3
  <2> QED BY <1>0, <2>3, <2>4 DEF Covered
<1>14. Recorded(visited)'
  <2>1. IsFiniteSet(visited) /\ staged = Nodes(tree, visited)
        /\ \A q \in visited : EntryAt(tree, q).name # BadName
    BY <1>0 DEF Recorded
  <2>2. IsFiniteSet(visited') /\ Cardinality(visited') = Cardinality(visited) + 1
        /\ Cardinality(visited) \in Nat
    BY <1>0, <2>1, FS_AddElement, FS_CardinalityType
  <2>3. staged' = Nodes(tree, visited')
    <3>1. staged' = IF e.kind = "other" THEN staged ELSE staged \cup {Node(tree, Now)}
      BY DEF e
    <3>2. Nodes(tree, visited') = IF e.kind = "other" THEN Nodes(tree, visited)
                                  ELSE Nodes(tree, visited) \cup {Node(tree, Now)}
      <4>1. visited' = visited \cup {Now} /\ EntryAt(tree, Now).kind = e.kind
        BY <1>0
      <4>2. Nodes(tree, visited \cup {Now}) =
               IF EntryAt(tree, Now).kind = "other" THEN Nodes(tree, visited)
               ELSE Nodes(tree, visited) \cup {Node(tree, Now)}
        BY NodesAddNow
      <4>3. Nodes(tree, visited') = Nodes(tree, visited \cup {Now})
        BY <4>1
      <4> QED BY <4>1, <4>2, <4>3
    <3> QED BY <2>1, <3>1, <3>2
  <2>4. \A q \in visited' : EntryAt(tree, q).name # BadName
    <3>1. EntryAt(tree, Now).name # BadName
      BY <1>0 DEF e
    <3> QED BY <1>0, <2>1, <3>1
  <2>5. \A kind : /\ Cardinality(Of(tree, visited, kind)) \in Nat
                  /\ Cardinality(Of(tree, visited', kind)) =
                        IF e.kind = kind THEN Cardinality(Of(tree, visited, kind)) + 1
                        ELSE Cardinality(Of(tree, visited, kind))
    BY <1>0, <2>1, OfAdds
  <2>6. /\ count'.files = Cardinality(Of(tree, visited', "file"))
        /\ count'.skipped = Cardinality(Of(tree, visited', "other"))
    BY <1>0, <2>5 DEF Recorded, e
  <2>7. count'.directories = Cardinality(Of(tree, visited', "dir")) + 1
    <3>1. count.directories = Cardinality(Of(tree, visited, "dir")) + 1
      BY <1>0 DEF Recorded
    <3>2. count'.directories = IF e.kind = "dir" THEN count.directories + 1
                               ELSE count.directories
      BY DEF e
    <3> QED BY <2>5, <3>1, <3>2
  <2>8. Total' = Total + 1
    <3>1. /\ count'.files = IF e.kind = "file" THEN count.files + 1 ELSE count.files
          /\ count'.directories = IF e.kind = "dir" THEN count.directories + 1
                                  ELSE count.directories
          /\ count'.skipped = IF e.kind = "other" THEN count.skipped + 1 ELSE count.skipped
          /\ e.kind \in {"dir", "file", "other"}
      BY <1>0 DEF e
    <3>2. \/ /\ count'.files = count.files /\ count'.skipped = count.skipped
             /\ count'.directories = count.directories + 1
          \/ /\ count'.files = count.files + 1 /\ count'.skipped = count.skipped
             /\ count'.directories = count.directories
          \/ /\ count'.files = count.files /\ count'.skipped = count.skipped + 1
             /\ count'.directories = count.directories
      BY <3>1
    <3>3. count'.files \in Nat /\ count'.directories \in Nat /\ count'.skipped \in Nat
      OBVIOUS
    <3> QED BY <1>2, <3>2, <3>3, TotalAdds
  <2>9. Total \in Nat /\ Total = Cardinality(visited) + 1
    <3>1. Total = Cardinality(visited) + 1
      BY <1>0 DEF Recorded
    <3> QED BY <2>2, <3>1
  <2>10. Total' = Cardinality(visited') + 1 /\ Total' <= MaxEntries
    BY <1>2, <2>2, <2>8, <2>9
  <2> QED BY <1>0, <2>2, <2>3, <2>4, <2>6, <2>7, <2>10 DEF Recorded
<1> QED BY <1>0, <1>1, <1>11, <1>12, <1>13, <1>14, WalkOn

LEMMA EntryKeeps == ASSUME Inv, Entry PROVE Inv'
<1> DEFINE e == Head(listing)
           R == [files : Nat, directories : Nat, skipped : Nat, bytes : Nat]
<1>1. /\ pc = "walk" /\ UNCHANGED <<source, destination, previous, foreign>>
      /\ e.bytes \in Nat /\ EntryAt(tree, Now) = e /\ Now[1] = here
  BY EntryFacts DEF Now
<1>2. count \in R
  BY DEF Inv, Types
<1>3. [path |-> Append(here.path, e.name), kind |-> e.kind] = Node(tree, Now)
  BY <1>1 DEF Node
<1> HIDE DEF e
<1>4. CASE Fail /\ UNCHANGED <<staged, stack, count>>
  BY <1>1, <1>2, <1>4, FailKeeps
<1>5. CASE /\ Total < MaxEntries /\ e.name # BadName /\ e.kind = "other"
           /\ count' = [count EXCEPT !.skipped = @ + 1]
           /\ UNCHANGED <<staged, stack, pc, result>>
  <2>1. count' \in R /\ count'.files = count.files /\ count'.directories = count.directories
        /\ count'.skipped = count.skipped + 1
    BY <1>2, <1>5
  <2> QED BY <1>5, <2>1, EntryOn DEF e
<1>6. CASE /\ Total < MaxEntries /\ e.kind = "dir" /\ Creatable(e)
           /\ staged' = staged \cup {Node(tree, Now)}
           /\ count' = [count EXCEPT !.directories = @ + 1]
           /\ stack' = Append(stack, Child(here, e))
           /\ UNCHANGED <<pc, result>>
  <2>1. count' \in R /\ count'.files = count.files /\ count'.skipped = count.skipped
        /\ count'.directories = count.directories + 1
    BY <1>2, <1>6
  <2>2. e.name # BadName
    BY <1>6 DEF Creatable
  <2> QED BY <1>6, <2>1, <2>2, EntryOn DEF e
<1>7. CASE /\ Total < MaxEntries /\ e.kind = "file" /\ Creatable(e)
           /\ staged' = staged \cup {Node(tree, Now)}
           /\ IF count.bytes + e.bytes > U64Max
              THEN /\ count' = [count EXCEPT !.files = @ + 1]
                   /\ Fail
              ELSE /\ count' = [count EXCEPT !.files = @ + 1, !.bytes = @ + e.bytes]
                   /\ UNCHANGED <<pc, result>>
           /\ UNCHANGED stack
  <2>1. CASE count.bytes + e.bytes > U64Max
    <3>1. count' = [count EXCEPT !.files = @ + 1] /\ Fail
      BY <1>7, <2>1
    <3>2. count' \in R
      BY <1>2, <3>1
    <3> QED BY <1>1, <3>1, <3>2, FailKeeps
  <2>2. CASE ~(count.bytes + e.bytes > U64Max)
    <3>1. count' = [count EXCEPT !.files = @ + 1, !.bytes = @ + e.bytes]
          /\ UNCHANGED <<pc, result>>
      BY <1>7, <2>2
    <3>2. count' \in R /\ count'.files = count.files + 1 /\ count'.skipped = count.skipped
          /\ count'.directories = count.directories
      <4>1. count.files + 1 \in Nat /\ count.bytes + e.bytes \in Nat
        BY <1>1, <1>2
      <4> QED BY <1>2, <3>1, <4>1
    <3>3. e.name # BadName
      BY <1>7 DEF Creatable
    <3> QED BY <1>7, <3>1, <3>2, <3>3, EntryOn DEF e
  <2> QED BY <2>1, <2>2
<1> QED BY <1>3, <1>4, <1>5, <1>6, <1>7 DEF Entry, e

-----------------------------------------------------------------------------
(* The renames.                                                            *)

LEMMA StagePreviousKeeps == ASSUME Inv, StagePrevious PROVE Inv'
<1>1. /\ pc = "walk" /\ listing = <<>> /\ stack = <<>> /\ pc' = "publish"
      /\ previous' = destination /\ destination' = Nothing
      /\ UNCHANGED <<tree, intruder, rollback_fails, count, staged, result, foreign>>
  BY DEF StagePrevious, source, walk
<1>2. visited = Pairs(tree) /\ Level(tree, MaxDepth + 1) = {}
  BY <1>1, WalkedAll
<1>3. Recorded(Pairs(tree))
  BY <1>1, <1>2 DEF Inv, Walking
<1>4. Staged'
  BY <1>1, <1>2, <1>3 DEF Staged, Recorded, Total
<1>5. Types'
  BY <1>1 DEF Inv, Types
<1>6. Others' /\ Kept'
  BY <1>1 DEF Inv, Others, Kept, AllOrNothing
<1>7. Placed'
  BY <1>1, <1>5 DEF Placed, Types
<1> QED BY <1>1, <1>4, <1>5, <1>6, <1>7 DEF Inv, Walking

LEMMA PublishKeeps == ASSUME Inv, Publish PROVE Inv'
<1>1. /\ pc = "publish" /\ pc' = "clean" /\ destination' = Tree(staged)
      /\ UNCHANGED <<tree, intruder, rollback_fails, count, previous, result, foreign>>
  BY DEF Publish, source, walk
<1>2. Level(tree, MaxDepth + 1) = {} /\ Recorded(Pairs(tree))
  BY <1>1 DEF Inv, Staged
<1>3. destination' = WholeTree(tree)
  BY <1>1, <1>2 DEF Recorded, WholeTree
<1>4. Recoverable(tree)
  <2>1. Cardinality(Pairs(tree)) + 1 <= MaxEntries
    BY <1>2 DEF Recorded
  <2> QED BY <1>2, <2>1 DEF Recorded, Recoverable
<1>5. Counted'
  BY <1>1, <1>2 DEF Recorded, Counted
<1>6. Types'
  BY <1>1 DEF Inv, Types
<1>7. Placed' /\ Others' /\ Kept'
  BY <1>1, <1>3, <1>4, <1>5 DEF Placed, Others, Kept, AllOrNothing
<1> QED BY <1>1, <1>6, <1>7 DEF Inv, Walking, Staged

LEMMA PublishFailsKeeps == ASSUME Inv, PublishFails PROVE Inv'
<1>1. /\ pc = "publish" /\ pc' = "rollback"
      /\ UNCHANGED <<tree, intruder, rollback_fails, count, staged, destination, previous,
                     result, foreign>>
  BY DEF PublishFails, source, walk, disk
<1>2. Types'
  BY <1>1 DEF Inv, Types
<1>3. Staged'
  BY <1>1 DEF Inv, Staged, Recorded, Total
<1>4. Others' /\ Kept'
  BY <1>1 DEF Inv, Others, Kept, AllOrNothing
<1>5. Placed'
  BY <1>1, <1>2 DEF Placed, Types
<1> QED BY <1>1, <1>2, <1>3, <1>4, <1>5 DEF Inv, Walking

LEMMA RollbackKeeps == ASSUME Inv, Rollback PROVE Inv'
<1>1. /\ pc = "rollback" /\ pc' = "drop" /\ result' = "err"
      /\ UNCHANGED <<tree, intruder, rollback_fails, count, foreign>>
  BY DEF Rollback, Fail, source, walk
<1>2. \/ previous # Nothing /\ destination' = previous
      \/ /\ previous = Nothing \/ destination # Nothing \/ rollback_fails
         /\ destination' = destination
  BY DEF Rollback
<1>3. Types'
  BY <1>1, StringFacts DEF Inv, Types
<1>4. Others'
  BY <1>1, <1>2 DEF Inv, Others, AllOrNothing
<1>5. Kept'
  BY <1>1, <1>2 DEF Inv, Kept, Types
<1> QED BY <1>1, <1>3, <1>4, <1>5, StringFacts DEF Inv, Walking, Staged, Placed

LEMMA CleanKeeps == ASSUME Inv, Clean PROVE Inv'
<1>1. /\ pc = "clean" /\ pc' = "drop"
      /\ UNCHANGED <<tree, intruder, rollback_fails, count, destination, foreign>>
  BY DEF Clean, Fail, source, walk
<1>2. destination = WholeTree(tree) /\ Recoverable(tree) /\ Counted
  BY <1>1 DEF Inv, Placed
<1>3. Types'
  BY <1>1 DEF Inv, Types
<1>4. Placed' /\ Others' /\ Kept'
  BY <1>1, <1>2 DEF Placed, Counted, Others, Kept, AllOrNothing
<1> QED BY <1>1, <1>3, <1>4 DEF Inv, Walking, Staged

LEMMA DropKeeps == ASSUME Inv, Drop PROVE Inv'
<1>1. /\ pc = "drop" /\ pc' = "done"
      /\ UNCHANGED <<tree, intruder, rollback_fails, count, destination, result, foreign>>
  BY DEF Drop, source, walk
<1>2. Types'
  BY <1>1 DEF Inv, Types
<1>3. Placed' /\ Others' /\ Kept'
  BY <1>1 DEF Inv, Placed, Counted, Others, Kept, AllOrNothing
<1> QED BY <1>1, <1>2, <1>3 DEF Inv, Walking, Staged

LEMMA IOErrorKeeps == ASSUME Inv, IOError PROVE Inv'
<1>1. /\ pc = "walk" /\ Fail
      /\ UNCHANGED <<source, count, destination, previous, foreign>>
  BY DEF IOError, walk, disk
<1> QED BY <1>1, FailKeeps DEF Inv, Types

LEMMA CrashKeeps == ASSUME Inv, Crash PROVE Inv'
<1>1. /\ pc \notin {"start", "done", "dead"} /\ pc' = "dead"
      /\ UNCHANGED <<tree, intruder, rollback_fails, count, destination, previous, result,
                     foreign>>
  BY DEF Crash, source, walk, disk
<1>2. Types'
  BY <1>1 DEF Inv, Types
<1>3. Placed' /\ Others'
  BY <1>1 DEF Inv, Placed, Counted, Others, AllOrNothing
<1>4. Kept'
  BY <1>1 DEF Inv, Types, Placed, Kept
<1> QED BY <1>1, <1>2, <1>3, <1>4 DEF Inv, Walking, Staged

LEMMA IntrudeKeeps == ASSUME Inv, Intrude PROVE Inv'
<1>1. /\ intruder /\ destination = Nothing /\ destination' = Left("other")
      /\ foreign' = foreign \cup {Left("other")}
      /\ UNCHANGED <<tree, intruder, stack, here, listing, count, visited, staged, previous,
                     pc, result>>
  BY DEF Intrude, source, walk
<1>2. Types'
  BY <1>1, StringFacts DEF Inv, Types
<1>3. Walking'
  BY <1>1 DEF Inv, Walking, Sound, Apart, Covered, Recorded, At, OnStack, Total
<1>4. Staged'
  BY <1>1 DEF Inv, Staged, Recorded, Total
<1>5. Placed'
  BY <1>1, StringFacts DEF Inv, Placed
<1>6. Others' /\ Kept'
  BY <1>1 DEF Inv, Others, Kept, AllOrNothing
<1> QED BY <1>2, <1>3, <1>4, <1>5, <1>6 DEF Inv

LEMMA UnchangedKeeps == ASSUME Inv, UNCHANGED vars PROVE Inv'
<1>1. UNCHANGED <<tree, intruder, rollback_fails, stack, here, listing, count, visited,
                  destination, staged, previous, pc, result, foreign>>
  BY DEF vars, source, walk, disk
<1>2. Walking'
  BY <1>1 DEF Inv, Walking, Sound, Apart, Covered, Recorded, At, OnStack, Total
<1>3. Staged' /\ Placed'
  BY <1>1 DEF Inv, Staged, Placed, Counted, Recorded, Total
<1>4. Types' /\ Others' /\ Kept'
  BY <1>1 DEF Inv, Types, Others, Kept, AllOrNothing
<1> QED BY <1>2, <1>3, <1>4 DEF Inv

-----------------------------------------------------------------------------
(* Theorems.                                                               *)

LEMMA NextInv == Inv /\ [Next]_vars => Inv'
<1> SUFFICES ASSUME Inv, [Next]_vars PROVE Inv'
  OBVIOUS
<1>1. CASE Step
  BY <1>1, StartKeeps, PopDirectoryKeeps, EntryKeeps, StagePreviousKeeps, PublishKeeps,
     PublishFailsKeeps, RollbackKeeps, CleanKeeps, DropKeeps DEF Step
<1>2. CASE IOError \/ Crash \/ Intrude
  BY <1>2, IOErrorKeeps, CrashKeeps, IntrudeKeeps
<1>3. CASE UNCHANGED vars
  BY <1>3, UnchangedKeeps
<1> QED BY <1>1, <1>2, <1>3 DEF Next, Terminated

LEMMA InvHolds == Spec => []Inv
BY InitInv, NextInv, PTL DEF Spec

\* extract_directory_tree, on every source graph and with any limits: the
\* destination holds what others put there, nothing, or the whole tree, which
\* is then within the limits and has only usable names.
THEOREM TreeAllOrNothing == Spec => []AllOrNothing
<1>1. Inv => AllOrNothing
  BY DEF Inv, Others
<1> QED BY <1>1, InvHolds, PTL

\* A run that reports success has put exactly the source tree in place and has
\* counted every entry of it once.
THEOREM TreeSuccessIsComplete == Spec => []SuccessIsComplete
<1>1. Inv => SuccessIsComplete
  BY DEF Inv, Placed, Counted, SuccessIsComplete
<1> QED BY <1>1, InvHolds, PTL

\* What was at the destination is on disk at every step, and after a crash at
\* any step, until the whole tree has its place, if others leave the
\* destination alone and the rename back works.
THEOREM TreePreviousNeverLost == Spec => []PreviousNeverLost
<1>1. Inv => PreviousNeverLost
  BY DEF Inv, Types, Kept, Placed, PreviousNeverLost
<1> QED BY <1>1, InvHolds, PTL
=============================================================================
