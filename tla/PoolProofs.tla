----------------------------- MODULE PoolProofs -----------------------------
(***************************************************************************)
(* What the commands on a pool member deliver, proved for every pool that  *)
(* is sound as it was written, every sequence of commands and every damage *)
(* to the member at any time.                                              *)
(***************************************************************************)
EXTENDS PoolWritten, FiniteSetTheorems, WellFoundedInduction, TLAPS

-----------------------------------------------------------------------------
(* Induction on natural numbers, for a set.                                *)

LEMMA LeastNat ==
    ASSUME NEW T \in SUBSET Nat, T # {}
    PROVE  \E x \in T : \A y \in T : x <= y
<1>1. PICK x \in T : \A y \in T : ~(<<y, x>> \in OpToRel(<, Nat))
  BY NatLessThanWellFounded, WFMin
<1>2. \A y \in Nat : y < x => <<y, x>> \in OpToRel(<, Nat)
  BY DEF OpToRel
<1>3. \A y \in T : ~(y < x)
  BY <1>1, <1>2
<1> QED BY <1>3

LEMMA StepUp ==
    ASSUME NEW N \in Nat, NEW G, 0 \in G, \A n \in 1..N : n - 1 \in G => n \in G
    PROVE  \A n \in 0..N : n \in G
<1> DEFINE B == {n \in 0..N : n \notin G}
<1>1. SUFFICES ASSUME B # {} PROVE FALSE
  OBVIOUS
<1>2. B \in SUBSET Nat
  OBVIOUS
<1> HIDE DEF B
<1>3. PICK n \in B : \A m \in B : n <= m
  BY <1>1, <1>2, LeastNat
<1>4. n \in 0..N /\ n \notin G /\ n # 0
  BY DEF B
<1>5. n \in 1..N /\ n - 1 \in 0..N
  BY <1>4
<1>6. n - 1 \in G
  BY <1>3, <1>5 DEF B
<1> QED BY <1>4, <1>5, <1>6

LEMMA MinIs ==
    ASSUME NEW S \in SUBSET Nat, S # {}
    PROVE  Min(S) \in S /\ \A y \in S : Min(S) <= y
<1>1. \E x \in S : \A y \in S : x <= y
  BY LeastNat
<1> QED BY <1>1 DEF Min

-----------------------------------------------------------------------------
(* Blocks.                                                                 *)

\* The copies that pass, for the two kinds of block.
Good(p, key) ==
    IF p.crypt THEN {i \in SoundCopies(p, Copies(p)) : Authentic(p, p.dvas[i], key)}
    ELSE SoundCopies(p, 3)

LEMMA GoodIsBlock ==
    ASSUME NEW p, NEW key, Protected(p), ~p.embedded, DOMAIN p.dvas \subseteq Nat,
           Good(p, key) # {}
    PROVE  Best(p, Good(p, key)) = pool.body[p.block]
<1>1. Good(p, key) \in SUBSET Nat
  BY DEF Good, SoundCopies
<1>2. Min(Good(p, key)) \in Good(p, key)
  BY <1>1, MinIs
<1>3. \A i \in Good(p, key) : Stored(p.dvas[i].at) = p.block
  BY DEF Good, SoundCopies, ChecksumFits, Authentic, Protected
<1> QED BY <1>2, <1>3 DEF Best

LEMMA ReadIs ==
    ASSUME NEW p, NEW key
    PROVE  \/ read_pool_block_from(p, key) = Failed
           \/ /\ p.embedded /\ read_pool_block_from(p, key) = pool.body[p.block]
              /\ Intact!read_pool_block_from(p, key) = pool.body[p.block]
           \/ /\ is_hole(p) /\ read_pool_block_from(p, key) = Zeroes
              /\ Intact!read_pool_block_from(p, key) = Zeroes
           \/ /\ ~p.embedded /\ ~is_hole(p) /\ Good(p, key) # {}
              /\ read_pool_block_from(p, key) = Best(p, Good(p, key))
BY DEF read_pool_block_from, read_block_from, Best, Good, is_hole,
       Intact!read_pool_block_from, Intact!read_block_from, Intact!is_hole

\* The same of the member as it was written.
IntactGood(p, key) ==
    IF p.crypt
    THEN {i \in Intact!SoundCopies(p, Copies(p)) : Intact!Authentic(p, p.dvas[i], key)}
    ELSE Intact!SoundCopies(p, 3)

LEMMA IntactStored ==
    \A at : Intact!Stored(at) = pool.home[at]
BY DEF Intact!Stored

LEMMA IntactIs ==
    ASSUME NEW p, NEW key, Kept(p, key), ~p.embedded, ~is_hole(p)
    PROVE  /\ Intact!read_pool_block_from(p, key) = pool.body[p.block]
           /\ p.lsize \in 1..MaxBlockSize /\ SizesFit(p) /\ p.sum \in Checkable
           /\ p.crypt => key # None
           /\ p.crypt /\ ~(p.level > 0) /\ p.type # "objset" => pool.seal[p.block] = key
<1>1. Intact!read_pool_block_from(p, key) # Failed /\ DOMAIN p.dvas \subseteq Nat /\ Protected(p)
  BY DEF Kept
<1>2. ~Intact!is_hole(p)
  BY DEF is_hole, Intact!is_hole
<1>3. /\ Intact!read_pool_block_from(p, key) = Intact!Best(p, IntactGood(p, key))
      /\ p.lsize \in 1..MaxBlockSize /\ SizesFit(p) /\ p.sum \in Checkable
      /\ p.crypt => key # None
  BY <1>1, <1>2 DEF Intact!read_pool_block_from, Intact!read_block_from, IntactGood,
     Intact!SizesFit, SizesFit, Intact!Checkable, Checkable, Copies, Intact!Copies,
     is_encrypted_object_type, Intact!is_encrypted_object_type
<1>4. IntactGood(p, key) # {}
  BY <1>1, <1>3 DEF Intact!Best
<1>5. IntactGood(p, key) \in SUBSET Nat
  BY <1>1 DEF IntactGood, Intact!SoundCopies
<1>6. Min(IntactGood(p, key)) \in IntactGood(p, key)
  BY <1>4, <1>5, MinIs
<1>7. \A i \in IntactGood(p, key) : Intact!Stored(p.dvas[i].at) = p.block
  BY <1>1 DEF IntactGood, Intact!SoundCopies, Intact!ChecksumFits, Intact!Authentic, Protected
<1>8. Intact!read_pool_block_from(p, key) = pool.body[p.block]
  <2>1. Intact!Min(IntactGood(p, key)) = Min(IntactGood(p, key))
    BY DEF Intact!Min, Min
  <2> QED BY <1>3, <1>4, <1>6, <1>7, <2>1 DEF Intact!Best
<1>9. p.crypt /\ ~(p.level > 0) /\ p.type # "objset" => pool.seal[p.block] = key
  BY <1>4 DEF IntactGood, Intact!Authentic
<1> QED BY <1>3, <1>8, <1>9

\* A block of a sound pool is read as it was written, or not at all.
LEMMA ReadKept ==
    ASSUME NEW p, NEW key, Kept(p, key)
    PROVE  read_pool_block_from(p, key) \in {Failed, Intact!read_pool_block_from(p, key)}
<1>1. DOMAIN p.dvas \subseteq Nat /\ Protected(p)
  BY DEF Kept
<1>2. CASE ~p.embedded /\ ~is_hole(p) /\ Good(p, key) # {}
           /\ read_pool_block_from(p, key) = Best(p, Good(p, key))
  BY <1>1, <1>2, GoodIsBlock, IntactIs
<1> QED BY <1>2, ReadIs

\* A usable copy that is not damaged is enough.
LEMMA ReadComplete ==
    ASSUME NEW p, NEW key, Kept(p, key), EveryBlockHasACopy
    PROVE  read_pool_block_from(p, key) = Intact!read_pool_block_from(p, key)
<1>1. DOMAIN p.dvas \subseteq Nat /\ Protected(p)
      /\ Intact!read_pool_block_from(p, key) # Failed
  BY DEF Kept
<1>2. CASE p.embedded \/ is_hole(p)
  <2>1. Intact!is_hole(p) <=> is_hole(p)
    BY DEF is_hole, Intact!is_hole
  <2> QED BY <1>1, <1>2, <2>1 DEF read_pool_block_from, read_block_from,
       Intact!read_pool_block_from, Intact!read_block_from,
       Intact!SizesFit, SizesFit, Intact!Checkable, Checkable
<1>3. CASE ~p.embedded /\ ~is_hole(p)
  <2>1. /\ Intact!read_pool_block_from(p, key) = pool.body[p.block]
        /\ p.lsize \in 1..MaxBlockSize /\ SizesFit(p) /\ p.sum \in Checkable
        /\ p.crypt => key # None
        /\ p.crypt /\ ~(p.level > 0) /\ p.type # "objset" => pool.seal[p.block] = key
    BY <1>3, IntactIs
  <2>2. UsableNamed(p) /\ p.block # Lost
    BY <1>3 DEF Kept
  <2>3. PICK at \in pool.usable[p.block] : at \notin DOMAIN damage
    BY <2>2 DEF EveryBlockHasACopy, UsableNamed
  <2>4. PICK i \in DOMAIN p.dvas :
          /\ i <= CopiesOf(p) /\ p.dvas[i] # None
          /\ p.dvas[i].vdev = 0 /\ ~p.dvas[i].gang
          /\ p.dvas[i].at = at /\ pool.home[at] = p.block
    BY <2>2 DEF UsableNamed
  <2>5. Stored(p.dvas[i].at) = p.block
    BY <2>3, <2>4 DEF Stored
  <2>6. Fetched(p.dvas[i]) /\ ChecksumFits(p, p.dvas[i])
    BY <2>2, <2>4, <2>5 DEF Fetched, ChecksumFits
  <2>7. p.crypt => Authentic(p, p.dvas[i], key)
    BY <2>1, <2>5 DEF Authentic
  <2>8. i \in Good(p, key)
    BY <2>4, <2>6, <2>7 DEF Good, SoundCopies, CopiesOf
  <2>9. read_pool_block_from(p, key) = Best(p, Good(p, key))
    BY <1>3, <2>1 DEF read_pool_block_from, read_block_from, Good
  <2> QED BY <1>1, <1>3, <2>1, <2>8, <2>9, GoodIsBlock
<1> QED BY <1>2, <1>3

-----------------------------------------------------------------------------
(* Logical blocks: the way down through the indirect blocks.               *)

Index(dn, id, down) == id \div dn.fan^(dn.levels - 1 - down)

\* The pointer below up, on the way to logical block id.
Below(dn, id, key, up, down) == Child(up, (Index(dn, id, down) % dn.fan) + 1, key)
IntactBelow(dn, id, key, up, down) ==
    Intact!Child(up, (Index(dn, id, down) % dn.fan) + 1, key)

\* g is the way as far as depth N.
Leads(dn, id, key, g, N) ==
    g = [down \in 0..N |-> IF down = 0 THEN Nth(dn.top, Index(dn, id, 0) + 1)
                           ELSE Below(dn, id, key, g[down - 1], down)]
IntactLeads(dn, id, key, g, N) ==
    g = [down \in 0..N |-> IF down = 0 THEN Nth(dn.top, Index(dn, id, 0) + 1)
                           ELSE IntactBelow(dn, id, key, g[down - 1], down)]

LEMMA LeadsExists ==
    ASSUME NEW dn, NEW id, NEW key, NEW N \in Nat
    PROVE  \E g : Leads(dn, id, key, g, N)
<1> DEFINE top == Nth(dn.top, Index(dn, id, 0) + 1)
           G == {n \in Nat : \E g : Leads(dn, id, key, g, n)}
<1>1. 0 \in G
  <2> DEFINE g == [n \in 0..0 |-> top]
  <2>1. g = [n \in 0..0 |-> IF n = 0 THEN top ELSE Below(dn, id, key, g[n - 1], n)]
    <3>1. \A n \in 0..0 : n = 0
      OBVIOUS
    <3> QED BY <3>1
  <2>2. Leads(dn, id, key, g, 0)
    BY <2>1 DEF Leads
  <2> QED BY <2>2
<1>2. ASSUME NEW n \in 1..N, n - 1 \in G
      PROVE  n \in G
  <2>1. PICK h : Leads(dn, id, key, h, n - 1)
    BY <1>2
  <2> DEFINE g == [i \in 0..n |-> IF i = n THEN Below(dn, id, key, h[n - 1], n) ELSE h[i]]
  <2>2. n \in Nat /\ n # 0 /\ n - 1 \in 0..(n - 1)
    OBVIOUS
  <2>4. \A i \in 0..(n - 1) : h[i] = IF i = 0 THEN top ELSE Below(dn, id, key, h[i - 1], i)
    BY <2>1 DEF Leads
  <2>5. \A i \in 0..(n - 1) : i \in 0..n /\ i # n /\ g[i] = h[i]
    BY <2>2
  <2>6. g[n] = Below(dn, id, key, g[n - 1], n)
    BY <2>2, <2>5
  <2>7. ASSUME NEW i \in 0..n
        PROVE  g[i] = IF i = 0 THEN top ELSE Below(dn, id, key, g[i - 1], i)
    <3>1. CASE i = n
      BY <2>2, <2>6, <3>1
    <3>2. CASE i # n
      <4>1. i \in 0..(n - 1)
        BY <2>2, <3>2
      <4>2. CASE i = 0
        BY <2>4, <2>5, <4>1, <4>2
      <4>3. CASE i # 0
        <5>1. i - 1 \in 0..(n - 1)
          BY <2>2, <4>1, <4>3
        <5> QED BY <2>4, <2>5, <4>1, <4>3, <5>1
      <4> QED BY <4>2, <4>3
    <3> QED BY <3>1, <3>2
  <2>8. g = [i \in 0..n |-> g[i]]
    OBVIOUS
  <2> HIDE DEF g
  <2>9. Leads(dn, id, key, g, n)
    BY <2>7, <2>8 DEF Leads
  <2> QED BY <2>2, <2>9
<1> HIDE DEF G
<1>3. N \in G
  BY <1>1, <1>2, StepUp
<1> QED BY <1>3 DEF G

LEMMA IntactLeadsExists ==
    ASSUME NEW dn, NEW id, NEW key, NEW N \in Nat
    PROVE  \E g : IntactLeads(dn, id, key, g, N)
<1> DEFINE top == Nth(dn.top, Index(dn, id, 0) + 1)
           G == {n \in Nat : \E g : IntactLeads(dn, id, key, g, n)}
<1>1. 0 \in G
  <2> DEFINE g == [n \in 0..0 |-> top]
  <2>1. g = [n \in 0..0 |-> IF n = 0 THEN top ELSE IntactBelow(dn, id, key, g[n - 1], n)]
    <3>1. \A n \in 0..0 : n = 0
      OBVIOUS
    <3> QED BY <3>1
  <2>2. IntactLeads(dn, id, key, g, 0)
    BY <2>1 DEF IntactLeads
  <2> QED BY <2>2
<1>2. ASSUME NEW n \in 1..N, n - 1 \in G
      PROVE  n \in G
  <2>1. PICK h : IntactLeads(dn, id, key, h, n - 1)
    BY <1>2
  <2> DEFINE g == [i \in 0..n |-> IF i = n THEN IntactBelow(dn, id, key, h[n - 1], n) ELSE h[i]]
  <2>2. n \in Nat /\ n # 0 /\ n - 1 \in 0..(n - 1)
    OBVIOUS
  <2>4. \A i \in 0..(n - 1) : h[i] = IF i = 0 THEN top ELSE IntactBelow(dn, id, key, h[i - 1], i)
    BY <2>1 DEF IntactLeads
  <2>5. \A i \in 0..(n - 1) : i \in 0..n /\ i # n /\ g[i] = h[i]
    BY <2>2
  <2>6. g[n] = IntactBelow(dn, id, key, g[n - 1], n)
    BY <2>2, <2>5
  <2>7. ASSUME NEW i \in 0..n
        PROVE  g[i] = IF i = 0 THEN top ELSE IntactBelow(dn, id, key, g[i - 1], i)
    <3>1. CASE i = n
      BY <2>2, <2>6, <3>1
    <3>2. CASE i # n
      <4>1. i \in 0..(n - 1)
        BY <2>2, <3>2
      <4>2. CASE i = 0
        BY <2>4, <2>5, <4>1, <4>2
      <4>3. CASE i # 0
        <5>1. i - 1 \in 0..(n - 1)
          BY <2>2, <4>1, <4>3
        <5> QED BY <2>4, <2>5, <4>1, <4>3, <5>1
      <4> QED BY <4>2, <4>3
    <3> QED BY <3>1, <3>2
  <2>8. g = [i \in 0..n |-> g[i]]
    OBVIOUS
  <2> HIDE DEF g
  <2>9. IntactLeads(dn, id, key, g, n)
    BY <2>7, <2>8 DEF IntactLeads
  <2> QED BY <2>2, <2>9
<1> HIDE DEF G
<1>3. N \in G
  BY <1>1, <1>2, StepUp
<1> QED BY <1>3 DEF G

LEMMA PathIs ==
    ASSUME NEW dn, NEW id, NEW key, dn.levels - 1 \in Nat
    PROVE  /\ Path(dn, id, key)[0] = Nth(dn.top, Index(dn, id, 0) + 1)
           /\ \A n \in 1..(dn.levels - 1) :
                 Path(dn, id, key)[n] = Below(dn, id, key, Path(dn, id, key)[n - 1], n)
<1> DEFINE N == dn.levels - 1
           g == CHOOSE f : Leads(dn, id, key, f, N)
<1>1. Leads(dn, id, key, g, N)
  BY LeadsExists
<1>2. Path(dn, id, key) = g
  BY DEF Path, Leads, Below, Index
<1> HIDE DEF g
<1>3. \A n \in 0..N : g[n] = IF n = 0 THEN Nth(dn.top, Index(dn, id, 0) + 1)
                             ELSE Below(dn, id, key, g[n - 1], n)
  BY <1>1 DEF Leads
<1>4. \A n \in 1..N : n \in 0..N /\ n # 0
  OBVIOUS
<1>5. g[0] = Nth(dn.top, Index(dn, id, 0) + 1)
  BY <1>3
<1> QED BY <1>2, <1>3, <1>4, <1>5

LEMMA IntactPathIs ==
    ASSUME NEW dn, NEW id, NEW key, dn.levels - 1 \in Nat
    PROVE  /\ Intact!Path(dn, id, key)[0] = Nth(dn.top, Index(dn, id, 0) + 1)
           /\ \A n \in 1..(dn.levels - 1) :
                 Intact!Path(dn, id, key)[n]
                    = IntactBelow(dn, id, key, Intact!Path(dn, id, key)[n - 1], n)
<1> DEFINE N == dn.levels - 1
           g == CHOOSE f : IntactLeads(dn, id, key, f, N)
<1>1. IntactLeads(dn, id, key, g, N)
  BY IntactLeadsExists
<1>2. Intact!Path(dn, id, key) = g
  BY DEF Intact!Path, IntactLeads, IntactBelow, Index, Intact!Nth, Nth
<1> HIDE DEF g
<1>3. \A n \in 0..N : g[n] = IF n = 0 THEN Nth(dn.top, Index(dn, id, 0) + 1)
                             ELSE IntactBelow(dn, id, key, g[n - 1], n)
  BY <1>1 DEF IntactLeads
<1>4. \A n \in 1..N : n \in 0..N /\ n # 0
  OBVIOUS
<1>5. g[0] = Nth(dn.top, Index(dn, id, 0) + 1)
  BY <1>3
<1> QED BY <1>2, <1>3, <1>4, <1>5

\* The same without the block itself: only its pointer is sure.
KeptWay(dn, id, key) ==
    /\ Has(dn, id)
    /\ dn.levels > 1 => WayKept(dn, id, key, dn.levels - 2)

LEMMA ChildKept ==
    ASSUME NEW up, NEW n, NEW key, up # Failed, is_hole(up) \/ Kept(up, key)
    PROVE  /\ Child(up, n, key) \in {Failed, Intact!Child(up, n, key)}
           /\ EveryBlockHasACopy => Child(up, n, key) = Intact!Child(up, n, key)
<1>1. Intact!is_hole(up) <=> is_hole(up)
  BY DEF is_hole, Intact!is_hole
<1>2. \A b : Intact!Nth(b, n) = Nth(b, n)
  BY DEF Intact!Nth, Nth
<1>3. Nth(Failed, n) = Failed
  BY DEF Nth
<1>4. CASE is_hole(up)
  BY <1>1, <1>4 DEF Child, Intact!Child
<1>5. CASE ~is_hole(up)
  <2>1. read_pool_block_from(up, key) \in {Failed, Intact!read_pool_block_from(up, key)}
    BY <1>5, ReadKept
  <2>2. EveryBlockHasACopy =>
          read_pool_block_from(up, key) = Intact!read_pool_block_from(up, key)
    BY <1>5, ReadComplete
  <2>3. Child(up, n, key) = Nth(read_pool_block_from(up, key), n)
    BY <1>5 DEF Child
  <2>4. Intact!Child(up, n, key) = Nth(Intact!read_pool_block_from(up, key), n)
    BY <1>1, <1>2, <1>5 DEF Intact!Child
  <2> QED BY <1>3, <2>1, <2>2, <2>3, <2>4
<1> QED BY <1>4, <1>5

\* The way down is found as it was written, or not at all.
LEMMA WayFound ==
    ASSUME NEW dn, NEW id, NEW key, KeptWay(dn, id, key)
    PROVE  \A n \in 0..(dn.levels - 1) :
              /\ Path(dn, id, key)[n] \in {Failed, Intact!Path(dn, id, key)[n]}
              /\ EveryBlockHasACopy => Path(dn, id, key)[n] = Intact!Path(dn, id, key)[n]
<1> DEFINE N == dn.levels - 1
           P(n) == Path(dn, id, key)[n]
           Q(n) == Intact!Path(dn, id, key)[n]
           G == {n \in 0..N : /\ P(n) \in {Failed, Q(n)}
                              /\ EveryBlockHasACopy => P(n) = Q(n)}
<1>0. N \in Nat /\ dn.levels \in Nat
  BY PoolBlocksAssumption DEF KeptWay, Has
<1>1. P(0) = Q(0) /\ \A n \in 1..N : /\ P(n) = Below(dn, id, key, P(n - 1), n)
                                     /\ Q(n) = IntactBelow(dn, id, key, Q(n - 1), n)
  BY <1>0, PathIs, IntactPathIs
<1>2. \A n \in 1..N : Q(n - 1) # Failed /\ (is_hole(Q(n - 1)) \/ Kept(Q(n - 1), key))
  <2>1. \A n \in 1..N : n - 1 \in 0..(dn.levels - 2) /\ dn.levels > 1
    BY <1>0
  <2> QED BY <2>1 DEF KeptWay, WayKept
<1>3. 0 \in G
  BY <1>0, <1>1
<1>4. ASSUME NEW n \in 1..N, n - 1 \in G
      PROVE  n \in G
  <2>1. n \in 0..N
    BY <1>0
  <2>2. CASE P(n - 1) = Failed
    <3>1. P(n) = Failed
      BY <1>1, <2>2 DEF Below, Child
    <3>2. ~EveryBlockHasACopy
      BY <1>2, <1>4, <2>2
    <3> QED BY <2>1, <3>1, <3>2
  <2>3. CASE P(n - 1) = Q(n - 1)
    <3> DEFINE up == Q(n - 1)
               k == (Index(dn, id, n) % dn.fan) + 1
    <3>1. up # Failed /\ (is_hole(up) \/ Kept(up, key))
      BY <1>2
    <3>2. P(n) = Child(up, k, key) /\ Q(n) = Intact!Child(up, k, key)
      BY <1>1, <2>3 DEF Below, IntactBelow
    <3> HIDE DEF up, k, P, Q
    <3>3. /\ Child(up, k, key) \in {Failed, Intact!Child(up, k, key)}
          /\ EveryBlockHasACopy => Child(up, k, key) = Intact!Child(up, k, key)
      BY <3>1, ChildKept
    <3> QED BY <2>1, <3>2, <3>3
  <2> QED BY <1>4, <2>2, <2>3
<1> HIDE DEF G
<1>5. \A n \in 0..N : n \in G
  BY <1>0, <1>3, <1>4, StepUp
<1> QED BY <1>5 DEF G

\* A logical block of a sound dnode is read as it was written, or not at all.
LEMMA DataKept ==
    ASSUME NEW dn, NEW id, NEW key, KeptData(dn, id, key)
    PROVE  /\ read_dnode_data_with_key(dn, id, key)
                \in {Failed, Intact!read_dnode_data_with_key(dn, id, key)}
           /\ EveryBlockHasACopy => read_dnode_data_with_key(dn, id, key)
                                      = Intact!read_dnode_data_with_key(dn, id, key)
           /\ Intact!read_dnode_data_with_key(dn, id, key) # Failed
<1> DEFINE N == dn.levels - 1
           p == Intact!Path(dn, id, key)[N]
<1>0. N \in 0..N /\ dn.levels \in Nat /\ id <= dn.maxblkid /\ ~(id > dn.maxblkid)
      /\ N \in Nat
  BY PoolBlocksAssumption DEF KeptData, Has
<1>1. KeptWay(dn, id, key)
  <2>1. dn.levels > 1 => \A n \in 0..(dn.levels - 2) : n \in 0..N
    BY <1>0
  <2> QED BY <2>1 DEF KeptData, KeptWay, WayKept
<1>2. Descend(dn, id, key) = Path(dn, id, key)[N] /\ Intact!Descend(dn, id, key) = p
  BY DEF Descend, Intact!Descend
<1>3. /\ Path(dn, id, key)[N] \in {Failed, p}
      /\ EveryBlockHasACopy => Path(dn, id, key)[N] = p
  BY <1>0, <1>1, WayFound
<1>4. p # Failed /\ (is_hole(p) \/ Kept(p, key))
  BY <1>0 DEF KeptData, WayKept
<1>5. read_dnode_data_with_key(dn, id, key) = Leaf(Descend(dn, id, key), key)
  BY <1>0 DEF read_dnode_data_with_key, KeptData, Has
<1>6. Intact!read_dnode_data_with_key(dn, id, key) = Intact!Leaf(p, key)
  BY <1>0, <1>2 DEF Intact!read_dnode_data_with_key, KeptData, Has, PowersOfTwo,
       Intact!PowersOfTwo
<1> HIDE DEF p, N
<1>7. Intact!is_hole(p) <=> is_hole(p)
  BY DEF is_hole, Intact!is_hole
<1>8. CASE is_hole(p)
  BY <1>2, <1>3, <1>4, <1>5, <1>6, <1>7, <1>8, PoolBlocksAssumption DEF Leaf, Intact!Leaf
<1>9. CASE ~is_hole(p)
  <2>1. Kept(p, key)
    BY <1>4, <1>9
  <2>2. /\ read_pool_block_from(p, key) \in {Failed, Intact!read_pool_block_from(p, key)}
        /\ Intact!read_pool_block_from(p, key) # Failed
    BY <2>1, ReadKept DEF Kept
  <2>3. EveryBlockHasACopy =>
          read_pool_block_from(p, key) = Intact!read_pool_block_from(p, key)
    BY <2>1, ReadComplete
  <2> QED BY <1>2, <1>3, <1>4, <1>5, <1>6, <1>7, <1>9, <2>2, <2>3 DEF Leaf, Intact!Leaf
<1> QED BY <1>8, <1>9

-----------------------------------------------------------------------------
(* Objects and ZAPs.                                                       *)

LEMMA ObjectKept ==
    ASSUME NEW meta, NEW o, NEW key, KeptObject(meta, o, key)
    PROVE  /\ Object(meta, o, key) \in {Failed, Intact!Object(meta, o, key)}
           /\ EveryBlockHasACopy => Object(meta, o, key) = Intact!Object(meta, o, key)
           /\ dnode_with_key(meta, o, key) \in {Failed, Intact!Object(meta, o, key)}
           /\ EveryBlockHasACopy =>
                 dnode_with_key(meta, o, key) = Intact!Object(meta, o, key)
           /\ Intact!Object(meta, o, key) \notin {None, Failed}
<1> DEFINE id == o \div meta.blksz
           b == read_dnode_data_with_key(meta, id, key)
           c == Intact!read_dnode_data_with_key(meta, id, key)
           n == (o % meta.blksz) + 1
<1>1. KeptData(meta, id, key) /\ meta.blksz # 0 /\ Intact!Object(meta, o, key) # Failed
  BY DEF KeptObject
<1>2. b \in {Failed, c} /\ (EveryBlockHasACopy => b = c) /\ c # Failed
  BY <1>1, DataKept
<1>3. ~(id > meta.maxblkid)
  BY <1>1 DEF KeptData, Has
<1>4. dnode_with_key(meta, o, key) = DnodeIn(b, n)
  BY <1>1, <1>3 DEF dnode_with_key
<1>5. Intact!dnode_with_key(meta, o, key) = DnodeIn(c, n)
  BY <1>1, <1>3 DEF Intact!dnode_with_key, DnodeIn, Intact!DnodeIn, Occupied,
     Intact!Occupied, Nth, Intact!Nth
<1> HIDE DEF b, c, n, id
<1>6. DnodeIn(Failed, n) = Failed
  BY PoolBlocksAssumption DEF DnodeIn, Occupied, Nth
<1>7. Object(meta, o, key) = Required(DnodeIn(b, n))
  BY <1>4 DEF Object
<1>8. Intact!Object(meta, o, key) = Required(DnodeIn(c, n))
  BY <1>5 DEF Intact!Object, Intact!Required, Required
<1>9. DnodeIn(c, n) # None /\ Required(DnodeIn(c, n)) = DnodeIn(c, n)
      /\ Required(DnodeIn(c, n)) # Failed /\ Required(Failed) = Failed
  BY <1>1, <1>8, PoolBlocksAssumption DEF Required
<1> QED BY <1>2, <1>4, <1>6, <1>7, <1>8, <1>9

LEMMA ZapRead ==
    ASSUME NEW dn, NEW key, dn # Failed, KeptZap(dn, key)
    PROVE  /\ read_zap_object_with_key(dn, key)
                \in {Failed, Intact!read_zap_object_with_key(dn, key)}
           /\ EveryBlockHasACopy => read_zap_object_with_key(dn, key)
                                      = Intact!read_zap_object_with_key(dn, key)
           /\ Intact!read_zap_object_with_key(dn, key) # Failed
<1> DEFINE B(i) == read_dnode_data_with_key(dn, i, key)
           C(i) == Intact!read_dnode_data_with_key(dn, i, key)
           bs == {B(i) : i \in 0..dn.maxblkid}
           cs == {C(i) : i \in 0..dn.maxblkid}
<1>1. \A i \in 0..dn.maxblkid :
         B(i) \in {Failed, C(i)} /\ (EveryBlockHasACopy => B(i) = C(i)) /\ C(i) # Failed
  BY DataKept DEF KeptZap
<1>2. ~(dn.maxblkid + 1 > MaxZapBlocks) /\ dn.blksz # 0
  BY PoolBlocksAssumption DEF KeptZap
<1>3. read_zap_object_with_key(dn, key) = Joined(bs)
  BY <1>2 DEF read_zap_object_with_key
<1>4. Intact!read_zap_object_with_key(dn, key) = Joined(cs)
  BY <1>2 DEF Intact!read_zap_object_with_key, Intact!Joined, Joined
<1> HIDE DEF B, C
<1>5. CASE Failed \in bs
  <2>1. ~EveryBlockHasACopy
    BY <1>1, <1>5
  <2> QED BY <1>3, <1>5, <2>1 DEF Joined, KeptZap
<1>6. CASE Failed \notin bs
  <2>1. bs = cs
    BY <1>1, <1>6
  <2> QED BY <1>3, <1>4, <2>1 DEF KeptZap
<1> QED BY <1>5, <1>6

LEMMA ZapKept ==
    ASSUME NEW meta, NEW o, NEW key, KeptZapObject(meta, o, key)
    PROVE  /\ Zap(meta, o, key) \in {Failed, Intact!Zap(meta, o, key)}
           /\ EveryBlockHasACopy => Zap(meta, o, key) = Intact!Zap(meta, o, key)
           /\ Intact!Zap(meta, o, key) # Failed
<1> DEFINE dn == Intact!Object(meta, o, key)
<1>1. /\ Object(meta, o, key) \in {Failed, dn} /\ dn # Failed
      /\ EveryBlockHasACopy => Object(meta, o, key) = dn
  BY ObjectKept DEF KeptZapObject
<1>2. /\ read_zap_object_with_key(dn, key)
           \in {Failed, Intact!read_zap_object_with_key(dn, key)}
      /\ EveryBlockHasACopy => read_zap_object_with_key(dn, key)
                                 = Intact!read_zap_object_with_key(dn, key)
      /\ Intact!read_zap_object_with_key(dn, key) # Failed
  BY <1>1, ZapRead DEF KeptZapObject
<1>3. Zap(meta, o, key) = read_zap_object_with_key(Object(meta, o, key), key)
      /\ Intact!Zap(meta, o, key) = Intact!read_zap_object_with_key(dn, key)
  BY DEF Zap, Intact!Zap
<1>4. read_zap_object_with_key(Failed, key) = Failed
  BY DEF read_zap_object_with_key
<1> QED BY <1>1, <1>2, <1>3, <1>4

\* The value found is that of an entry.
LEMMA LookupIs ==
    ASSUME NEW entries, NEW name, entries # Failed
    PROVE  \/ zap_lookup(entries, name) = None /\ \A e \in entries : e[1] # name
           \/ \E e \in entries : e[1] = name /\ zap_lookup(entries, name) = e[2]
BY DEF zap_lookup

-----------------------------------------------------------------------------
(* No step changes the pool as it was written, nor what is said of it.     *)

LEMMA ReadRigid ==
    ASSUME pool' = pool, NEW p, NEW key
    PROVE  Intact!read_pool_block_from(p, key)' = Intact!read_pool_block_from(p, key)
<1>1. \A at : Intact!Stored(at)' = Intact!Stored(at)
  BY DEF Intact!Stored
<1>2. \A dva : Intact!Fetched(dva)' <=> Intact!Fetched(dva)
  BY <1>1 DEF Intact!Fetched
<1>3. \A dva : Intact!ChecksumFits(p, dva)' <=> Intact!ChecksumFits(p, dva)
  BY <1>1 DEF Intact!ChecksumFits
<1>4. \A n : Intact!SoundCopies(p, n)' = Intact!SoundCopies(p, n)
  BY <1>2, <1>3 DEF Intact!SoundCopies
<1>5. \A good : Intact!Best(p, good)' = Intact!Best(p, good)
  BY <1>1 DEF Intact!Best
<1>6. Intact!read_block_from(p)' = Intact!read_block_from(p)
  BY <1>4, <1>5 DEF Intact!read_block_from, Intact!is_hole, Intact!SizesFit
<1>7. \A dva : Intact!Authentic(p, dva, key)' <=> Intact!Authentic(p, dva, key)
  BY <1>1 DEF Intact!Authentic
<1>8. {i \in Intact!SoundCopies(p, Intact!Copies(p)) : Intact!Authentic(p, p.dvas[i], key)}'
        = {i \in Intact!SoundCopies(p, Intact!Copies(p)) : Intact!Authentic(p, p.dvas[i], key)}
  BY <1>4, <1>7
<1> QED BY <1>5, <1>6, <1>8 DEF Intact!read_pool_block_from, Intact!is_hole, Intact!SizesFit

LEMMA PathRigid ==
    ASSUME pool' = pool, NEW dn, NEW id, NEW key
    PROVE  Intact!Path(dn, id, key)' = Intact!Path(dn, id, key)
<1>1. \A up, n : Intact!Child(up, n, key)' = Intact!Child(up, n, key)
  BY ReadRigid DEF Intact!Child, Intact!is_hole
<1> QED BY <1>1 DEF Intact!Path

LEMMA DataRigid ==
    ASSUME pool' = pool, NEW dn, NEW id, NEW key
    PROVE  Intact!read_dnode_data_with_key(dn, id, key)'
             = Intact!read_dnode_data_with_key(dn, id, key)
<1>1. Intact!Descend(dn, id, key)' = Intact!Descend(dn, id, key)
  BY PathRigid DEF Intact!Descend
<1>2. \A p : Intact!Leaf(p, key)' = Intact!Leaf(p, key)
  BY ReadRigid DEF Intact!Leaf, Intact!is_hole
<1> QED BY <1>1, <1>2 DEF Intact!read_dnode_data_with_key

LEMMA ObjectRigid ==
    ASSUME pool' = pool, NEW meta, NEW o, NEW key
    PROVE  Intact!Object(meta, o, key)' = Intact!Object(meta, o, key)
<1>1. Intact!dnode_with_key(meta, o, key)' = Intact!dnode_with_key(meta, o, key)
  BY DataRigid DEF Intact!dnode_with_key
<1> QED BY <1>1 DEF Intact!Object

LEMMA ZapReadRigid ==
    ASSUME pool' = pool, NEW dn, NEW key
    PROVE  Intact!read_zap_object_with_key(dn, key)' = Intact!read_zap_object_with_key(dn, key)
<1>1. \A i : Intact!read_dnode_data_with_key(dn, i, key)'
               = Intact!read_dnode_data_with_key(dn, i, key)
  BY DataRigid
<1> QED BY <1>1 DEF Intact!read_zap_object_with_key

LEMMA ZapRigid ==
    ASSUME pool' = pool, NEW meta, NEW o, NEW key
    PROVE  Intact!Zap(meta, o, key)' = Intact!Zap(meta, o, key)
BY ObjectRigid, ZapReadRigid DEF Intact!Zap

LEMMA KeptRigid ==
    ASSUME pool' = pool, NEW p, NEW key
    PROVE  Kept(p, key)' <=> Kept(p, key)
<1>1. UsableNamed(p)' <=> UsableNamed(p)
  BY DEF UsableNamed
<1> QED BY <1>1, ReadRigid DEF Kept

LEMMA KeptDataRigid ==
    ASSUME pool' = pool, NEW dn, NEW id, NEW key
    PROVE  KeptData(dn, id, key)' <=> KeptData(dn, id, key)
<1>1. \A n : Intact!Path(dn, id, key)[n]' = Intact!Path(dn, id, key)[n]
  BY PathRigid
<1>2. \A p : Kept(p, key)' <=> Kept(p, key)
  BY KeptRigid
<1>3. WayKept(dn, id, key, dn.levels - 1)' <=> WayKept(dn, id, key, dn.levels - 1)
  BY <1>1, <1>2 DEF WayKept
<1> QED BY <1>3 DEF KeptData, Has

LEMMA KeptObjectRigid ==
    ASSUME pool' = pool, NEW meta, NEW o, NEW key
    PROVE  KeptObject(meta, o, key)' <=> KeptObject(meta, o, key)
BY KeptDataRigid, ObjectRigid DEF KeptObject

LEMMA KeptZapRigid ==
    ASSUME pool' = pool, NEW dn, NEW key
    PROVE  KeptZap(dn, key)' <=> KeptZap(dn, key)
<1>1. \A i : KeptData(dn, i, key)' <=> KeptData(dn, i, key)
  BY KeptDataRigid
<1> QED BY <1>1, ZapReadRigid DEF KeptZap

LEMMA KeptZapObjectRigid ==
    ASSUME pool' = pool, NEW meta, NEW o, NEW key
    PROVE  KeptZapObject(meta, o, key)' <=> KeptZapObject(meta, o, key)
BY KeptObjectRigid, KeptZapRigid, ObjectRigid DEF KeptZapObject

\* What is said of the directories.
LEMMA MosRigid ==
    ASSUME pool' = pool, NEW o
    PROVE  MosDn(o)' = MosDn(o) /\ MosEntries(o)' = MosEntries(o)
           /\ Bp(o)' = Bp(o)
<1>1. Intact!Object(pool.mos, o, None)' = Intact!Object(pool.mos, o, None)
  BY ObjectRigid
<1>2. Intact!Zap(pool.mos, o, None)' = Intact!Zap(pool.mos, o, None)
  BY ZapRigid
<1> QED BY <1>1, <1>2 DEF MosDn, MosEntries, Bp

LEMMA DirRigid ==
    ASSUME pool' = pool, NEW d
    PROVE  /\ SnapEntries(d)' = SnapEntries(d) /\ Crypto(d)' = Crypto(d)
           /\ ChildrenSound(d)' <=> ChildrenSound(d)
           /\ HeadSound(d)' <=> HeadSound(d)
           /\ KeySound(d)' <=> KeySound(d)
           /\ \A snap : DatasetObjects(d, snap)' = DatasetObjects(d, snap)
<1>0. \A o : MosDn(o)' = MosDn(o) /\ MosEntries(o)' = MosEntries(o)
  BY MosRigid
<1>1. \A o : /\ KeptZapObject(pool.mos, o, None)' <=> KeptZapObject(pool.mos, o, None)
             /\ KeptObject(pool.mos, o, None)' <=> KeptObject(pool.mos, o, None)
  BY KeptZapObjectRigid, KeptObjectRigid
<1>2. SnapEntries(d)' = SnapEntries(d)
  BY <1>0 DEF SnapEntries
<1>3. Crypto(d)' = Crypto(d)
  BY <1>0, ZapReadRigid DEF Crypto
<1>4. ChildrenSound(d)' <=> ChildrenSound(d)
  BY <1>0, <1>1 DEF ChildrenSound
<1>5. HeadSound(d)' <=> HeadSound(d)
  BY <1>0, <1>1, <1>2 DEF HeadSound
<1>6. KeySound(d)' <=> KeySound(d)
  BY <1>0, <1>1, <1>3 DEF KeySound
<1>7. \A snap : DatasetObjects(d, snap)' = DatasetObjects(d, snap)
  BY <1>0, <1>2 DEF DatasetObjects
<1> QED BY <1>2, <1>3, <1>4, <1>5, <1>6, <1>7

\* What is said of the datasets and the files.
LEMMA FileRigid ==
    ASSUME pool' = pool, NEW f, NEW meta, NEW key
    PROVE  /\ MasterOf(meta, key)' = MasterOf(meta, key)
           /\ SaOf(meta, key)' <=> SaOf(meta, key)
           /\ FolderSound(f, meta, key)' <=> FolderSound(f, meta, key)
           /\ FileSound(f, meta, key)' <=> FileSound(f, meta, key)
<1>1. \A o : /\ Intact!Zap(meta, o, key)' = Intact!Zap(meta, o, key)
             /\ Intact!Object(meta, o, key)' = Intact!Object(meta, o, key)
             /\ KeptZapObject(meta, o, key)' <=> KeptZapObject(meta, o, key)
             /\ KeptObject(meta, o, key)' <=> KeptObject(meta, o, key)
  BY ZapRigid, ObjectRigid, KeptZapObjectRigid, KeptObjectRigid
<1>2. MasterOf(meta, key)' = MasterOf(meta, key)
  BY <1>1 DEF MasterOf
<1>3. SaOf(meta, key)' <=> SaOf(meta, key)
  BY <1>2 DEF SaOf
<1>4. \A d, snap : FilesOf(d, snap)' = FilesOf(d, snap)
  BY DEF FilesOf
<1>5. \A dn : attrs(dn, SaOf(meta, key)') = attrs(dn, SaOf(meta, key))
  BY <1>3 DEF attrs
<1>6. FolderSound(f, meta, key)' <=> FolderSound(f, meta, key)
  BY <1>1, <1>4, <1>5 DEF FolderSound
<1>7. \A dn, id : /\ BlockOf(dn, id, key)' = BlockOf(dn, id, key)
                  /\ KeptData(dn, id, key)' <=> KeptData(dn, id, key)
  BY DataRigid, KeptDataRigid DEF BlockOf
<1>8. \A dn, pos : ByteAt(dn, pos, key)' = ByteAt(dn, pos, key)
  BY <1>7 DEF ByteAt
<1>9. FileSound(f, meta, key)' <=> FileSound(f, meta, key)
  BY <1>1, <1>5, <1>7, <1>8 DEF FileSound, DataSound
<1> QED BY <1>2, <1>3, <1>6, <1>9

LEMMA DatasetRigid ==
    ASSUME pool' = pool, NEW d, NEW o
    PROVE  /\ KeyOf(d, o)' = KeyOf(d, o) /\ Objset(d, o)' = Objset(d, o)
           /\ \A snap : DatasetSound(d, snap, o)' <=> DatasetSound(d, snap, o)
<1>1. Bp(o)' = Bp(o)
  BY MosRigid
<1>2. KeyOf(d, o)' = KeyOf(d, o)
  BY <1>1 DEF KeyOf
<1>3. Objset(d, o)' = Objset(d, o)
  BY <1>1, <1>2, ReadRigid DEF Objset
<1>4. \A snap : FilesOf(d, snap)' = FilesOf(d, snap)
  BY DEF FilesOf
<1>5. \A f, meta, key : /\ FolderSound(f, meta, key)' <=> FolderSound(f, meta, key)
                        /\ FileSound(f, meta, key)' <=> FileSound(f, meta, key)
                        /\ MasterOf(meta, key)' = MasterOf(meta, key)
                        /\ KeptZapObject(meta, 1, key)' <=> KeptZapObject(meta, 1, key)
                        /\ KeptObject(meta, f.object, key)' <=> KeptObject(meta, f.object, key)
  BY FileRigid, KeptZapObjectRigid, KeptObjectRigid
<1>6. \A snap, meta, key : TreeSound(d, snap, meta, key)' <=> TreeSound(d, snap, meta, key)
  BY <1>4, <1>5 DEF TreeSound
<1>7. \A p, key : Kept(p, key)' <=> Kept(p, key)
  BY KeptRigid
<1>8. \A snap : DatasetSound(d, snap, o)' <=> DatasetSound(d, snap, o)
  BY <1>1, <1>2, <1>3, <1>4, <1>6, <1>7 DEF DatasetSound
<1> QED BY <1>2, <1>3, <1>8

LEMMA SoundRigid ==
    ASSUME pool' = pool, PoolSound
    PROVE  PoolSound'
<1>1. \A o : MosDn(o)' = MosDn(o) /\ MosEntries(o)' = MosEntries(o)
  BY MosRigid
<1>2. \A o : KeptZapObject(pool.mos, o, None)' <=> KeptZapObject(pool.mos, o, None)
  BY KeptZapObjectRigid
<1>3. \A d : DirSound(d)' <=> DirSound(d)
  <2>1. \A d : /\ ChildrenSound(d)' <=> ChildrenSound(d)
               /\ HeadSound(d)' <=> HeadSound(d)
               /\ KeySound(d)' <=> KeySound(d)
               /\ \A snap : DatasetObjects(d, snap)' = DatasetObjects(d, snap)
    BY DirRigid
  <2>2. \A d, snap, o : DatasetSound(d, snap, o)' <=> DatasetSound(d, snap, o)
    BY DatasetRigid
  <2> QED BY <1>1, <1>2, <2>1, <2>2 DEF DirSound
<1> QED BY <1>1, <1>2, <1>3 DEF PoolSound

-----------------------------------------------------------------------------
(* Names, and the directories that the visible ones reach.                 *)

LEMMA DenotesRoot ==
    ASSUME pool.root \in DOMAIN pool.dirs
    PROVE  Denotes(<<>>, pool.root)
<1> DEFINE way == [i \in 0..0 |-> pool.root]
<1>1. way \in [0..Len(<<>>) -> DOMAIN pool.dirs] /\ way[0] = pool.root
      /\ way[Len(<<>>)] = pool.root
  OBVIOUS
<1>2. \A i \in 1..Len(<<>>) : FALSE
  OBVIOUS
<1> HIDE DEF way
<1> QED BY <1>1, <1>2 DEF Denotes

LEMMA DenotesChild ==
    ASSUME NEW name \in Seq(STRING), NEW d, Denotes(name, d),
           NEW n \in STRING, n \in DOMAIN pool.dirs[d].child,
           pool.dirs[d].child[n] \in DOMAIN pool.dirs
    PROVE  Denotes(Append(name, n), pool.dirs[d].child[n])
<1>1. PICK way \in [0..Len(name) -> DOMAIN pool.dirs] :
        /\ way[0] = pool.root /\ way[Len(name)] = d
        /\ \A i \in 1..Len(name) :
              /\ name[i] \in DOMAIN pool.dirs[way[i - 1]].child
              /\ way[i] = pool.dirs[way[i - 1]].child[name[i]]
  BY DEF Denotes
<1> DEFINE long == Append(name, n)
           L == Len(name)
           w == [i \in 0..(L + 1) |-> IF i = L + 1 THEN pool.dirs[d].child[n] ELSE way[i]]
<1>2. L \in Nat /\ Len(long) = L + 1 /\ long[L + 1] = n /\ \A i \in 1..L : long[i] = name[i]
  OBVIOUS
<1>3. w \in [0..Len(long) -> DOMAIN pool.dirs]
  BY <1>2
<1>4. w[0] = pool.root /\ w[Len(long)] = pool.dirs[d].child[n]
  BY <1>1, <1>2
<1>5. ASSUME NEW i \in 1..Len(long)
      PROVE  /\ long[i] \in DOMAIN pool.dirs[w[i - 1]].child
             /\ w[i] = pool.dirs[w[i - 1]].child[long[i]]
  <2>1. CASE i = L + 1
    <3>1. w[i - 1] = d /\ w[i] = pool.dirs[d].child[n] /\ long[i] = n
      BY <1>1, <1>2, <2>1
    <3> QED BY <3>1
  <2>2. CASE i # L + 1
    <3>1. i \in 1..L /\ w[i - 1] = way[i - 1] /\ w[i] = way[i] /\ long[i] = name[i]
      BY <1>2, <2>2
    <3> QED BY <1>1, <3>1
  <2> QED BY <2>1, <2>2
<1> HIDE DEF w, long
<1>6. Denotes(long, pool.dirs[d].child[n])
  BY <1>3, <1>4, <1>5 DEF Denotes
<1> QED BY <1>6 DEF long

\* A name leads to one directory.
LEMMA DenotesOne ==
    ASSUME NEW name \in Seq(STRING), NEW d, NEW e, Denotes(name, d), Denotes(name, e)
    PROVE  d = e
<1>1. PICK v \in [0..Len(name) -> DOMAIN pool.dirs] :
        /\ v[0] = pool.root /\ v[Len(name)] = d
        /\ \A i \in 1..Len(name) : v[i] = pool.dirs[v[i - 1]].child[name[i]]
  BY DEF Denotes
<1>2. PICK w \in [0..Len(name) -> DOMAIN pool.dirs] :
        /\ w[0] = pool.root /\ w[Len(name)] = e
        /\ \A i \in 1..Len(name) : w[i] = pool.dirs[w[i - 1]].child[name[i]]
  BY DEF Denotes
<1> DEFINE G == {i \in 0..Len(name) : v[i] = w[i]}
<1>3. Len(name) \in Nat
  OBVIOUS
<1>4. 0 \in G
  BY <1>1, <1>2, <1>3
<1>5. ASSUME NEW n \in 1..Len(name), n - 1 \in G
      PROVE  n \in G
  <2>1. n \in 0..Len(name) /\ v[n - 1] = w[n - 1]
    BY <1>3, <1>5
  <2>2. v[n] = pool.dirs[v[n - 1]].child[name[n]] /\ w[n] = pool.dirs[w[n - 1]].child[name[n]]
    BY <1>1, <1>2
  <2> QED BY <2>1, <2>2
<1> HIDE DEF G
<1>6. \A n \in 0..Len(name) : n \in G
  BY <1>3, <1>4, <1>5, StepUp
<1>7. Len(name) \in G
  BY <1>3, <1>6
<1> QED BY <1>1, <1>2, <1>7 DEF G

LEMMA ReachRoot ==
    ASSUME pool.root \in DOMAIN pool.dirs
    PROVE  pool.root \in Reachable
BY DEF Reachable

LEMMA ReachChild ==
    ASSUME NEW d \in Reachable, NEW n \in DOMAIN pool.dirs[d].child, n \notin Hidden,
           pool.dirs[d].child[n] \in DOMAIN pool.dirs
    PROVE  pool.dirs[d].child[n] \in Reachable
BY DEF Reachable, Closed

LEMMA ReachLeast ==
    ASSUME NEW S \in SUBSET DOMAIN pool.dirs, pool.root \in S, Closed(S)
    PROVE  Reachable \subseteq S
BY DEF Reachable

-----------------------------------------------------------------------------
(* The queue of the walk.                                                  *)

\* The number of a set's elements up to each of them.
LEMMA RankOnto ==
    ASSUME NEW S, IsFiniteSet(S), \A x \in S : pool.order[x[1]] \in Int,
           \A x, y \in S : pool.order[x[1]] = pool.order[y[1]] => x = y
    PROVE  /\ Cardinality(S) \in Nat
           /\ \A i \in 1..Cardinality(S) : \E x \in S : Rank(x, S) = i
           /\ \A x \in S : Rank(x, S) \in 1..Cardinality(S)
           /\ \A x, y \in S : Rank(x, S) = Rank(y, S) => x = y
<1> DEFINE Upto(x) == {y \in S : pool.order[y[1]] <= pool.order[x[1]]}
           n == Cardinality(S)
<1>0. n \in Nat
  BY FS_CardinalityType
<1>1. \A x \in S : Rank(x, S) = Cardinality(Upto(x))
  BY DEF Rank
<1>2. \A x \in S : /\ IsFiniteSet(Upto(x)) /\ Cardinality(Upto(x)) \in Nat
                   /\ Cardinality(Upto(x)) <= n
  <2>1. \A x \in S : Upto(x) \in SUBSET S
    OBVIOUS
  <2> HIDE DEF Upto
  <2> QED BY <2>1, FS_Subset, FS_CardinalityType
<1>3. \A x \in S : Cardinality(Upto(x)) # 0
  <2>1. \A x \in S : x \in Upto(x)
    OBVIOUS
  <2> HIDE DEF Upto
  <2> QED BY <1>2, <2>1, FS_EmptySet
<1>4. ASSUME NEW x \in S, NEW y \in S, pool.order[x[1]] < pool.order[y[1]]
      PROVE  Cardinality(Upto(x)) < Cardinality(Upto(y))
  <2>1. Upto(x) \in SUBSET Upto(y) /\ y \in Upto(y) /\ y \notin Upto(x)
    BY <1>4
  <2> HIDE DEF Upto
  <2>2. Upto(x) # Upto(y)
    BY <2>1
  <2>3. /\ Cardinality(Upto(x)) <= Cardinality(Upto(y))
        /\ Cardinality(Upto(x)) = Cardinality(Upto(y)) => Upto(x) = Upto(y)
    BY <1>2, <2>1, FS_Subset
  <2> QED BY <1>2, <2>2, <2>3
<1>5. \A x, y \in S : Rank(x, S) = Rank(y, S) => x = y
  <2> SUFFICES ASSUME NEW x \in S, NEW y \in S, Rank(x, S) = Rank(y, S), x # y
               PROVE  FALSE
    OBVIOUS
  <2>1. pool.order[x[1]] < pool.order[y[1]] \/ pool.order[y[1]] < pool.order[x[1]]
    OBVIOUS
  <2>2. Cardinality(Upto(x)) = Cardinality(Upto(y)) /\ Cardinality(Upto(x)) \in Nat
    BY <1>1, <1>2
  <2> HIDE DEF Upto
  <2> QED BY <1>4, <2>1, <2>2
<1>6. \A x \in S : Rank(x, S) \in 1..n
  <2> HIDE DEF Upto, n
  <2> QED BY <1>0, <1>1, <1>2, <1>3
<1> DEFINE r == [x \in S |-> Rank(x, S)]
           T == {Rank(x, S) : x \in S}
<1> HIDE DEF Upto
<1>7. r \in Bijection(S, T)
  BY <1>5 DEF Bijection, Injection, Surjection, IsInjective
<1>8. IsFiniteSet(T) /\ Cardinality(T) = n
  <2> HIDE DEF r, T
  <2> QED BY <1>7, FS_Bijection DEF ExistsBijection
<1>9. IsFiniteSet(1..n) /\ Cardinality(1..n) = n
  BY <1>0, FS_Interval
<1>10. T \in SUBSET (1..n)
  BY <1>6
<1>11. T = 1..n
  <2> HIDE DEF T, n
  <2> QED BY <1>8, <1>9, <1>10, FS_Subset
<1> QED BY <1>0, <1>5, <1>6, <1>11

Pairs(child) == {<<n, child[n]>> : n \in DOMAIN child}

QueuedAs(queued, child, name) ==
    /\ DOMAIN queued = 1..Len(queued) /\ Len(queued) \in Nat
    /\ \A i \in 1..Len(queued) : \E n \in DOMAIN child \ Hidden :
          queued[i] = [dir |-> child[n], name |-> Append(name, n)]
    /\ \A n \in DOMAIN child \ Hidden : \E i \in 1..Len(queued) :
          queued[i] = [dir |-> child[n], name |-> Append(name, n)]

\* Every visible child is queued, and nothing else.
LEMMA QueuedIs ==
    ASSUME NEW child, NEW name, IsFiniteSet(DOMAIN child),
           \A n \in DOMAIN child :
              /\ pool.order[n] \in Int
              /\ \A m \in DOMAIN child : pool.order[n] = pool.order[m] => n = m
    PROVE  QueuedAs(Queued(Pairs(child), name), child, name)
<1> DEFINE children == Pairs(child)
           shown == {c \in children : c[1] \notin Hidden}
           N == Cardinality(shown)
           Pick(i) == CHOOSE x \in shown : Rank(x, shown) = i
           queued == Queued(children, name)
<1>1. IsFiniteSet(children)
  <2> DEFINE g == [n \in DOMAIN child |-> <<n, child[n]>>]
  <2>1. g \in Surjection(DOMAIN child, children)
    BY DEF Surjection, Pairs
  <2> HIDE DEF g, children
  <2> QED BY <2>1, FS_Surjection
<1>2. IsFiniteSet(shown)
  <2>1. shown \in SUBSET children
    OBVIOUS
  <2> HIDE DEF shown, children
  <2> QED BY <1>1, <2>1, FS_Subset
<1>3. \A x \in shown : x[1] \in DOMAIN child \ Hidden /\ x = <<x[1], child[x[1]]>>
  BY DEF Pairs
<1>4. \A n \in DOMAIN child \ Hidden : <<n, child[n]>> \in shown
  BY DEF Pairs
<1>5. queued = [i \in 1..N |-> [dir |-> Pick(i)[2], name |-> Append(name, Pick(i)[1])]]
  BY DEF Queued
<1> HIDE DEF shown, children, queued
<1>6. /\ \A x \in shown : pool.order[x[1]] \in Int
      /\ \A x, y \in shown : pool.order[x[1]] = pool.order[y[1]] => x = y
  BY <1>3
<1>7. /\ N \in Nat
      /\ \A i \in 1..N : \E x \in shown : Rank(x, shown) = i
      /\ \A x \in shown : Rank(x, shown) \in 1..N
      /\ \A x, y \in shown : Rank(x, shown) = Rank(y, shown) => x = y
  BY <1>2, <1>6, RankOnto
<1>8. \A i \in 1..N : Pick(i) \in shown /\ Rank(Pick(i), shown) = i
  BY <1>7
<1>9. DOMAIN queued = 1..N /\ Len(queued) = N
  BY <1>5, <1>7
<1> HIDE DEF N, Pick
<1>10. ASSUME NEW i \in 1..N
       PROVE  \E n \in DOMAIN child \ Hidden :
                 queued[i] = [dir |-> child[n], name |-> Append(name, n)]
  <2>1. queued[i] = [dir |-> Pick(i)[2], name |-> Append(name, Pick(i)[1])]
    BY <1>5
  <2>2. /\ Pick(i)[1] \in DOMAIN child \ Hidden
        /\ Pick(i) = <<Pick(i)[1], child[Pick(i)[1]]>>
    BY <1>3, <1>8
  <2>3. Pick(i)[2] = child[Pick(i)[1]]
    BY <2>2
  <2> QED BY <2>1, <2>2, <2>3
<1>11. ASSUME NEW n \in DOMAIN child \ Hidden
       PROVE  \E i \in 1..N : queued[i] = [dir |-> child[n], name |-> Append(name, n)]
  <2> DEFINE x == <<n, child[n]>>
             i == Rank(x, shown)
  <2>1. x \in shown
    BY <1>4
  <2>2. i \in 1..N /\ Pick(i) = x
    BY <1>7, <1>8, <2>1
  <2>3. x[1] = n /\ x[2] = child[n]
    OBVIOUS
  <2> HIDE DEF x, i
  <2>4. queued[i] = [dir |-> Pick(i)[2], name |-> Append(name, Pick(i)[1])]
    BY <1>5, <2>2
  <2> QED BY <2>2, <2>3, <2>4
<1> QED BY <1>7, <1>9, <1>10, <1>11 DEF queued, children, QueuedAs

-----------------------------------------------------------------------------
(* What a command knows at each of its steps.                              *)

\* The dataset or snapshot that c names is object o, of directory d.
Site(c, d, o) ==
    /\ d \in DOMAIN pool.dirs /\ pool.dirs[d].head # 0 /\ Denotes(c.ds, d)
    /\ c.snap \in {None} \cup pool.dirs[d].snaps
    /\ o \in DatasetObjects(d, c.snap)

Openable(d, o) == Bp(o).crypt => pool.dirs[d].key # None
MetaOf(d, o) == Objset(d, o).meta

\* It has files, and c has its key.
Opened(c, d, o) ==
    Site(c, d, o) /\ Openable(d, o) /\ Objset(d, o).type = "zfs" /\ c.key = KeyOf(d, o)

\* The file that c names, and its dnode.
Target(c, d, o, f) == Opened(c, d, o) /\ f \in FilesOf(d, c.snap) /\ f.path = c.path
DnOf(d, o, f) == Intact!Object(MetaOf(d, o), f.object, KeyOf(d, o))

FileOps == {"list", "extract", "treefile", "small", "image"}

QueueDirs(q) == {q[i].dir : i \in DOMAIN q}

\* A directory in the queue of the walk, and one on its list.
Waiting == {w \in [dir : Reachable, name : Seq(STRING)] : Denotes(w.name, w.dir)}
Listed == {r \in [name : Seq(STRING), dir : Reachable, head : {pool.dirs[d].head : d \in Reachable}] :
             Denotes(r.name, r.dir) /\ r.head = pool.dirs[r.dir].head /\ r.head # 0}

\* Every visible child of a directory that was seen was seen or waits; every
\* directory that was seen is listed, once, if it has a head.
WalkOK(s) ==
    /\ s = [at |-> "walk", queue |-> s.queue, seen |-> s.seen, listed |-> s.listed]
    /\ s.queue \in Seq(Waiting) /\ s.seen \in SUBSET Reachable /\ s.listed \in SUBSET Listed
    /\ pool.root \in s.seen \cup QueueDirs(s.queue)
    /\ \A d \in s.seen : \A n \in DOMAIN pool.dirs[d].child : n \notin Hidden =>
          pool.dirs[d].child[n] \in s.seen \cup QueueDirs(s.queue)
    /\ \A d \in s.seen : pool.dirs[d].head # 0 => \E r \in s.listed : r.dir = d
    /\ \A r \in s.listed : r.dir \in s.seen
    /\ \A q, r \in s.listed : q.dir = r.dir => q = r

SelectedOK(s) ==
    /\ s = [at |-> "selected", dir |-> s.dir, snap |-> s.snap, object |-> s.object]
    /\ s.snap = call.snap /\ Site(call, s.dir, s.object) /\ call.op # "inspect"

\* The key of the directory that the search has come to is the dataset's.
ClimbOK(s) ==
    /\ s = [at |-> "climb", from |-> s.from, bp |-> s.bp, dir |-> s.dir, seen |-> s.seen]
    /\ SelectedOK(s.from) /\ s.bp = Bp(s.from.object) /\ s.bp.crypt
    /\ s.dir # 0 => /\ s.dir \in DOMAIN pool.dirs
                    /\ pool.dirs[s.dir].key = pool.dirs[s.from.dir].key

CryptoOK(s) ==
    /\ SelectedOK(s.from) /\ s.bp = Bp(s.from.object) /\ s.bp.crypt
    /\ KeptZapObject(pool.mos, s.object, None)
    /\ zap_lookup(MosEntries(s.object), "wrapped") = pool.dirs[s.from.dir].key
    /\ pool.dirs[s.from.dir].key \in Key

KeyedOK(s) ==
    /\ SelectedOK(s.from) /\ s.bp = Bp(s.from.object)
    /\ s.key = KeyOf(s.from.dir, s.from.object) /\ s.key = call.key
    /\ Openable(s.from.dir, s.from.object) /\ call.op # "require"

ViewOK(v, d, o) ==
    /\ Opened(call, d, o)
    /\ v.meta = MetaOf(d, o) /\ v.key = KeyOf(d, o) /\ v.snap = call.snap
    /\ v.sa <=> SaOf(v.meta, v.key)

\* The components that are left lead on from a file of the dataset.
ResolveOK(s) ==
    /\ s = [at |-> "resolve", left |-> s.left, object |-> s.object, type |-> s.type,
            view |-> s.view]
    /\ call.op \in FileOps /\ s.left \in Seq(STRING)
    /\ \E d, o : /\ ViewOK(s.view, d, o)
                 /\ \E f \in FilesOf(d, call.snap) :
                       /\ f.path \in Seq(STRING) /\ f.path \o s.left = call.path
                       /\ f.object = s.object /\ f.type = s.type

\* The first bytes of a file.
Begins(b, bytes) == Len(b) <= Len(bytes) /\ \A i \in 1..Len(b) : b[i] = bytes[i]

\* Nothing but damage to an unprotected block spoils what is read, and
\* nothing but a short leaf what read_small_file returns.
Certain(f) == ~Unprotected(f) /\ (call.op = "small" => ~f.short_leaf)

\* Whole blocks of the file's first bytes, or all of them.
PartOf(b, bytes, blksz) ==
    /\ b \in Seq(Nat) /\ Begins(b, bytes)
    /\ Len(b) = Len(bytes) \/ \E q \in Nat : Len(b) = q * blksz
BufferOK(b, f, blksz) == Certain(f) /\ f.type = "file" => PartOf(b, f.bytes, blksz)

FileOK(s) ==
    /\ s = [at |-> s.at, dn |-> s.dn, size |-> s.size, view |-> s.view,
            object |-> s.object, buffer |-> s.buffer]
    /\ call.op \in FileOps
    /\ \/ s.at = call.op
       \/ /\ s.at = "sidecar" /\ call.op = "extract"
          /\ output = s.buffer /\ Len(s.buffer) = s.size
    /\ \E d, o, f : /\ ViewOK(s.view, d, o) /\ Target(call, d, o, f)
                    /\ s.object = f.object /\ s.dn = DnOf(d, o, f)
                    /\ s.size = attrs(s.dn, s.view.sa)
                    /\ f.type = WantedType(call)
                    /\ BufferOK(s.buffer, f, s.dn.blksz)

HandleOf(h, d, o, f) ==
    /\ Target(h, d, o, f) /\ f.type = "file"
    /\ h.dn = DnOf(d, o, f) /\ h.size = Len(f.bytes)
    /\ h.ds \in Seq(STRING) /\ h.snap \in Nat \cup {None} /\ h.path \in Seq(STRING)
    /\ h.key \in Key \cup {None}

HandleOK == handle # None => \E d, o, f : HandleOf(handle, d, o, f)

ReadOK(s) ==
    /\ s = [at |-> "read", buffer |-> s.buffer] /\ call.op = "read"
    /\ call.ds = handle.ds /\ call.snap = handle.snap
    /\ call.path = handle.path /\ call.key = handle.key
    /\ \E d, o, f : /\ HandleOf(handle, d, o, f)
                    /\ ~Unprotected(f) =>
                         /\ s.buffer \in Seq(Nat) /\ Len(s.buffer) <= call.count
                         /\ \A i \in 1..Len(s.buffer) : s.buffer[i] = f.bytes[call.offset + i]

StepOK(s) ==
    /\ s.at \in {"idle", "start", "walk", "selected", "climb", "crypto", "keyed", "resolve",
                 "sidecar", "read"} \cup FileOps
    /\ s.at = "start" => call.op # "read"
    /\ s.at = "walk" => WalkOK(s) /\ call.op # "read"
    /\ s.at = "selected" => SelectedOK(s) /\ call.op # "read"
    /\ s.at = "climb" => ClimbOK(s) /\ call.op # "read"
    /\ s.at = "crypto" => CryptoOK(s) /\ call.op # "read"
    /\ s.at = "keyed" => KeyedOK(s) /\ call.op # "read"
    /\ s.at = "resolve" => ResolveOK(s)
    /\ s.at \in FileOps \cup {"sidecar"} => FileOK(s)
    /\ s.at = "read" => ReadOK(s)

-----------------------------------------------------------------------------
(* What the result of a command is right about.                            *)

DeliveredOf(r) ==
    r.call.op \in {"extract", "treefile", "small", "read"} =>
        \E f \in Named(r.call) :
            /\ f.type = "file"
            /\ Len(r.value) = Len(Bytes(f, r.call))
            /\ \/ r.value = Bytes(f, r.call)
               \/ Unprotected(f)
               \/ r.call.op = "small" /\ f.short_leaf

ListingOf(r) ==
    r.call.op = "list" =>
        \E f \in Named(r.call) :
            /\ f.type = "dir"
            /\ {[name |-> e.name, type |-> e.type] : e \in r.value}
                 = {[name |-> e.name, type |-> e.type] : e \in f.entries}
            /\ \A e \in r.value :
                 e \in f.entries \/ (e.size = None /\ ~EveryBlockHasACopy)

CatalogOf(r) ==
    r.call.op = "inspect" =>
        LET heads == {d \in Reachable : pool.dirs[d].head # 0}
        IN  /\ {x.dir : x \in r.value} = heads
            /\ Cardinality(r.value) = Cardinality(heads)
            /\ \A x \in r.value :
                 Denotes(x.name, x.dir) /\ x.snaps = pool.dirs[x.dir].snaps

KeyRight(r) ==
    r.call.op # "inspect" =>
        \A f \in Within(r.call) :
            f.key = IF r.call.op = "require" THEN r.value ELSE r.call.key

ResultOf(r) == DeliveredOf(r) /\ ListingOf(r) /\ CatalogOf(r) /\ KeyRight(r)

ResultOK == result.why = "done" => ResultOf(result)

\* A sidecar names a file that has these bytes, or had no checksum.
Certifies(s) ==
    s # NoSidecar => \E f \in pool.files : /\ f.snap = s.snap /\ f.path = s.path
                                           /\ f.bytes = s.sha256 \/ Unprotected(f)

OutputOK ==
    /\ OutputIsWhole /\ Certifies(sidecar)
    /\ Done({"extract"}) =>
         IF result.call.snap = None THEN sidecar = NoSidecar
         ELSE sidecar.snap = result.call.snap /\ sidecar.sha256 = output

\* The inductive invariant.
PoolInv ==
    /\ pool \in Pools /\ PoolSound
    /\ calls \in 0..MaxCalls /\ call \in Command
    /\ StepOK(step) /\ HandleOK
    /\ step # Idle => result = NoResult /\ call.op # "none"
    /\ ResultOK /\ OutputOK

-----------------------------------------------------------------------------
(* These, too, are about the pool as it was written.                       *)

LEMMA SiteRigid ==
    ASSUME pool' = pool, NEW c, NEW d, NEW o
    PROVE  /\ Site(c, d, o)' <=> Site(c, d, o)
           /\ Openable(d, o)' <=> Openable(d, o)
           /\ MetaOf(d, o)' = MetaOf(d, o)
           /\ Opened(c, d, o)' <=> Opened(c, d, o)
           /\ \A f : /\ Target(c, d, o, f)' <=> Target(c, d, o, f)
                     /\ DnOf(d, o, f)' = DnOf(d, o, f)
<1>1. \A snap : DatasetObjects(d, snap)' = DatasetObjects(d, snap)
  BY DirRigid
<1>2. Bp(o)' = Bp(o) /\ KeyOf(d, o)' = KeyOf(d, o) /\ Objset(d, o)' = Objset(d, o)
  BY MosRigid, DatasetRigid
<1>3. Site(c, d, o)' <=> Site(c, d, o)
  BY <1>1 DEF Site, Denotes
<1>4. Openable(d, o)' <=> Openable(d, o)
  BY <1>2 DEF Openable
<1>5. MetaOf(d, o)' = MetaOf(d, o)
  BY <1>2 DEF MetaOf
<1>6. Opened(c, d, o)' <=> Opened(c, d, o)
  BY <1>2, <1>3, <1>4 DEF Opened
<1>7. ASSUME NEW f
      PROVE  /\ Target(c, d, o, f)' <=> Target(c, d, o, f)
             /\ DnOf(d, o, f)' = DnOf(d, o, f)
  <2>1. DnOf(d, o, f)' = DnOf(d, o, f)
    BY <1>2, <1>5, ObjectRigid DEF DnOf
  <2>2. Target(c, d, o, f)' <=> Target(c, d, o, f)
    BY <1>6 DEF Target, FilesOf
  <2> QED BY <2>1, <2>2
<1> QED BY <1>3, <1>4, <1>5, <1>6, <1>7

LEMMA HandleRigid ==
    ASSUME pool' = pool, NEW h, NEW d, NEW o, NEW f
    PROVE  HandleOf(h, d, o, f)' <=> HandleOf(h, d, o, f)
BY SiteRigid DEF HandleOf

LEMMA WalkRigid ==
    ASSUME pool' = pool, NEW s
    PROVE  WalkOK(s)' <=> WalkOK(s)
<1>1. Reachable' = Reachable
  BY DEF Reachable, Closed
<1>2. \A name, d : Denotes(name, d)' <=> Denotes(name, d)
  BY DEF Denotes
<1>3. Waiting' = Waiting /\ Listed' = Listed
  BY <1>1, <1>2 DEF Waiting, Listed
<1> QED BY <1>1, <1>3 DEF WalkOK

LEMMA SelectedRigid ==
    ASSUME pool' = pool, call' = call, NEW s
    PROVE  SelectedOK(s)' <=> SelectedOK(s)
BY SiteRigid DEF SelectedOK

LEMMA KeyStepsRigid ==
    ASSUME pool' = pool, call' = call, NEW s
    PROVE  /\ ClimbOK(s)' <=> ClimbOK(s)
           /\ CryptoOK(s)' <=> CryptoOK(s)
           /\ KeyedOK(s)' <=> KeyedOK(s)
<1>1. \A x : SelectedOK(x)' <=> SelectedOK(x)
  BY SelectedRigid
<1>2. \A o : Bp(o)' = Bp(o) /\ MosEntries(o)' = MosEntries(o)
  BY MosRigid
<1>3. \A o : KeptZapObject(pool.mos, o, None)' <=> KeptZapObject(pool.mos, o, None)
  BY KeptZapObjectRigid
<1>4. \A d, o : KeyOf(d, o)' = KeyOf(d, o) /\ (Openable(d, o)' <=> Openable(d, o))
  BY DatasetRigid, SiteRigid
<1>5. ClimbOK(s)' <=> ClimbOK(s)
  BY <1>1, <1>2 DEF ClimbOK
<1>6. CryptoOK(s)' <=> CryptoOK(s)
  BY <1>1, <1>2, <1>3 DEF CryptoOK
<1>7. KeyedOK(s)' <=> KeyedOK(s)
  BY <1>1, <1>2, <1>4 DEF KeyedOK
<1> QED BY <1>5, <1>6, <1>7

LEMMA ViewRigid ==
    ASSUME pool' = pool, call' = call, NEW v, NEW d, NEW o
    PROVE  ViewOK(v, d, o)' <=> ViewOK(v, d, o)
<1>1. \A c : Opened(c, d, o)' <=> Opened(c, d, o)
  BY SiteRigid
<1>2. MetaOf(d, o)' = MetaOf(d, o) /\ KeyOf(d, o)' = KeyOf(d, o)
  BY SiteRigid, DatasetRigid
<1>3. \A meta, key : SaOf(meta, key)' <=> SaOf(meta, key)
  BY FileRigid
<1> QED BY <1>1, <1>2, <1>3 DEF ViewOK

LEMMA FileStepsRigid ==
    ASSUME pool' = pool, call' = call, handle' = handle, NEW s
    PROVE  /\ ResolveOK(s)' <=> ResolveOK(s)
           /\ output' = output => (FileOK(s)' <=> FileOK(s))
           /\ ReadOK(s)' <=> ReadOK(s)
<1>1. \A d, o : ViewOK(s.view, d, o)' <=> ViewOK(s.view, d, o)
  BY ViewRigid
<1>2. \A d, snap : FilesOf(d, snap)' = FilesOf(d, snap)
  BY DEF FilesOf
<1>3. \A d, o, f : /\ Target(call, d, o, f)' <=> Target(call, d, o, f)
                   /\ DnOf(d, o, f)' = DnOf(d, o, f)
  BY SiteRigid
<1>4. \A d, o, f : HandleOf(handle, d, o, f)' <=> HandleOf(handle, d, o, f)
  BY HandleRigid
<1>5. \A b, f, n : BufferOK(b, f, n)' <=> BufferOK(b, f, n)
  BY DEF BufferOK, Certain
<1>6. ResolveOK(s)' <=> ResolveOK(s)
  BY <1>1, <1>2 DEF ResolveOK
<1>7. output' = output => (FileOK(s)' <=> FileOK(s))
  BY <1>1, <1>3, <1>5 DEF FileOK
<1>8. ReadOK(s)' <=> ReadOK(s)
  BY <1>4 DEF ReadOK
<1> QED BY <1>6, <1>7, <1>8

LEMMA StepRigid ==
    ASSUME pool' = pool, call' = call, handle' = handle, output' = output, NEW s, StepOK(s)
    PROVE  StepOK(s)'
<1>1. /\ WalkOK(s)' <=> WalkOK(s)
      /\ SelectedOK(s)' <=> SelectedOK(s)
      /\ ClimbOK(s)' <=> ClimbOK(s)
      /\ CryptoOK(s)' <=> CryptoOK(s)
      /\ KeyedOK(s)' <=> KeyedOK(s)
  BY WalkRigid, SelectedRigid, KeyStepsRigid
<1>2. /\ ResolveOK(s)' <=> ResolveOK(s)
      /\ FileOK(s)' <=> FileOK(s)
      /\ ReadOK(s)' <=> ReadOK(s)
  BY FileStepsRigid
<1> QED BY <1>1, <1>2 DEF StepOK

\* A copy that is lost stays lost.
LEMMA LostForGood ==
    ASSUME pool' = pool, DOMAIN damage \subseteq DOMAIN damage', EveryBlockHasACopy'
    PROVE  EveryBlockHasACopy
BY DEF EveryBlockHasACopy

LEMMA ResultRigid ==
    ASSUME pool' = pool, DOMAIN damage \subseteq DOMAIN damage', NEW r, ResultOf(r)
    PROVE  ResultOf(r)'
<1>1. \A name, d : Denotes(name, d)' <=> Denotes(name, d)
  BY DEF Denotes
<1>2. \A c : Within(c)' = Within(c)
  BY <1>1 DEF Within
<1>3. \A c : Named(c)' = Named(c)
  BY <1>2 DEF Named
<1>4. Reachable' = Reachable
  BY DEF Reachable, Closed
<1>5. DeliveredOf(r)'
  BY <1>3 DEF ResultOf, DeliveredOf, Bytes
<1>6. ListingOf(r)'
  BY <1>3, LostForGood DEF ResultOf, ListingOf
<1>7. CatalogOf(r)'
  BY <1>1, <1>4 DEF ResultOf, CatalogOf
<1>8. KeyRight(r)'
  BY <1>2 DEF ResultOf, KeyRight
<1> QED BY <1>5, <1>6, <1>7, <1>8 DEF ResultOf

-----------------------------------------------------------------------------
(* The three ways a step of a command ends.                                *)

Quiet == UNCHANGED <<diskVars, call, fileVars>>

LEMMA HandleKept ==
    ASSUME pool' = pool, handle' = handle, HandleOK
    PROVE  HandleOK'
<1>1. \A d, o, f : HandleOf(handle, d, o, f)' <=> HandleOf(handle, d, o, f)
  BY HandleRigid
<1> QED BY <1>1 DEF HandleOK

LEMMA FailKeeps ==
    ASSUME PoolInv, Quiet, NEW why, why # "done", Return(Failed, why)
    PROVE  PoolInv'
<1>1. /\ pool' = pool /\ call' = call /\ calls' = calls /\ handle' = handle
      /\ output' = output /\ sidecar' = sidecar
  BY DEF Quiet, diskVars, fileVars
<1>2. step' = Idle /\ result'.why # "done"
  BY DEF Return
<1>3. PoolSound'
  BY <1>1, SoundRigid DEF PoolInv
<1>4. HandleOK'
  BY <1>1, HandleKept DEF PoolInv
<1>5. StepOK(step)'
  BY <1>2 DEF StepOK, Idle, FileOps
<1>6. ResultOK'
  BY <1>2 DEF ResultOK
<1>7. OutputOK'
  BY <1>1, <1>2 DEF PoolInv, OutputOK, OutputIsWhole, Certifies, Done, Unprotected
<1> QED BY <1>1, <1>2, <1>3, <1>4, <1>5, <1>6, <1>7 DEF PoolInv

LEMMA ContinueKeeps ==
    ASSUME PoolInv, Quiet, step # Idle, NEW next, StepOK(next), Continue(next)
    PROVE  PoolInv'
<1>1. /\ pool' = pool /\ call' = call /\ calls' = calls /\ handle' = handle
      /\ output' = output /\ sidecar' = sidecar
  BY DEF Quiet, diskVars, fileVars
<1>2. step' = next /\ result' = result
  BY DEF Continue
<1>3. PoolSound'
  BY <1>1, SoundRigid DEF PoolInv
<1>4. HandleOK'
  BY <1>1, HandleKept DEF PoolInv
<1>5. StepOK(next)'
  BY <1>1, StepRigid
<1>6. result = NoResult
  BY DEF PoolInv
<1>7. ResultOK'
  BY <1>2, <1>6 DEF ResultOK, NoResult
<1>8. OutputOK'
  BY <1>1, <1>2 DEF PoolInv, OutputOK, OutputIsWhole, Certifies, Done, Unprotected
<1> QED BY <1>1, <1>2, <1>3, <1>4, <1>5, <1>6, <1>7, <1>8 DEF PoolInv

LEMMA ReturnKeeps ==
    ASSUME PoolInv, Quiet, call.op # "extract", NEW value, Return(value, "done"),
           ResultOf([call |-> call, value |-> value, why |-> "done"])
    PROVE  PoolInv'
<1> DEFINE r == [call |-> call, value |-> value, why |-> "done"]
<1>1. /\ pool' = pool /\ call' = call /\ calls' = calls /\ handle' = handle
      /\ output' = output /\ sidecar' = sidecar /\ damage' = damage
  BY DEF Quiet, diskVars, fileVars
<1>2. step' = Idle /\ result' = r
  BY DEF Return
<1>3. PoolSound'
  BY <1>1, SoundRigid DEF PoolInv
<1>4. HandleOK'
  BY <1>1, HandleKept DEF PoolInv
<1>5. StepOK(step)'
  BY <1>2 DEF StepOK, Idle, FileOps
<1>6. ASSUME NEW x, ResultOf(x)
      PROVE  ResultOf(x)'
  BY <1>1, <1>6, ResultRigid
<1>7. ResultOK'
  <2>1. \E x : x = r /\ ResultOf(x)
    OBVIOUS
  <2>2. \E x : x = result' /\ ResultOf(x)'
    BY <1>2, <1>6, <2>1
  <2> QED BY <2>2 DEF ResultOK
<1>8. result'.call.op # "extract"
  BY <1>2
<1>9. OutputOK'
  BY <1>1, <1>8 DEF PoolInv, OutputOK, OutputIsWhole, Certifies, Done, Unprotected
<1> QED BY <1>1, <1>2, <1>3, <1>4, <1>5, <1>7, <1>9 DEF PoolInv

-----------------------------------------------------------------------------
(* The walk over the directories.                                          *)

LEMMA RunningFacts ==
    ASSUME PoolInv, step.at # "idle"
    PROVE  step # Idle /\ result = NoResult
BY DEF PoolInv, Idle

LEMMA BeginKeeps ==
    ASSUME PoolInv, Begin
    PROVE  PoolInv'
<1> DEFINE root == zap_lookup(MosZap(1), "root_dataset")
<1>1. step.at = "start" /\ WalkFrom(root) /\ Quiet /\ step # Idle
  BY RunningFacts DEF Begin, StartWalk, Quiet, diskVars
<1>2. CASE root \in {Failed, None}
  <2>1. Return(Failed, "source")
    BY <1>1, <1>2 DEF WalkFrom, Fail
  <2> QED BY <1>1, <2>1, FailKeeps
<1>3. CASE root \notin {Failed, None}
  <2> DEFINE w == [dir |-> root, name |-> <<>>]
             next == [at |-> "walk", queue |-> <<w>>, seen |-> {}, listed |-> {}]
  <2>1. PoolSound /\ call.op # "read"
    BY <1>1 DEF PoolInv, StepOK
  <2>2. root = pool.root /\ pool.root \in DOMAIN pool.dirs
    <3>1. Zap(pool.mos, 1, None) \in {Failed, Intact!Zap(pool.mos, 1, None)}
      BY <2>1, ZapKept DEF PoolSound
    <3>2. zap_lookup(Failed, "root_dataset") = Failed
      BY DEF zap_lookup
    <3> QED BY <1>3, <2>1, <3>1, <3>2 DEF PoolSound, MosZap, MosEntries
  <2>3. w \in Waiting
    <3>1. Denotes(<<>>, root) /\ root \in Reachable
      BY <2>2, DenotesRoot, ReachRoot
    <3>2. w \in [dir : Reachable, name : Seq(STRING)] /\ w.name = <<>> /\ w.dir = root
      BY <3>1
    <3> QED BY <3>1, <3>2 DEF Waiting
  <2>4. WalkOK(next)
    <3> HIDE DEF w
    <3>1. <<w>> \in Seq(Waiting) /\ QueueDirs(<<w>>) = {w.dir}
      BY <2>3 DEF QueueDirs
    <3>2. w.dir = pool.root
      BY <2>2 DEF w
    <3> QED BY <3>1, <3>2 DEF WalkOK
  <2>5. StepOK(next)
    BY <2>1, <2>4 DEF StepOK, FileOps
  <2>6. Continue(next)
    BY <1>1, <1>3 DEF WalkFrom
  <2> HIDE DEF next
  <2> QED BY <1>1, <2>5, <2>6, ContinueKeeps
<1> QED BY <1>2, <1>3

LEMMA TailDirs ==
    ASSUME NEW S, NEW q \in Seq(S), q # <<>>
    PROVE  /\ Head(q) \in S /\ Tail(q) \in Seq(S)
           /\ QueueDirs(q) \subseteq {Head(q).dir} \cup QueueDirs(Tail(q))
<1>1. Len(q) # 0 /\ Head(q) = q[1] /\ Head(q) \in S /\ Tail(q) \in Seq(S)
  OBVIOUS
<1>2. Len(q) \in Nat /\ DOMAIN q = 1..Len(q) /\ DOMAIN Tail(q) = 1..(Len(q) - 1)
      /\ \A j \in 1..(Len(q) - 1) : Tail(q)[j] = q[j + 1]
  OBVIOUS
<1>3. ASSUME NEW i \in DOMAIN q, i # 1
      PROVE  i - 1 \in DOMAIN Tail(q) /\ q[i] = Tail(q)[i - 1]
  <2> DEFINE L == Len(q)
  <2>1. L \in Nat /\ i \in 1..L
    BY <1>2
  <2>2. i - 1 \in 1..(L - 1) /\ (i - 1) + 1 = i
    <3> HIDE DEF L
    <3> QED BY <1>3, <2>1
  <2> QED BY <1>2, <2>2
<1> QED BY <1>1, <1>3 DEF QueueDirs

LEMMA JoinDirs ==
    ASSUME NEW S, NEW a \in Seq(S), NEW b \in Seq(S)
    PROVE  /\ a \o b \in Seq(S)
           /\ QueueDirs(a) \cup QueueDirs(b) \subseteq QueueDirs(a \o b)
<1>1. \A i \in DOMAIN a : i \in DOMAIN (a \o b) /\ (a \o b)[i] = a[i]
  OBVIOUS
<1>2. \A i \in DOMAIN b : Len(a) + i \in DOMAIN (a \o b) /\ (a \o b)[Len(a) + i] = b[i]
  OBVIOUS
<1> DEFINE c == a \o b
<1>3. c \in Seq(S)
  OBVIOUS
<1> HIDE DEF c
<1>4. QueueDirs(a) \cup QueueDirs(b) \subseteq QueueDirs(c)
  <2>1. \A i \in DOMAIN a : i \in DOMAIN c /\ c[i] = a[i]
    BY <1>1 DEF c
  <2>2. \A i \in DOMAIN b : Len(a) + i \in DOMAIN c /\ c[Len(a) + i] = b[i]
    BY <1>2 DEF c
  <2> QED BY <2>1, <2>2 DEF QueueDirs
<1> QED BY <1>3, <1>4 DEF c

\* The walk passes over a directory it has seen.
LEMMA WalkPast ==
    ASSUME PoolInv, step.at = "walk", step.queue # <<>>, Head(step.queue).dir \in step.seen
    PROVE  StepOK([step EXCEPT !.queue = Tail(@)])
<1> DEFINE q == step.queue
           next == [at |-> "walk", queue |-> Tail(q), seen |-> step.seen, listed |-> step.listed]
<1>1. WalkOK(step) /\ call.op # "read"
  BY DEF PoolInv, StepOK
<1>2. [step EXCEPT !.queue = Tail(@)] = next
  BY <1>1 DEF WalkOK
<1>3. q \in Seq(Waiting) /\ q # <<>>
  BY <1>1 DEF WalkOK
<1>4. Tail(q) \in Seq(Waiting) /\ QueueDirs(q) \subseteq {Head(q).dir} \cup QueueDirs(Tail(q))
  BY <1>3, TailDirs
<1>6. WalkOK(next)
  <2> HIDE DEF q
  <2>1. next.at = "walk" /\ next.queue = Tail(q) /\ next.seen = step.seen
        /\ next.listed = step.listed
        /\ next = [at |-> "walk", queue |-> next.queue, seen |-> next.seen, listed |-> next.listed]
    OBVIOUS
  <2>2. step.seen \cup QueueDirs(q) \subseteq step.seen \cup QueueDirs(Tail(q))
    BY <1>4 DEF q
  <2> HIDE DEF next
  <2> QED BY <1>1, <1>4, <2>1, <2>2 DEF WalkOK, q
<1>7. StepOK(next)
  <2>1. next.at = "walk"
    OBVIOUS
  <2> HIDE DEF next
  <2> QED BY <1>1, <1>6, <2>1 DEF StepOK, FileOps
<1> QED BY <1>2, <1>7

LEMMA MosObjectKept ==
    ASSUME NEW o, KeptObject(pool.mos, o, None)
    PROVE  /\ MosObject(o) \in {Failed, MosDn(o)} /\ MosDn(o) \notin {None, Failed}
           /\ EveryBlockHasACopy => MosObject(o) = MosDn(o)
BY ObjectKept DEF MosObject, MosDn

LEMMA MosZapKept ==
    ASSUME NEW o, KeptZapObject(pool.mos, o, None)
    PROVE  /\ MosZap(o) \in {Failed, MosEntries(o)} /\ MosEntries(o) # Failed
           /\ EveryBlockHasACopy => MosZap(o) = MosEntries(o)
BY ZapKept DEF MosZap, MosEntries

\* The directory's dnode, its head and its children, as they are written.
LEMMA DirectoryRead ==
    ASSUME PoolSound, NEW d \in DOMAIN pool.dirs
    PROVE  /\ MosObject(d) \in {Failed, MosDn(d)} /\ MosDn(d).bonus.head = pool.dirs[d].head
           /\ IF pool.dirs[d].head = 0 THEN HeadOf(MosDn(d)) = None
              ELSE HeadOf(MosDn(d)) # None
           /\ \/ ChildrenOf(MosDn(d)) = Failed
              \/ ChildrenOf(MosDn(d)) = {<<n, pool.dirs[d].child[n]>> :
                                            n \in DOMAIN pool.dirs[d].child}
           /\ EveryBlockHasACopy =>
                 /\ MosObject(d) # Failed /\ HeadOf(MosDn(d)) # Failed
                 /\ ChildrenOf(MosDn(d)) = {<<n, pool.dirs[d].child[n]>> :
                                               n \in DOMAIN pool.dirs[d].child}
<1>1. DirSound(d)
  BY DEF PoolSound
<1>2. KeptObject(pool.mos, d, None) /\ MosDn(d).bonus.head = pool.dirs[d].head
  BY <1>1 DEF DirSound, KeptZapObject
<1>3. /\ MosObject(d) \in {Failed, MosDn(d)} /\ MosDn(d) # Failed
      /\ EveryBlockHasACopy => MosObject(d) = MosDn(d)
  BY <1>2, MosObjectKept
<1>4. /\ IF pool.dirs[d].head = 0 THEN HeadOf(MosDn(d)) = None
         ELSE HeadOf(MosDn(d)) # None
      /\ EveryBlockHasACopy => HeadOf(MosDn(d)) # Failed
  <2>1. CASE pool.dirs[d].head = 0
    BY <1>2, <2>1, PoolBlocksAssumption DEF HeadOf
  <2>2. CASE pool.dirs[d].head # 0
    <3> DEFINE h == pool.dirs[d].head
    <3>1. KeptObject(pool.mos, h, None)
      BY <1>1, <2>2 DEF DirSound, HeadSound
    <3>2. /\ MosObject(h) \in {Failed, MosDn(h)} /\ MosDn(h) \notin {None, Failed}
          /\ EveryBlockHasACopy => MosObject(h) = MosDn(h)
      BY <3>1, MosObjectKept
    <3>3. HeadOf(MosDn(d)) = MosObject(h)
      BY <1>2, <2>2 DEF HeadOf
    <3> QED BY <2>2, <3>2, <3>3, PoolBlocksAssumption
  <2> QED BY <2>1, <2>2
<1>5. /\ \/ ChildrenOf(MosDn(d)) = Failed
         \/ ChildrenOf(MosDn(d)) = {<<n, pool.dirs[d].child[n]>> :
                                       n \in DOMAIN pool.dirs[d].child}
      /\ EveryBlockHasACopy =>
            ChildrenOf(MosDn(d)) = {<<n, pool.dirs[d].child[n]>> :
                                       n \in DOMAIN pool.dirs[d].child}
  <2> DEFINE at == MosDn(d).bonus.child
             cs == {<<n, pool.dirs[d].child[n]>> : n \in DOMAIN pool.dirs[d].child}
  <2>0. ChildrenSound(d)
    BY <1>1 DEF DirSound
  <2>1. CASE at = 0
    <3>1. cs = {}
      BY <2>0, <2>1 DEF ChildrenSound
    <3> QED BY <2>1, <3>1 DEF ChildrenOf
  <2>2. CASE at # 0
    <3>1. KeptZapObject(pool.mos, at, None) /\ MosEntries(at) = cs
      BY <2>0, <2>2 DEF ChildrenSound
    <3>2. /\ MosZap(at) \in {Failed, cs}
          /\ EveryBlockHasACopy => MosZap(at) = cs
      BY <3>1, MosZapKept
    <3>3. ChildrenOf(MosDn(d)) = MosZap(at)
      BY <2>2 DEF ChildrenOf
    <3> QED BY <3>2, <3>3
  <2> QED BY <2>1, <2>2
<1> QED BY <1>2, <1>3, <1>4, <1>5

\* What a visit adds to the queue and to the list.
NewQueued(here) == Queued(Pairs(pool.dirs[here.dir].child), here.name)
NewListed(here) ==
    IF pool.dirs[here.dir].head = 0 THEN {}
    ELSE {[name |-> here.name, dir |-> here.dir, head |-> pool.dirs[here.dir].head]}

LEMMA QueuedDirs ==
    ASSUME PoolSound, NEW here \in Waiting
    PROVE  /\ NewQueued(here) \in Seq(Waiting)
           /\ \A n \in DOMAIN pool.dirs[here.dir].child \ Hidden :
                 pool.dirs[here.dir].child[n] \in QueueDirs(NewQueued(here))
<1> DEFINE d == here.dir
           name == here.name
           child == pool.dirs[d].child
           queued == NewQueued(here)
<1>1. d \in Reachable /\ name \in Seq(STRING) /\ Denotes(name, d) /\ d \in DOMAIN pool.dirs
  BY DEF Waiting, Reachable
<1>2. ChildrenSound(d)
  BY <1>1 DEF PoolSound, DirSound
<1>3. /\ IsFiniteSet(DOMAIN child)
      /\ \A n \in DOMAIN child :
            /\ n \in STRING /\ child[n] \in DOMAIN pool.dirs /\ pool.order[n] \in Int
            /\ \A m \in DOMAIN child : pool.order[n] = pool.order[m] => n = m
  BY <1>2 DEF ChildrenSound
<1>4. ASSUME NEW n \in DOMAIN child \ Hidden
      PROVE  [dir |-> child[n], name |-> Append(name, n)] \in Waiting
  <2>1. n \in STRING
    BY <1>3
  <2>2. Denotes(Append(name, n), child[n])
    BY <1>1, <1>3, <2>1, DenotesChild
  <2>3. child[n] \in Reachable
    BY <1>1, <1>3, ReachChild
  <2> HIDE DEF child, name
  <2>4. Append(name, n) \in Seq(STRING)
    BY <1>1, <2>1
  <2> QED BY <2>2, <2>3, <2>4 DEF Waiting
<1>5. queued = Queued(Pairs(child), name)
  BY DEF NewQueued
<1> HIDE DEF child, name, queued, d
<1>6. /\ DOMAIN queued = 1..Len(queued) /\ Len(queued) \in Nat
      /\ \A i \in 1..Len(queued) : \E n \in DOMAIN child \ Hidden :
            queued[i] = [dir |-> child[n], name |-> Append(name, n)]
      /\ \A n \in DOMAIN child \ Hidden : \E i \in 1..Len(queued) :
            queued[i] = [dir |-> child[n], name |-> Append(name, n)]
  <2>1. QueuedAs(queued, child, name)
    BY <1>3, <1>5, QueuedIs
  <2> QED BY <2>1 DEF QueuedAs
<1>7. \A i \in 1..Len(queued) : queued[i] \in Waiting
  BY <1>4, <1>6
<1>8. queued = [i \in 1..Len(queued) |-> queued[i]]
  <2>1. queued = [i \in DOMAIN queued |-> queued[i]]
    BY <1>5 DEF Queued
  <2> QED BY <1>6, <2>1
<1>9. queued \in Seq(Waiting)
  BY <1>6, <1>7, <1>8
<1>10. \A n \in DOMAIN child \ Hidden : child[n] \in QueueDirs(queued)
  <2>1. ASSUME NEW n, NEW i, queued[i] = [dir |-> child[n], name |-> Append(name, n)]
        PROVE  queued[i].dir = child[n]
    BY <2>1
  <2> QED BY <1>6, <2>1 DEF QueueDirs
<1> QED BY <1>9, <1>10 DEF child, queued, d

Moved(s, queue, seen, listed) ==
    [s EXCEPT !.queue = queue, !.seen = seen, !.listed = listed]

LEMMA WalkExcept ==
    ASSUME NEW s, s = [at |-> "walk", queue |-> s.queue, seen |-> s.seen, listed |-> s.listed],
           NEW a, NEW b, NEW c
    PROVE  Moved(s, a, b, c) = [at |-> "walk", queue |-> a, seen |-> b, listed |-> c]
<1> DEFINE t == [s EXCEPT !.queue = a]
           u == [t EXCEPT !.seen = b]
           v == [u EXCEPT !.listed = c]
<1>1. Moved(s, a, b, c) = v
  BY DEF Moved
<1>2. t = [at |-> "walk", queue |-> a, seen |-> s.seen, listed |-> s.listed]
  OBVIOUS
<1> HIDE DEF t
<1>3. u = [at |-> "walk", queue |-> a, seen |-> b, listed |-> s.listed]
  BY <1>2
<1> HIDE DEF u
<1>4. v = [at |-> "walk", queue |-> a, seen |-> b, listed |-> c]
  BY <1>3
<1> QED BY <1>1, <1>4

\* The walk visits a directory it has not seen.
LEMMA WalkOn ==
    ASSUME PoolInv, step.at = "walk", step.queue # <<>>,
           Head(step.queue).dir \notin step.seen
    PROVE  StepOK(Moved(step, Tail(step.queue) \o NewQueued(Head(step.queue)),
                        step.seen \cup {Head(step.queue).dir},
                        step.listed \cup NewListed(Head(step.queue))))
<1> DEFINE q == step.queue
           here == Head(q)
           d == here.dir
           queued == NewQueued(here)
           new == NewListed(here)
           listed == step.listed \cup new
           seen == step.seen \cup {d}
           queue == Tail(q) \o queued
           next == [at |-> "walk", queue |-> queue, seen |-> seen, listed |-> listed]
<1>1. WalkOK(step) /\ call.op # "read" /\ PoolSound
  BY DEF PoolInv, StepOK
<1> SUFFICES StepOK(Moved(step, queue, seen, listed))
  OBVIOUS
<1>2. Moved(step, queue, seen, listed) = next
  <2>1. step = [at |-> "walk", queue |-> step.queue, seen |-> step.seen, listed |-> step.listed]
    BY <1>1 DEF WalkOK
  <2> HIDE DEF queue, seen, listed
  <2> QED BY <2>1, WalkExcept
<1>3. here \in Waiting /\ Tail(q) \in Seq(Waiting)
      /\ QueueDirs(q) \subseteq {d} \cup QueueDirs(Tail(q))
  <2>1. q \in Seq(Waiting) /\ q # <<>>
    BY <1>1 DEF WalkOK
  <2> QED BY <2>1, TailDirs
<1>4. /\ step.seen \in SUBSET Reachable /\ step.listed \in SUBSET Listed
      /\ pool.root \in step.seen \cup QueueDirs(q)
      /\ \A e \in step.seen : \A n \in DOMAIN pool.dirs[e].child : n \notin Hidden =>
            pool.dirs[e].child[n] \in step.seen \cup QueueDirs(q)
      /\ \A e \in step.seen : pool.dirs[e].head # 0 => \E r \in step.listed : r.dir = e
      /\ \A r \in step.listed : r.dir \in step.seen
      /\ \A x, r \in step.listed : x.dir = r.dir => x = r
      /\ d \notin step.seen
  BY <1>1 DEF WalkOK
<1> HIDE DEF here
<1>5. d \in Reachable /\ here.name \in Seq(STRING) /\ Denotes(here.name, d)
  BY <1>3 DEF Waiting
<1>6. /\ queued \in Seq(Waiting)
      /\ \A n \in DOMAIN pool.dirs[d].child \ Hidden :
            pool.dirs[d].child[n] \in QueueDirs(queued)
  BY <1>1, <1>3, QueuedDirs
<1>7. queue \in Seq(Waiting)
      /\ QueueDirs(Tail(q)) \cup QueueDirs(queued) \subseteq QueueDirs(queue)
  <2> HIDE DEF queued, q
  <2> QED BY <1>3, <1>6, JoinDirs
<1>8. /\ new \in SUBSET Listed /\ \A r \in new : r.dir = d
      /\ \A x, r \in new : x = r
      /\ pool.dirs[d].head # 0 => \E r \in new : r.dir = d
  BY <1>5 DEF Listed, NewListed
<1> HIDE DEF d, q, queued, new, queue
<1>9. /\ \A e \in seen : pool.dirs[e].head # 0 => \E r \in listed : r.dir = e
      /\ \A r \in listed : r.dir \in seen
      /\ \A x, r \in listed : x.dir = r.dir => x = r
  BY <1>4, <1>8
<1>10. \A e \in seen : \A n \in DOMAIN pool.dirs[e].child : n \notin Hidden =>
          pool.dirs[e].child[n] \in seen \cup QueueDirs(queue)
  BY <1>3, <1>4, <1>6, <1>7
<1>11. pool.root \in seen \cup QueueDirs(queue)
  BY <1>3, <1>4, <1>7
<1>12. seen \in SUBSET Reachable /\ listed \in SUBSET Listed
  BY <1>4, <1>5, <1>8
<1>13. next.at = "walk" /\ next.queue = queue /\ next.seen = seen /\ next.listed = listed
       /\ next = [at |-> "walk", queue |-> next.queue, seen |-> next.seen, listed |-> next.listed]
  OBVIOUS
<1> HIDE DEF next, seen, listed
<1>14. WalkOK(next)
  BY <1>7, <1>9, <1>10, <1>11, <1>12, <1>13 DEF WalkOK
<1>15. StepOK(next)
  BY <1>1, <1>13, <1>14 DEF StepOK, FileOps
<1> QED BY <1>2, <1>15

LEMMA WalkKeeps ==
    ASSUME PoolInv, Walk, UNCHANGED fileVars
    PROVE  PoolInv'
<1> DEFINE here == Head(step.queue)
           d == here.dir
           dn == MosObject(d)
<1>1. step.at = "walk" /\ step.queue # <<>> /\ Quiet /\ step # Idle
  BY RunningFacts DEF Walk, Quiet, diskVars
<1>2. CASE d \in step.seen
  <2> DEFINE next == [step EXCEPT !.queue = Tail(@)]
  <2>1. StepOK(next)
    BY <1>1, <1>2, WalkPast
  <2>2. Continue(next)
    BY <1>2 DEF Walk
  <2> HIDE DEF next
  <2> QED BY <1>1, <2>1, <2>2, ContinueKeeps
<1>3. CASE d \notin step.seen
  <2> DEFINE head == HeadOf(dn)
             children == ChildrenOf(dn)
             a == Tail(step.queue) \o NewQueued(here)
             b == step.seen \cup {d}
             c == step.listed \cup NewListed(here)
             next == Moved(step, a, b, c)
  <2>1. VisitDirectory(here, dn)
    BY <1>3 DEF Walk
  <2>2. PoolSound /\ d \in DOMAIN pool.dirs
    <3>1. WalkOK(step)
      BY <1>1 DEF PoolInv, StepOK
    <3>2. here \in Waiting
      BY <1>1, <3>1 DEF WalkOK
    <3> QED BY <3>2 DEF PoolInv, Waiting, Reachable
  <2>3. StepOK(next)
    BY <1>1, <1>3, WalkOn
  <2>4. \/ Return(Failed, "source")
        \/ /\ dn # Failed /\ head # Failed /\ children # Failed
           /\ Continue([step EXCEPT
                !.queue = Tail(@) \o Queued(children, here.name),
                !.seen = @ \cup {here.dir},
                !.listed = IF head = None THEN @
                           ELSE @ \cup {[name |-> here.name, dir |-> here.dir,
                                         head |-> dn.bonus.head]}])
    BY <2>1 DEF VisitDirectory, Visit, Fail
  <2>5. CASE Return(Failed, "source")
    BY <1>1, <2>5, FailKeeps
  <2>6. CASE ~Return(Failed, "source")
    <3> DEFINE x == Tail(step.queue) \o Queued(children, here.name)
               z == IF head = None THEN step.listed
                    ELSE step.listed \cup {[name |-> here.name, dir |-> here.dir,
                                            head |-> dn.bonus.head]}
    <3>1. Continue(Moved(step, x, b, z)) /\ dn # Failed /\ children # Failed
      BY <2>4, <2>6 DEF Moved
    <3>2. /\ dn \in {Failed, MosDn(d)} /\ MosDn(d).bonus.head = pool.dirs[d].head
          /\ IF pool.dirs[d].head = 0 THEN HeadOf(MosDn(d)) = None
             ELSE HeadOf(MosDn(d)) # None
          /\ \/ ChildrenOf(MosDn(d)) = Failed
             \/ ChildrenOf(MosDn(d)) = Pairs(pool.dirs[d].child)
      <4> HIDE DEF d
      <4> QED BY <2>2, DirectoryRead DEF Pairs
    <3>3. dn = MosDn(d) /\ children = Pairs(pool.dirs[d].child)
      BY <3>1, <3>2
    <3>4. x = a
      BY <3>3 DEF NewQueued
    <3>5. z = c
      BY <3>2, <3>3 DEF NewListed
    <3>6. Continue(next)
      BY <3>1, <3>4, <3>5
    <3> HIDE DEF next
    <3> QED BY <1>1, <2>3, <3>6, ContinueKeeps
  <2> QED BY <2>5, <2>6
<1> QED BY <1>2, <1>3

\* The snapshots of a directory's head.
SnapsOf(d) == {[object |-> e[2], guid |-> MosDn(e[2]).bonus.guid] : e \in SnapEntries(d)}

LEMMA SnapshotsRead ==
    ASSUME PoolSound, NEW d \in DOMAIN pool.dirs, pool.dirs[d].head # 0,
           NEW r, r.head = pool.dirs[d].head
    PROVE  snapshots_for(r) \in {Failed, SnapsOf(d)}
<1> DEFINE head == pool.dirs[d].head
           names == MosDn(head).bonus.snapnames
<1>1. HeadSound(d)
  BY DEF PoolSound, DirSound
<1>2. MosObject(head) \in {Failed, MosDn(head)} /\ MosDn(head) # Failed
  BY <1>1, MosObjectKept DEF HeadSound
<1>3. snapshots_for(r) = SnapshotsOf(MosObject(head))
  BY DEF snapshots_for
<1>4. CASE MosObject(head) = Failed
  BY <1>3, <1>4 DEF SnapshotsOf
<1>5. CASE MosObject(head) = MosDn(head) /\ names = 0
  <2>1. SnapEntries(d) = {}
    BY <1>5 DEF SnapEntries
  <2> QED BY <1>2, <1>3, <1>5, <2>1 DEF SnapshotsOf, SnapsOf
<1>6. CASE MosObject(head) = MosDn(head) /\ names # 0
  <2>1. SnapEntries(d) = MosEntries(names)
    BY <1>6 DEF SnapEntries
  <2>2. MosZap(names) \in {Failed, MosEntries(names)}
    BY <1>1, <1>6, MosZapKept DEF HeadSound
  <2>3. SnapshotsOf(MosObject(head)) = SnapshotsNamed(MosZap(names))
    BY <1>2, <1>6 DEF SnapshotsOf
  <2>4. CASE MosZap(names) = Failed
    BY <1>3, <2>3, <2>4 DEF SnapshotsNamed
  <2>5. CASE MosZap(names) = SnapEntries(d) /\ MosZap(names) # Failed
    <3> DEFINE E == SnapEntries(d)
               F(n) == [object |-> n[2], dn |-> MosObject(n[2])]
               found == {F(n) : n \in E}
               G(s) == [object |-> s.object, guid |-> s.dn.bonus.guid]
               H(n) == [object |-> n[2], guid |-> MosObject(n[2]).bonus.guid]
    <3>0. \A n : F(n).dn = MosObject(n[2]) /\ G(F(n)) = H(n)
      OBVIOUS
    <3>1. \A e \in E : MosObject(e[2]) \in {Failed, MosDn(e[2])}
      BY <1>1, MosObjectKept DEF HeadSound
    <3>2. SnapshotsNamed(E) = Failed \/ SnapshotsNamed(E) = SnapshotsIn(found)
      BY DEF SnapshotsNamed
    <3>3. CASE \E s \in found : s.dn = Failed
      BY <1>3, <2>3, <2>5, <3>2, <3>3 DEF SnapshotsIn
    <3>4. CASE \A s \in found : s.dn # Failed
      <4>1. \A e \in E : MosObject(e[2]) = MosDn(e[2])
        <5> HIDE DEF F
        <5> QED BY <3>0, <3>1, <3>4
      <4>2. {G(s) : s \in found} = {H(n) : n \in E}
        <5> HIDE DEF F, G, H
        <5> QED BY <3>0
      <4>3. {H(n) : n \in E} = SnapsOf(d)
        BY <4>1 DEF SnapsOf
      <4>4. SnapshotsIn(found) = SnapsOf(d)
        BY <3>4, <4>2, <4>3 DEF SnapshotsIn
      <4> QED BY <1>3, <2>3, <2>5, <3>2, <4>4
    <3> QED BY <3>3, <3>4
  <2> QED BY <2>1, <2>2, <2>4, <2>5
<1> QED BY <1>2, <1>4, <1>5, <1>6

LEMMA SnapsAre ==
    ASSUME PoolSound, NEW d \in DOMAIN pool.dirs, pool.dirs[d].head # 0
    PROVE  /\ {s.guid : s \in SnapsOf(d)} = pool.dirs[d].snaps
           /\ \A s \in SnapsOf(d) : s.guid # None => s.object \in DatasetObjects(d, s.guid)
<1>1. HeadSound(d)
  BY DEF PoolSound, DirSound
<1>2. {s.guid : s \in SnapsOf(d)} = {MosDn(e[2]).bonus.guid : e \in SnapEntries(d)}
  <2> DEFINE G(e) == [object |-> e[2], guid |-> MosDn(e[2]).bonus.guid]
  <2>1. SnapsOf(d) = {G(e) : e \in SnapEntries(d)} /\ \A e : G(e).guid = MosDn(e[2]).bonus.guid
    BY DEF SnapsOf
  <2> HIDE DEF G
  <2>2. \A s \in SnapsOf(d) : \E e \in SnapEntries(d) : s.guid = MosDn(e[2]).bonus.guid
    BY <2>1
  <2>3. \A e \in SnapEntries(d) : \E s \in SnapsOf(d) : s.guid = MosDn(e[2]).bonus.guid
    BY <2>1
  <2> QED BY <2>2, <2>3
<1>3. \A s \in SnapsOf(d) : s.guid # None => s.object \in DatasetObjects(d, s.guid)
  BY DEF SnapsOf, DatasetObjects
<1> QED BY <1>1, <1>2, <1>3 DEF HeadSound

LEMMA InspectKeeps ==
    ASSUME PoolInv, Inspect, UNCHANGED fileVars
    PROVE  PoolInv'
<1> DEFINE L == step.listed
           F(d) == [dataset |-> d, snaps |-> snapshots_for(d)]
           found == {F(d) : d \in L}
           R(f) == [name |-> f.dataset.name, dir |-> f.dataset.dir,
                    snaps |-> {s.guid : s \in f.snaps}]
           value == {R(f) : f \in found}
           heads == {d \in Reachable : pool.dirs[d].head # 0}
<1>1. step.at = "walk" /\ Len(step.queue) = 0 /\ call.op = "inspect" /\ Quiet /\ step # Idle
  <2>1. step.at = "walk" /\ step.queue = <<>>
    BY DEF Inspect
  <2>2. Len(step.queue) = 0
    BY <2>1
  <2> QED BY <2>1, <2>2, RunningFacts DEF Inspect, Quiet, diskVars
<1>2. Report(found)
  BY DEF Inspect
<1>3. CASE \E f \in found : f.snaps = Failed
  <2>1. Return(Failed, "source")
    BY <1>2, <1>3 DEF Report, Fail
  <2> QED BY <1>1, <2>1, FailKeeps
<1>4. CASE \A f \in found : f.snaps # Failed
  <2>1. Return(value, "done")
    BY <1>2, <1>4 DEF Report
  <2>2. WalkOK(step) /\ PoolSound
    BY <1>1 DEF PoolInv, StepOK
  <2>3. step.seen = Reachable
    <3>1. QueueDirs(step.queue) = {}
      <4>1. step.queue \in Seq(Waiting)
        BY <2>2 DEF WalkOK
      <4>2. DOMAIN step.queue = {}
        BY <1>1, <4>1
      <4> QED BY <4>2 DEF QueueDirs
    <3>2. step.seen \in SUBSET Reachable /\ Reachable \in SUBSET DOMAIN pool.dirs
      BY <2>2 DEF WalkOK, Reachable
    <3>3. pool.root \in step.seen /\ Closed(step.seen)
      BY <2>2, <3>1 DEF WalkOK, Closed
    <3> QED BY <3>2, <3>3, ReachLeast
  <2>4. /\ L \in SUBSET Listed
        /\ \A d \in heads : \E r \in L : r.dir = d
        /\ \A q, r \in L : q.dir = r.dir => q = r
    BY <2>2, <2>3 DEF WalkOK
  <2>5. \A r \in L : /\ r.dir \in heads /\ Denotes(r.name, r.dir)
                     /\ r.dir \in DOMAIN pool.dirs /\ r.head = pool.dirs[r.dir].head
    <3>1. Reachable \in SUBSET DOMAIN pool.dirs
      BY DEF Reachable
    <3> QED BY <2>4, <3>1 DEF Listed
  <2>6. \A r \in L : F(r) \in found /\ F(r).snaps = snapshots_for(r) /\ F(r).dataset = r
    OBVIOUS
  <2>7. ASSUME NEW r \in L
        PROVE  {s.guid : s \in snapshots_for(r)} = pool.dirs[r.dir].snaps
    <3>1. snapshots_for(r) # Failed
      <4> HIDE DEF F, found
      <4> QED BY <1>4, <2>6
    <3>2. snapshots_for(r) = SnapsOf(r.dir)
      BY <2>2, <2>5, <3>1, SnapshotsRead
    <3> QED BY <2>2, <2>5, <3>2, SnapsAre
  <2> DEFINE V(r) == [name |-> r.name, dir |-> r.dir, snaps |-> pool.dirs[r.dir].snaps]
  <2>8. value = {V(r) : r \in L}
    <3>1. \A r \in L : R(F(r)) = V(r)
      BY <2>7
    <3> HIDE DEF R, F, V
    <3> QED BY <3>1
  <2>9. \A r \in L : /\ V(r).dir = r.dir /\ V(r).name = r.name
                     /\ V(r).snaps = pool.dirs[r.dir].snaps
    OBVIOUS
  <2> HIDE DEF V, heads, value, L
  <2>10. /\ {x.dir : x \in value} = heads
         /\ \A x \in value : Denotes(x.name, x.dir) /\ x.snaps = pool.dirs[x.dir].snaps
         /\ \A x, y \in value : x.dir = y.dir => x = y
    BY <2>4, <2>5, <2>8, <2>9
  <2>11. IsFiniteSet(heads)
    <3>1. heads \in SUBSET DOMAIN pool.dirs
      BY DEF heads, Reachable
    <3> QED BY <2>2, <3>1, FS_Subset DEF PoolSound
  <2>12. Cardinality(value) = Cardinality(heads)
    <3> DEFINE h == [d \in heads |-> CHOOSE x \in value : x.dir = d]
    <3>1. \A d \in heads : h[d] \in value /\ h[d].dir = d
      BY <2>10
    <3>2. \A x \in value : x.dir \in heads /\ h[x.dir] = x
      BY <2>10, <3>1
    <3>3. h \in Bijection(heads, value)
      <4>1. h \in [heads -> value]
        BY <3>1
      <4>2. DOMAIN h = heads
        OBVIOUS
      <4> HIDE DEF h
      <4> QED BY <3>1, <3>2, <4>1, <4>2 DEF Bijection, Injection, Surjection, IsInjective
    <3> HIDE DEF h
    <3> QED BY <2>11, <3>3, FS_Bijection DEF ExistsBijection
  <2> DEFINE r == [call |-> call, value |-> value, why |-> "done"]
  <2>13. r.call.op = "inspect" /\ r.value = value
    BY <1>1
  <2> HIDE DEF r
  <2>14. ResultOf(r)
    BY <2>10, <2>12, <2>13 DEF ResultOf, DeliveredOf, ListingOf, CatalogOf, KeyRight, heads
  <2> QED BY <1>1, <2>1, <2>14, ReturnKeeps DEF r
<1> QED BY <1>3, <1>4

-----------------------------------------------------------------------------
(* The dataset and its key.                                                *)

LEMMA SelectedKeeps ==
    ASSUME PoolInv, Quiet, step # Idle, call.op \notin {"inspect", "read"},
           NEW dataset, NEW object, Site(call, dataset.dir, object), Selected(dataset, object)
    PROVE  PoolInv'
<1> DEFINE next == [at |-> "selected", dir |-> dataset.dir, snap |-> call.snap,
                    object |-> object]
<1>1. Continue(next)
  BY DEF Selected
<1>2. next.at = "selected" /\ next.dir = dataset.dir /\ next.snap = call.snap
      /\ next.object = object
      /\ next = [at |-> "selected", dir |-> next.dir, snap |-> next.snap, object |-> next.object]
  OBVIOUS
<1> HIDE DEF next
<1>3. StepOK(next)
  BY <1>2 DEF StepOK, FileOps, SelectedOK
<1> QED BY <1>1, <1>3, ContinueKeeps

LEMMA SelectKeeps ==
    ASSUME PoolInv, Select, UNCHANGED fileVars
    PROVE  PoolInv'
<1> DEFINE r == CHOOSE d \in step.listed : d.name = call.ds
           d == r.dir
<1>1. step.at = "walk" /\ call.op # "inspect" /\ Quiet /\ step # Idle
  BY RunningFacts DEF Select, Quiet, diskVars
<1>2. CASE \A x \in step.listed : x.name # call.ds
  <2>1. Return(Failed, "source")
    BY <1>2 DEF Select, Fail
  <2> QED BY <1>1, <2>1, FailKeeps
<1>3. CASE ~\A x \in step.listed : x.name # call.ds
  <2>1. r \in step.listed /\ r.name = call.ds /\ SelectIn(r)
    BY <1>3 DEF Select
  <2>2. WalkOK(step) /\ PoolSound /\ call.op # "read"
    BY <1>1 DEF PoolInv, StepOK
  <2> HIDE DEF r
  <2>3. /\ d \in Reachable /\ Denotes(call.ds, d)
        /\ r.head = pool.dirs[d].head /\ r.head # 0
    BY <2>1, <2>2 DEF WalkOK, Listed
  <2>4. d \in DOMAIN pool.dirs
    BY <2>3 DEF Reachable
  <2>5. CASE call.snap = None
    <3>1. Selected(r, r.head)
      BY <2>1, <2>5 DEF SelectIn
    <3>2. Site(call, r.dir, r.head)
      BY <2>3, <2>4, <2>5 DEF Site, DatasetObjects
    <3> QED BY <1>1, <2>2, <3>1, <3>2, SelectedKeeps
  <2>6. CASE call.snap # None
    <3> DEFINE snaps == snapshots_for(r)
               s == CHOOSE x \in snaps : x.guid = call.snap
    <3>1. SelectSnapshot(r, snaps)
      BY <2>1, <2>6 DEF SelectIn
    <3>2. snaps \in {Failed, SnapsOf(d)}
      BY <2>2, <2>3, <2>4, SnapshotsRead
    <3> HIDE DEF snaps
    <3>3. CASE snaps = Failed \/ \A x \in snaps : x.guid # call.snap
      <4>1. Return(Failed, "source")
        BY <3>1, <3>3 DEF SelectSnapshot, Fail
      <4> QED BY <1>1, <4>1, FailKeeps
    <3>4. CASE snaps = SnapsOf(d) /\ ~\A x \in snaps : x.guid # call.snap
      <4>1. s \in SnapsOf(d) /\ s.guid = call.snap
        BY <3>4
      <4>2. \/ Return(Failed, "source")
            \/ Selected(r, s.object)
        BY <3>1 DEF SelectSnapshot, Fail
      <4> HIDE DEF s
      <4>3. /\ s.object \in DatasetObjects(d, call.snap)
            /\ call.snap \in pool.dirs[d].snaps
        BY <2>2, <2>3, <2>4, <2>6, <4>1, SnapsAre
      <4>4. Site(call, r.dir, s.object)
        BY <2>3, <2>4, <4>3 DEF Site
      <4>5. CASE Return(Failed, "source")
        BY <1>1, <4>5, FailKeeps
      <4>6. CASE Selected(r, s.object)
        BY <1>1, <2>2, <4>4, <4>6, SelectedKeeps
      <4> QED BY <4>2, <4>5, <4>6
    <3> QED BY <3>2, <3>3, <3>4
  <2> QED BY <2>5, <2>6
<1> QED BY <1>2, <1>3

\* The dnode of the dataset that was selected, and the key of all its files.
LEMMA SiteFacts ==
    ASSUME PoolInv, NEW d, NEW o, Site(call, d, o)
    PROVE  /\ MosObject(o) \in {Failed, MosDn(o)} /\ MosDn(o) # Failed
           /\ DatasetSound(d, call.snap, o)
           /\ \A f \in Within(call) : f \in FilesOf(d, call.snap)
<1>1. PoolSound /\ call.ds \in Seq(STRING)
  BY DEF PoolInv, Command
<1>2. d \in DOMAIN pool.dirs /\ HeadSound(d) /\ DatasetSound(d, call.snap, o)
  BY <1>1 DEF Site, PoolSound, DirSound
<1>3. KeptObject(pool.mos, o, None)
  BY <1>2 DEF Site, DatasetObjects, HeadSound
<1>4. MosObject(o) \in {Failed, MosDn(o)} /\ MosDn(o) # Failed
  BY <1>3, MosObjectKept
<1>5. ASSUME NEW f \in Within(call)
      PROVE  f \in FilesOf(d, call.snap)
  <2>1. f \in pool.files /\ f.snap = call.snap /\ Denotes(call.ds, f.ds)
    BY DEF Within
  <2>2. f.ds = d
    <3>1. Denotes(call.ds, d)
      BY DEF Site
    <3> QED BY <1>1, <2>1, <3>1, DenotesOne
  <2> QED BY <2>1, <2>2 DEF FilesOf
<1> QED BY <1>2, <1>4, <1>5

\* encryption_requirement returns.
LEMMA RequireKeeps ==
    ASSUME PoolInv, Quiet, call.op = "require", NEW d, NEW o, Site(call, d, o),
           Openable(d, o), NEW value, value = KeyOf(d, o), Return(value, "done")
    PROVE  PoolInv'
<1> DEFINE r == [call |-> call, value |-> value, why |-> "done"]
<1>1. \A f \in Within(call) : f.key = value
  BY SiteFacts DEF DatasetSound, Openable
<1>2. r.call = call /\ r.value = value
  OBVIOUS
<1> HIDE DEF r
<1>3. ResultOf(r)
  BY <1>1, <1>2 DEF ResultOf, DeliveredOf, ListingOf, CatalogOf, KeyRight
<1> QED BY <1>3, ReturnKeeps DEF r

LEMMA KeyedKeeps ==
    ASSUME PoolInv, Quiet, step # Idle, call.op \notin {"require", "read"},
           NEW from, SelectedOK(from), NEW bp, bp = Bp(from.object),
           Openable(from.dir, from.object), NEW key, key = call.key,
           key = KeyOf(from.dir, from.object),
           Continue([at |-> "keyed", from |-> from, bp |-> bp, key |-> key])
    PROVE  PoolInv'
<1> DEFINE next == [at |-> "keyed", from |-> from, bp |-> bp, key |-> key]
<1>1. next.at = "keyed" /\ next.from = from /\ next.bp = bp /\ next.key = key
  OBVIOUS
<1> SUFFICES ASSUME Continue(next) PROVE PoolInv'
  OBVIOUS
<1> HIDE DEF next
<1>2. StepOK(next)
  BY <1>1 DEF StepOK, FileOps, KeyedOK
<1> QED BY <1>2, ContinueKeeps

LEMMA OpenPointerKeeps ==
    ASSUME PoolInv, OpenPointer, UNCHANGED fileVars
    PROVE  PoolInv'
<1> DEFINE o == step.object
           d == step.dir
           dn == MosObject(o)
           bp == Bp(o)
<1>1. step.at = "selected" /\ Quiet /\ step # Idle /\ OpenPointerOf(dn)
  BY RunningFacts DEF OpenPointer, Quiet, diskVars
<1>2. SelectedOK(step) /\ Site(call, d, o) /\ call.op \notin {"inspect", "read"}
  BY <1>1 DEF PoolInv, StepOK, SelectedOK
<1>3. dn \in {Failed, MosDn(o)} /\ MosDn(o) # Failed /\ d \in DOMAIN pool.dirs
  BY <1>2, SiteFacts DEF Site
<1>4. CASE dn = Failed
  <2>1. Return(Failed, "source")
    BY <1>1, <1>4 DEF OpenPointerOf, Fail
  <2> QED BY <1>1, <2>1, FailKeeps
<1>5. CASE dn = MosDn(o)
  <2>1. NeedsKey(bp)
    BY <1>1, <1>3, <1>5 DEF OpenPointerOf, Bp
  <2>2. CASE bp.crypt
    <3> DEFINE next == [at |-> "climb", from |-> step, bp |-> bp, dir |-> step.dir, seen |-> {}]
    <3>1. Continue(next)
      BY <2>1, <2>2 DEF NeedsKey
    <3>2. /\ next.at = "climb" /\ next.from = step /\ next.bp = bp /\ next.dir = d
          /\ next = [at |-> "climb", from |-> next.from, bp |-> next.bp, dir |-> next.dir,
                     seen |-> next.seen]
      OBVIOUS
    <3> HIDE DEF next
    <3>3. ClimbOK(next)
      BY <1>2, <1>3, <2>2, <3>2 DEF ClimbOK
    <3>4. StepOK(next)
      BY <1>2, <3>2, <3>3 DEF StepOK, FileOps
    <3> QED BY <1>1, <3>1, <3>4, ContinueKeeps
  <2>3. CASE ~bp.crypt
    <3>1. Openable(d, o) /\ KeyOf(d, o) = None
      BY <2>3 DEF Openable, KeyOf
    <3>2. CASE call.op = "require"
      <4>1. Return(None, "done")
        BY <2>1, <2>3, <3>2 DEF NeedsKey
      <4> HIDE DEF d, o
      <4> QED BY <1>1, <1>2, <3>1, <3>2, <4>1, RequireKeeps
    <3>3. CASE call.op # "require" /\ call.key # None
      <4>1. Return(Failed, "source")
        BY <2>1, <2>3, <3>3 DEF NeedsKey, Fail
      <4> QED BY <1>1, <4>1, FailKeeps
    <3>4. CASE call.op # "require" /\ call.key = None
      <4>1. Continue([at |-> "keyed", from |-> step, bp |-> bp, key |-> None])
        BY <2>1, <2>3, <3>4 DEF NeedsKey
      <4> HIDE DEF bp
      <4>2. bp = Bp(step.object)
        BY DEF bp
      <4> QED BY <1>1, <1>2, <3>1, <3>4, <4>1, <4>2, KeyedKeeps
    <3> QED BY <3>2, <3>3, <3>4
  <2> QED BY <2>2, <2>3
<1> QED BY <1>3, <1>4, <1>5

\* The crypto key object that a directory names, if it can be read.
LEMMA CryptoRead ==
    ASSUME PoolSound, NEW d \in DOMAIN pool.dirs
    PROVE  LET directory == MosObject(d)
               found == zap_lookup(read_zap_object_with_key(directory, None), "crypto_key_obj")
           IN  \/ found = Failed
               \/ found = Crypto(d) /\ directory = MosDn(d)
<1> DEFINE dn == MosDn(d)
           entries == read_zap_object_with_key(MosObject(d), None)
<1>1. KeptZapObject(pool.mos, d, None)
  BY DEF PoolSound, DirSound
<1>2. MosObject(d) \in {Failed, dn} /\ dn # Failed
  BY <1>1, MosObjectKept DEF KeptZapObject
<1>3. \A name : zap_lookup(Failed, name) = Failed
  BY DEF zap_lookup
<1>4. CASE MosObject(d) = Failed
  <2>1. entries = Failed
    BY <1>4 DEF read_zap_object_with_key
  <2> QED BY <1>3, <2>1
<1>5. CASE MosObject(d) = dn
  <2>1. KeptZap(dn, None)
    BY <1>1 DEF KeptZapObject, MosDn
  <2> HIDE DEF dn
  <2>2. entries \in {Failed, Intact!read_zap_object_with_key(dn, None)}
    BY <1>2, <1>5, <2>1, ZapRead
  <2> QED BY <1>3, <1>5, <2>2 DEF Crypto, dn
<1> QED BY <1>2, <1>4, <1>5

LEMMA ClimbKeeps ==
    ASSUME PoolInv, Climb, UNCHANGED fileVars
    PROVE  PoolInv'
<1> DEFINE d == step.dir
           directory == MosObject(d)
           found == zap_lookup(read_zap_object_with_key(directory, None), "crypto_key_obj")
<1>1. step.at = "climb" /\ Quiet /\ step # Idle
  BY RunningFacts DEF Climb, Quiet, diskVars
<1>2. ClimbOK(step) /\ call.op # "read" /\ PoolSound
  BY <1>1 DEF PoolInv, StepOK
<1>3. Return(Failed, "source") \/ (d # 0 /\ ClimbOn(directory, found))
  BY DEF Climb, ClimbAt, Fail
<1>4. CASE Return(Failed, "source") \/ (found = Failed /\ ClimbOn(directory, found))
  <2>1. Return(Failed, "source")
    BY <1>4 DEF ClimbOn, Fail
  <2> QED BY <1>1, <2>1, FailKeeps
<1>5. CASE d # 0 /\ found # Failed /\ ClimbOn(directory, found)
  <2>1. d \in DOMAIN pool.dirs /\ pool.dirs[d].key = pool.dirs[step.from.dir].key
    BY <1>2, <1>5 DEF ClimbOK
  <2>2. found = Crypto(d) /\ directory = MosDn(d)
    BY <1>2, <1>5, <2>1, CryptoRead
  <2>3. KeySound(d)
    BY <1>2, <2>1 DEF PoolSound, DirSound
  <2>4. CASE found \notin {None, 0}
    <3> DEFINE next == [at |-> "crypto", from |-> step.from, bp |-> step.bp, object |-> found]
    <3>1. Continue(next)
      BY <1>5, <2>4 DEF ClimbOn
    <3>2. next.at = "crypto" /\ next.from = step.from /\ next.bp = step.bp
          /\ next.object = Crypto(d)
      BY <2>2
    <3> HIDE DEF next
    <3>3. CryptoOK(next)
      <4>1. /\ KeptZapObject(pool.mos, Crypto(d), None)
            /\ zap_lookup(MosEntries(Crypto(d)), "wrapped") = pool.dirs[d].key
            /\ pool.dirs[d].key \in Key
        BY <2>2, <2>3, <2>4 DEF KeySound
      <4>2. SelectedOK(step.from) /\ step.bp = Bp(step.from.object) /\ step.bp.crypt
        BY <1>2 DEF ClimbOK
      <4> QED BY <2>1, <3>2, <4>1, <4>2 DEF CryptoOK
    <3>4. StepOK(next)
      BY <1>2, <3>2, <3>3 DEF StepOK, FileOps
    <3> QED BY <1>1, <3>1, <3>4, ContinueKeeps
  <2>5. CASE found \in {None, 0}
    <3> DEFINE parent == MosDn(d).bonus.parent
               seen == step.seen \cup {step.dir}
               t == [step EXCEPT !.seen = seen]
               next == [at |-> "climb", from |-> step.from, bp |-> step.bp,
                        dir |-> parent, seen |-> seen]
    <3>1. Continue([t EXCEPT !.dir = parent])
      BY <1>5, <2>2, <2>5 DEF ClimbOn
    <3>2. step = [at |-> "climb", from |-> step.from, bp |-> step.bp, dir |-> step.dir,
                  seen |-> step.seen]
      BY <1>2 DEF ClimbOK
    <3> HIDE DEF seen, parent
    <3>3. t = [at |-> "climb", from |-> step.from, bp |-> step.bp, dir |-> step.dir,
               seen |-> seen]
      BY <3>2
    <3> HIDE DEF t
    <3>4. [t EXCEPT !.dir = parent] = next
      BY <3>3
    <3>5. /\ next.at = "climb" /\ next.from = step.from /\ next.bp = step.bp /\ next.dir = parent
          /\ next = [at |-> "climb", from |-> next.from, bp |-> next.bp, dir |-> next.dir,
                     seen |-> next.seen]
      OBVIOUS
    <3>6. Continue(next)
      BY <3>1, <3>4
    <3> HIDE DEF next
    <3>7. parent # 0 => /\ parent \in DOMAIN pool.dirs
                        /\ pool.dirs[parent].key = pool.dirs[d].key
      BY <2>2, <2>3, <2>5 DEF KeySound, parent
    <3>8. ClimbOK(next)
      <4>1. SelectedOK(step.from) /\ step.bp = Bp(step.from.object) /\ step.bp.crypt
        BY <1>2 DEF ClimbOK
      <4> QED BY <2>1, <3>5, <3>7, <4>1 DEF ClimbOK
    <3>9. StepOK(next)
      BY <1>2, <3>5, <3>8 DEF StepOK, FileOps
    <3> QED BY <1>1, <3>6, <3>9, ContinueKeeps
  <2> QED BY <2>4, <2>5
<1> QED BY <1>3, <1>4, <1>5

LEMMA UnlockKeeps ==
    ASSUME PoolInv, Unlock, UNCHANGED fileVars
    PROVE  PoolInv'
<1> DEFINE wrapped == zap_lookup(MosZap(step.object), "wrapped")
           from == step.from
           d == from.dir
           o == from.object
           bp == step.bp
<1>1. step.at = "crypto" /\ Quiet /\ step # Idle /\ UnlockWith(wrapped)
  BY RunningFacts DEF Unlock, Quiet, diskVars
<1>2. CryptoOK(step) /\ call.op # "read"
  BY <1>1 DEF PoolInv, StepOK
<1>3. /\ SelectedOK(from) /\ Site(call, d, o) /\ bp = Bp(o) /\ Bp(o).crypt
      /\ pool.dirs[d].key \in Key /\ pool.dirs[d].key # None
  BY <1>2, PoolBlocksAssumption DEF CryptoOK, SelectedOK
<1>4. Openable(d, o) /\ KeyOf(d, o) = pool.dirs[d].key
  BY <1>3 DEF Openable, KeyOf
<1>5. wrapped \in {Failed, pool.dirs[d].key}
  <2>1. MosZap(step.object) \in {Failed, MosEntries(step.object)}
    BY <1>2, MosZapKept DEF CryptoOK
  <2>2. zap_lookup(Failed, "wrapped") = Failed
    BY DEF zap_lookup
  <2> QED BY <1>2, <2>1, <2>2 DEF CryptoOK
<1> HIDE DEF wrapped, from, d, o, bp
<1>6. CASE Return(Failed, "source")
  BY <1>1, <1>6, FailKeeps
<1>7. CASE ~Return(Failed, "source")
  <2>1. wrapped = KeyOf(d, o)
    BY <1>1, <1>4, <1>5, <1>7 DEF UnlockWith, Fail
  <2>2. CASE call.op = "require"
    <3>1. Return(wrapped, "done")
      BY <1>1, <1>7, <2>2 DEF UnlockWith, Fail
    <3> QED BY <1>1, <1>3, <1>4, <2>1, <2>2, <3>1, RequireKeeps
  <2>3. CASE call.op # "require"
    <3> DEFINE key == call.key
    <3>1. /\ key = wrapped
          /\ Continue([at |-> "keyed", from |-> from, bp |-> bp, key |-> key])
      BY <1>1, <1>7, <2>3 DEF UnlockWith, Fail, from, bp
    <3>2. bp = Bp(from.object) /\ Openable(from.dir, from.object)
          /\ key = KeyOf(from.dir, from.object) /\ key = call.key
      BY <1>3, <1>4, <2>1, <3>1 DEF d, o
    <3> HIDE DEF key
    <3> QED BY <1>1, <1>2, <1>3, <2>3, <3>1, <3>2, KeyedKeeps
  <2> QED BY <2>2, <2>3
<1> QED BY <1>6, <1>7

-----------------------------------------------------------------------------
(* The view of a dataset, and the way along a path.                        *)

LEMMA OpenedFacts ==
    ASSUME PoolInv, NEW c, NEW d, NEW o, Opened(c, d, o)
    PROVE  /\ TreeSound(d, c.snap, MetaOf(d, o), KeyOf(d, o))
           /\ \A f \in FilesOf(d, c.snap) :
                 /\ f.type = "dir" => FolderSound(f, MetaOf(d, o), KeyOf(d, o))
                 /\ f.type = "file" => FileSound(f, MetaOf(d, o), KeyOf(d, o))
                 /\ KeptObject(MetaOf(d, o), f.object, KeyOf(d, o))
                 /\ f.key = c.key
<1>1. DatasetSound(d, c.snap, o)
  <2>1. d \in DOMAIN pool.dirs /\ DirSound(d)
    BY DEF Opened, Site, PoolInv, PoolSound
  <2> QED BY <2>1 DEF Opened, Site, DirSound
<1>2. TreeSound(d, c.snap, MetaOf(d, o), KeyOf(d, o))
  BY <1>1 DEF DatasetSound, Opened, Openable, MetaOf
<1>3. \A f \in FilesOf(d, c.snap) :
         /\ f.type = "dir" => FolderSound(f, MetaOf(d, o), KeyOf(d, o))
         /\ f.type = "file" => FileSound(f, MetaOf(d, o), KeyOf(d, o))
  BY <1>2 DEF TreeSound
<1>4. \A f \in FilesOf(d, c.snap) : KeptObject(MetaOf(d, o), f.object, KeyOf(d, o))
  BY <1>2 DEF TreeSound
<1>5. \A f \in FilesOf(d, c.snap) : f.key = c.key
  BY <1>1 DEF DatasetSound, Opened, Openable
<1> QED BY <1>2, <1>3, <1>4, <1>5

\* The system attributes can be decoded if the dataset has them.
LEMMA SaIs ==
    ASSUME NEW meta, NEW key, NEW sa,
           sa = sa_context(meta, zap_lookup(MasterOf(meta, key), "SA_ATTRS"), key), sa # Failed
    PROVE  sa <=> SaOf(meta, key)
BY DEF sa_context, SaOf

LEMMA OpenViewKeeps ==
    ASSUME PoolInv, OpenView, UNCHANGED fileVars
    PROVE  PoolInv'
<1> DEFINE d == step.from.dir
           o == step.from.object
           key == step.key
           objset == read_pool_block_from(step.bp, step.key)
           meta == MetaOf(d, o)
           master == Zap(objset.meta, 1, key)
           root == zap_lookup(master, "ROOT")
           sa == sa_context(objset.meta, zap_lookup(master, "SA_ATTRS"), key)
           view == [meta |-> objset.meta, root |-> root, sa |-> sa,
                    snap |-> step.from.snap, key |-> step.key]
           next == [at |-> "resolve", left |-> call.path, object |-> root, type |-> "dir",
                    view |-> view]
<1>1. step.at = "keyed" /\ Quiet /\ step # Idle /\ OpenObjset(objset)
  BY RunningFacts DEF OpenView, Quiet, diskVars
<1>2. CASE Return(Failed, "source")
  BY <1>1, <1>2, FailKeeps
<1>3. CASE ~Return(Failed, "source")
  <2>1. KeyedOK(step) /\ call.op # "read" /\ SelectedOK(step.from)
    BY <1>1 DEF PoolInv, StepOK, KeyedOK
  <2>2. /\ Site(call, d, o) /\ step.from.snap = call.snap /\ step.bp = Bp(o)
        /\ key = KeyOf(d, o) /\ key = call.key /\ Openable(d, o)
        /\ call.op \notin {"inspect", "require", "read"}
    BY <2>1 DEF KeyedOK, SelectedOK
  <2>3. /\ objset # Failed /\ objset.type = "zfs" /\ master # Failed
        /\ root \notin {Failed, None} /\ sa # Failed /\ Continue(next)
    BY <1>1, <1>3 DEF OpenObjset, ViewIn, ViewOf, Fail
  <2>4. objset = Objset(d, o)
    <3>1. Kept(Bp(o), KeyOf(d, o))
      BY <2>2, SiteFacts DEF DatasetSound, Openable
    <3>2. objset \in {Failed, Intact!read_pool_block_from(Bp(o), KeyOf(d, o))}
      BY <2>2, <3>1, ReadKept
    <3> QED BY <2>3, <3>2 DEF Objset
  <2>5. Opened(call, d, o)
    BY <2>2, <2>3, <2>4 DEF Opened
  <2>6. objset.meta = meta
    BY <2>4 DEF MetaOf
  <2> HIDE DEF objset, d, o, key, meta
  <2>7. TreeSound(d, call.snap, meta, key)
    BY <2>2, <2>5, OpenedFacts DEF meta
  <2>8. master = MasterOf(meta, key)
    <3>1. master \in {Failed, Intact!Zap(meta, 1, key)}
      BY <2>6, <2>7, ZapKept DEF TreeSound
    <3> QED BY <2>3, <3>1 DEF MasterOf
  <2>9. sa <=> SaOf(meta, key)
    <3>1. sa = sa_context(meta, zap_lookup(MasterOf(meta, key), "SA_ATTRS"), key)
      BY <2>6, <2>8
    <3> HIDE DEF sa
    <3> QED BY <2>3, <3>1, SaIs
  <2>10. PICK f \in FilesOf(d, call.snap) : f.path = <<>> /\ f.type = "dir" /\ f.object = root
    BY <2>7, <2>8 DEF TreeSound
  <2> HIDE DEF sa, root, master
  <2>11. view.meta = meta /\ view.key = key /\ view.snap = call.snap /\ view.sa = sa
    BY <2>2, <2>6 DEF key
  <2> HIDE DEF view
  <2>12. ViewOK(view, d, o)
    BY <2>2, <2>5, <2>9, <2>11 DEF ViewOK, meta
  <2>13. /\ next.at = "resolve" /\ next.left = call.path /\ next.object = root
         /\ next.type = "dir" /\ next.view = view
         /\ next = [at |-> "resolve", left |-> next.left, object |-> next.object,
                    type |-> next.type, view |-> next.view]
    OBVIOUS
  <2> HIDE DEF next
  <2>14. call.path \in Seq(STRING) /\ call.op \in FileOps
    BY <1>1, <2>2 DEF PoolInv, Command, Ops, FileOps
  <2>15. f.path \in Seq(STRING) /\ f.path \o next.left = call.path
    <3>1. <<>> \in Seq(STRING) /\ <<>> \o call.path = call.path
      BY <2>14
    <3> QED BY <2>10, <2>13, <3>1
  <2>16. ResolveOK(next)
    BY <2>10, <2>12, <2>13, <2>14, <2>15 DEF ResolveOK
  <2>17. StepOK(next)
    BY <2>13, <2>16 DEF StepOK, FileOps
  <2> QED BY <1>1, <2>3, <2>17, ContinueKeeps
<1> QED BY <1>2, <1>3

LEMMA PathOn ==
    ASSUME NEW S, NEW p \in Seq(S), NEW left \in Seq(S), Len(left) # 0
    PROVE  /\ Head(left) \in S /\ Tail(left) \in Seq(S)
           /\ Append(p, Head(left)) \in Seq(S)
           /\ Append(p, Head(left)) \o Tail(left) = p \o left
OBVIOUS

LEMMA ComponentKeeps ==
    ASSUME PoolInv, Component
    PROVE  PoolInv'
<1> DEFINE v == step.view
           entries == Zap(v.meta, step.object, v.key)
           name == Head(step.left)
           entry == zap_lookup(entries, name)
<1>1. step.at = "resolve" /\ step.left # <<>> /\ Quiet /\ step # Idle
  BY RunningFacts DEF Component, Quiet, diskVars
<1>2. CASE Return(Failed, "source")
  BY <1>1, <1>2, FailKeeps
<1>3. CASE ~Return(Failed, "source")
  <2>1. step.type = "dir" /\ entry \notin {Failed, None}
        /\ Continue([step EXCEPT !.left = Tail(@), !.object = entry.object,
                                 !.type = entry.type])
    BY <1>3 DEF Component, Descended, Fail
  <2>2. ResolveOK(step)
    BY <1>1 DEF PoolInv, StepOK
  <2>3. PICK d, o : /\ ViewOK(v, d, o)
                    /\ \E f \in FilesOf(d, call.snap) :
                          /\ f.path \in Seq(STRING) /\ f.path \o step.left = call.path
                          /\ f.object = step.object /\ f.type = step.type
    BY <2>2 DEF ResolveOK
  <2>4. PICK f \in FilesOf(d, call.snap) :
               /\ f.path \in Seq(STRING) /\ f.path \o step.left = call.path
               /\ f.object = step.object /\ f.type = step.type
    BY <2>3
  <2>5. /\ Opened(call, d, o) /\ v.meta = MetaOf(d, o) /\ v.key = KeyOf(d, o)
    BY <2>3 DEF ViewOK
  <2>6. FolderSound(f, v.meta, v.key)
    BY <2>1, <2>4, <2>5, OpenedFacts
  <2> DEFINE written == Intact!Zap(v.meta, f.object, v.key)
  <2>7. entries = written
    <3>1. entries \in {Failed, written}
      BY <2>4, <2>6, ZapKept DEF FolderSound
    <3>2. zap_lookup(Failed, name) = Failed
      BY DEF zap_lookup
    <3> QED BY <2>1, <3>1, <3>2
  <2>8. PICK e \in written : e[1] = name /\ entry = e[2]
    <3>1. entries # Failed
      BY <2>6, <2>7, ZapKept DEF FolderSound
    <3> HIDE DEF entries, name, written
    <3> QED BY <2>1, <2>7, <3>1, LookupIs
  <2>9. PICK g \in FilesOf(f.ds, f.snap) :
               /\ g.path = Append(f.path, e[1]) /\ g.object = e[2].object
               /\ g.type = e[2].type
    BY <2>6, <2>8 DEF FolderSound
  <2>10. g \in FilesOf(d, call.snap)
    BY <2>4, <2>9 DEF FilesOf
  <2> DEFINE left == Tail(step.left)
             s1 == [step EXCEPT !.left = left]
             s2 == [s1 EXCEPT !.object = entry.object]
             next == [at |-> "resolve", left |-> left, object |-> entry.object,
                      type |-> entry.type, view |-> v]
  <2>11. Continue([s2 EXCEPT !.type = entry.type])
    BY <2>1
  <2>12. [s2 EXCEPT !.type = entry.type] = next
    <3>1. step = [at |-> "resolve", left |-> step.left, object |-> step.object,
                  type |-> step.type, view |-> step.view]
      BY <2>2 DEF ResolveOK
    <3> HIDE DEF left, entry
    <3>2. s1 = [at |-> "resolve", left |-> left, object |-> step.object,
                type |-> step.type, view |-> step.view]
      BY <3>1
    <3> HIDE DEF s1
    <3>3. s2 = [at |-> "resolve", left |-> left, object |-> entry.object,
                type |-> step.type, view |-> step.view]
      BY <3>2
    <3> HIDE DEF s2
    <3> QED BY <3>3
  <2>13. Continue(next)
    BY <2>11, <2>12
  <2>14. /\ left \in Seq(STRING) /\ Append(f.path, name) \in Seq(STRING)
         /\ Append(f.path, name) \o left = call.path
    <3>1. step.left \in Seq(STRING) /\ Len(step.left) # 0
      <4>1. step.left \in Seq(STRING)
        BY <2>2 DEF ResolveOK
      <4> QED BY <1>1, <4>1
    <3> DEFINE p == f.path
               l == step.left
    <3>2. p \in Seq(STRING) /\ l \in Seq(STRING) /\ Len(l) # 0
      BY <2>4, <3>1
    <3> HIDE DEF p, l
    <3>3. /\ Tail(l) \in Seq(STRING) /\ Append(p, Head(l)) \in Seq(STRING)
          /\ Append(p, Head(l)) \o Tail(l) = p \o l
      BY <3>2, PathOn
    <3> QED BY <2>4, <3>3 DEF p, l
  <2> HIDE DEF left, entry, v
  <2>15. /\ next.at = "resolve" /\ next.left = left /\ next.object = entry.object
         /\ next.type = entry.type /\ next.view = v
         /\ next = [at |-> "resolve", left |-> next.left, object |-> next.object,
                    type |-> next.type, view |-> next.view]
    OBVIOUS
  <2> HIDE DEF next, name, entries, written
  <2>16. call.op \in FileOps
    BY <2>2 DEF ResolveOK
  <2>17. /\ g.path \in Seq(STRING) /\ g.path \o next.left = call.path
         /\ g.object = next.object /\ g.type = next.type
    BY <2>8, <2>9, <2>14, <2>15
  <2>18. ResolveOK(next)
    BY <2>3, <2>10, <2>14, <2>15, <2>16, <2>17 DEF ResolveOK
  <2>19. StepOK(next)
    BY <2>15, <2>18 DEF StepOK, FileOps
  <2> QED BY <1>1, <2>13, <2>19, ContinueKeeps
<1> QED BY <1>2, <1>3

LEMMA ResolveKeeps ==
    ASSUME PoolInv, Resolve
    PROVE  PoolInv'
<1> DEFINE v == step.view
           dn == Object(v.meta, step.object, v.key)
           next == [at |-> call.op, dn |-> dn, size |-> attrs(dn, v.sa),
                    view |-> v, object |-> step.object, buffer |-> <<>>]
<1>1. step.at = "resolve" /\ step.left = <<>> /\ Quiet /\ step # Idle
  BY RunningFacts DEF Resolve, Quiet, diskVars
<1>2. CASE Return(Failed, "source") \/ Return(Failed, "output")
  BY <1>1, <1>2, FailKeeps
<1>3. CASE ~(Return(Failed, "source") \/ Return(Failed, "output"))
  <2>1. /\ dn # Failed /\ Continue(next)
        /\ step.type = WantedType(call)
    BY <1>3 DEF Resolve, ResolvedTo, Fail
  <2>2. ResolveOK(step)
    BY <1>1 DEF PoolInv, StepOK
  <2>3. PICK d, o : /\ ViewOK(v, d, o)
                    /\ \E f \in FilesOf(d, call.snap) :
                          /\ f.path \in Seq(STRING) /\ f.path \o step.left = call.path
                          /\ f.object = step.object /\ f.type = step.type
    BY <2>2 DEF ResolveOK
  <2>4. PICK f \in FilesOf(d, call.snap) :
               /\ f.path \in Seq(STRING) /\ f.path \o step.left = call.path
               /\ f.object = step.object /\ f.type = step.type
    BY <2>3
  <2>5. /\ Opened(call, d, o) /\ v.meta = MetaOf(d, o) /\ v.key = KeyOf(d, o)
    BY <2>3 DEF ViewOK
  <2>6. f.path = call.path
    <3>1. \A p \in Seq(STRING) : p \o <<>> = p
      OBVIOUS
    <3> QED BY <1>1, <2>4, <3>1
  <2>7. Target(call, d, o, f)
    BY <2>4, <2>5, <2>6 DEF Target
  <2>8. dn = DnOf(d, o, f)
    <3>1. KeptObject(v.meta, f.object, v.key)
      BY <2>5, OpenedFacts
    <3>2. dn \in {Failed, Intact!Object(v.meta, f.object, v.key)}
      BY <2>4, <3>1, ObjectKept
    <3> QED BY <2>1, <2>5, <3>2 DEF DnOf
  <2>9. BufferOK(<<>>, f, dn.blksz)
    <3>1. CASE f.type # "file"
      BY <3>1 DEF BufferOK
    <3>2. CASE f.type = "file"
      <4>1. FileSound(f, v.meta, v.key)
        BY <2>5, <3>2, OpenedFacts
      <4>2. f.bytes \in Seq(Nat) /\ dn.blksz \in Nat
        BY <2>5, <2>8, <4>1 DEF FileSound, DataSound, DnOf
      <4> HIDE DEF dn
      <4>3. <<>> \in Seq(Nat) /\ Len(<<>>) = 0 /\ Len(f.bytes) \in Nat
        BY <4>2
      <4>4. Begins(<<>>, f.bytes)
        BY <4>3 DEF Begins
      <4>5. 0 = 0 * dn.blksz
        BY <4>2
      <4> QED BY <4>3, <4>4, <4>5 DEF BufferOK, PartOf
    <3> QED BY <3>1, <3>2
  <2>10. call.op \in FileOps
    BY <2>2 DEF ResolveOK
  <2>11. /\ next.at = call.op /\ next.dn = dn /\ next.size = attrs(dn, v.sa) /\ next.view = v
         /\ next.object = step.object /\ next.buffer = <<>>
         /\ next = [at |-> next.at, dn |-> next.dn, size |-> next.size, view |-> next.view,
                    object |-> next.object, buffer |-> next.buffer]
    OBVIOUS
  <2> HIDE DEF next, dn, v
  <2>12. f.type = WantedType(call)
    BY <2>1, <2>4
  <2>13. /\ ViewOK(next.view, d, o) /\ Target(call, d, o, f)
         /\ next.object = f.object /\ next.dn = DnOf(d, o, f)
         /\ next.size = attrs(next.dn, next.view.sa)
         /\ f.type = WantedType(call)
         /\ BufferOK(next.buffer, f, next.dn.blksz)
    BY <2>3, <2>4, <2>7, <2>8, <2>9, <2>11, <2>12
  <2>14. FileOK(next)
    BY <2>10, <2>11, <2>13 DEF FileOK
  <2>15. StepOK(next)
    BY <2>10, <2>11, <2>14 DEF StepOK, FileOps
  <2> QED BY <1>1, <2>1, <2>15, ContinueKeeps
<1> QED BY <1>2, <1>3

-----------------------------------------------------------------------------
(* What a command on a file has found.                                     *)

Found(s, d, o, f) ==
    /\ ViewOK(s.view, d, o) /\ Target(call, d, o, f)
    /\ s.object = f.object /\ s.dn = DnOf(d, o, f)
    /\ s.size = attrs(s.dn, s.view.sa)
    /\ f.type = WantedType(call)
    /\ BufferOK(s.buffer, f, s.dn.blksz)

LEMMA FileStep ==
    ASSUME PoolInv, step.at \in FileOps \cup {"sidecar"}
    PROVE  /\ FileOK(step) /\ call.op \in FileOps /\ (step.at = "sidecar" => call.op = "extract")
           /\ step.at # "sidecar" => step.at = call.op
           /\ \E d, o, f : Found(step, d, o, f)
<1>1. FileOK(step)
  BY DEF PoolInv, StepOK
<1> QED BY <1>1 DEF FileOK, Found, FileOps

LEMMA FoundFacts ==
    ASSUME PoolInv, NEW s, NEW d, NEW o, NEW f, Found(s, d, o, f)
    PROVE  /\ f \in Named(call) /\ f \in Within(call) /\ f \in pool.files
           /\ s.view.meta = MetaOf(d, o) /\ s.view.key = KeyOf(d, o) /\ s.view.snap = call.snap
           /\ s.view.sa <=> SaOf(s.view.meta, s.view.key)
           /\ s.dn = Intact!Object(s.view.meta, f.object, s.view.key)
           /\ f.type = "dir" => FolderSound(f, s.view.meta, s.view.key)
           /\ f.type = "file" => FileSound(f, s.view.meta, s.view.key)
           /\ \A g \in Within(call) : g.key = call.key
<1>1. Opened(call, d, o) /\ f \in FilesOf(d, call.snap) /\ f.path = call.path
  BY DEF Found, Target
<1>2. Denotes(call.ds, d) /\ Site(call, d, o)
  BY <1>1 DEF Opened, Site
<1>3. f \in Within(call) /\ f \in Named(call) /\ f \in pool.files
  BY <1>1, <1>2 DEF Within, Named, FilesOf
<1>4. /\ s.view.meta = MetaOf(d, o) /\ s.view.key = KeyOf(d, o) /\ s.view.snap = call.snap
      /\ s.view.sa <=> SaOf(s.view.meta, s.view.key)
  BY DEF Found, ViewOK
<1>5. s.dn = Intact!Object(s.view.meta, f.object, s.view.key)
  BY <1>4 DEF Found, DnOf
<1>6. /\ f.type = "dir" => FolderSound(f, s.view.meta, s.view.key)
      /\ f.type = "file" => FileSound(f, s.view.meta, s.view.key)
  BY <1>1, <1>4, OpenedFacts
<1>7. \A g \in Within(call) : g.key = call.key
  BY <1>1, <1>2, SiteFacts, OpenedFacts
<1> QED BY <1>3, <1>4, <1>5, <1>6, <1>7

LEMMA ListKeeps ==
    ASSUME PoolInv, List
    PROVE  PoolInv'
<1> DEFINE v == step.view
           entries == read_zap_object_with_key(step.dn, v.key)
           SizeAt(e) == SizeOf(dnode_with_key(v.meta, e[2].object, v.key))
           R(e) == [name |-> e[1], type |-> e[2].type, size |-> SizeAt(e)]
<1>1. step.at = "list" /\ Quiet /\ step # Idle
  BY RunningFacts DEF List, Quiet, diskVars
<1>2. CASE Return(Failed, "source")
  BY <1>1, <1>2, FailKeeps
<1>3. CASE ~Return(Failed, "source")
  <2> DEFINE value == {R(e) : e \in entries}
  <2>1. entries # Failed /\ Return(value, "done")
    BY <1>3 DEF List, Listing, Fail
  <2>2. call.op = "list" /\ \E d, o, f : Found(step, d, o, f)
    BY <1>1, FileStep DEF FileOps
  <2>3. PICK d, o, f : Found(step, d, o, f)
    BY <2>2
  <2>4. /\ f \in Named(call) /\ f.type = "dir" /\ FolderSound(f, v.meta, v.key)
        /\ v.sa <=> SaOf(v.meta, v.key)
        /\ step.dn = Intact!Object(v.meta, f.object, v.key)
        /\ \A g \in Within(call) : g.key = call.key
    BY <2>2, <2>3, FoundFacts DEF Found, WantedType
  <2> DEFINE written == Intact!Zap(v.meta, f.object, v.key)
             W(e) == [name |-> e[1], type |-> e[2].type,
                      size |-> attrs(Intact!Object(v.meta, e[2].object, v.key),
                                     SaOf(v.meta, v.key))]
  <2>5. entries = written
    <3>1. KeptZapObject(v.meta, f.object, v.key)
      BY <2>4 DEF FolderSound
    <3>2. KeptZap(step.dn, v.key) /\ step.dn # Failed
      BY <2>4, <3>1, ObjectKept DEF KeptZapObject
    <3>3. entries \in {Failed, Intact!read_zap_object_with_key(step.dn, v.key)}
      BY <3>2, ZapRead
    <3>4. written = Intact!read_zap_object_with_key(step.dn, v.key)
      BY <2>4 DEF Intact!Zap
    <3> QED BY <2>1, <3>3, <3>4
  <2>6. f.entries = {W(e) : e \in written}
    BY <2>4 DEF FolderSound
  <2>7. ASSUME NEW e \in written
        PROVE  R(e) = W(e) \/ (R(e).size = None /\ ~EveryBlockHasACopy)
    <3> DEFINE dn == Intact!Object(v.meta, e[2].object, v.key)
               there == dnode_with_key(v.meta, e[2].object, v.key)
    <3>1. KeptObject(v.meta, e[2].object, v.key)
      BY <2>4 DEF FolderSound
    <3>2. /\ there \in {Failed, dn} /\ dn \notin {None, Failed}
          /\ EveryBlockHasACopy => there = dn
      BY <3>1, ObjectKept
    <3>3. R(e).size = SizeOf(there)
      OBVIOUS
    <3> HIDE DEF there, dn
    <3>4. CASE there = Failed
      <4>1. SizeOf(there) = None
        BY <3>4 DEF SizeOf
      <4> QED BY <3>2, <3>3, <3>4, <4>1
    <3>5. CASE there = dn
      <4>1. SizeOf(there) = attrs(dn, SaOf(v.meta, v.key))
        BY <2>4, <3>2, <3>5 DEF SizeOf, attrs
      <4> QED BY <4>1 DEF there, dn
    <3> QED BY <3>2, <3>4, <3>5
  <2>8. \A e \in written : R(e).name = W(e).name /\ R(e).type = W(e).type
    OBVIOUS
  <2> HIDE DEF R, W, written
  <2>9. /\ \A x \in value : \E y \in f.entries : x.name = y.name /\ x.type = y.type
        /\ \A y \in f.entries : \E x \in value : x.name = y.name /\ x.type = y.type
        /\ \A x \in value : x \in f.entries \/ (x.size = None /\ ~EveryBlockHasACopy)
    BY <2>5, <2>6, <2>7, <2>8
  <2>10. {[name |-> e.name, type |-> e.type] : e \in value}
           = {[name |-> e.name, type |-> e.type] : e \in f.entries}
    <3> DEFINE P(e) == [name |-> e.name, type |-> e.type]
    <3>1. \A x, y : x.name = y.name /\ x.type = y.type => P(x) = P(y)
      OBVIOUS
    <3> HIDE DEF P, value
    <3>2. {P(e) : e \in value} = {P(e) : e \in f.entries}
      BY <2>9, <3>1
    <3> QED BY <3>2 DEF P
  <2> DEFINE r == [call |-> call, value |-> value, why |-> "done"]
  <2>11. r.call = call /\ r.value = value
    OBVIOUS
  <2> HIDE DEF r, value
  <2>12. ResultOf(r)
    BY <2>2, <2>4, <2>9, <2>10, <2>11
       DEF ResultOf, DeliveredOf, ListingOf, CatalogOf, KeyRight
  <2> QED BY <1>1, <2>1, <2>2, <2>12, ReturnKeeps DEF r
<1> QED BY <1>2, <1>3

-----------------------------------------------------------------------------
(* The bytes of a file.                                                    *)

LEMMA DivOf ==
    ASSUME NEW b \in Nat \ {0}, NEW q \in Nat, NEW r \in 0..(b - 1)
    PROVE  (q * b + r) \div b = q /\ (q * b + r) % b = r
OBVIOUS

LEMMA MinOfTwo ==
    ASSUME NEW a \in Nat, NEW b \in Nat
    PROVE  /\ Min({a, b}) = IF a <= b THEN a ELSE b
           /\ Min({a, b}) \in Nat /\ Min({a, b}) <= a /\ Min({a, b}) <= b
<1>1. {a, b} \in SUBSET Nat /\ {a, b} # {}
  OBVIOUS
<1>2. Min({a, b}) \in {a, b} /\ \A y \in {a, b} : Min({a, b}) <= y
  BY <1>1, MinIs
<1> QED BY <1>2

\* A sequence of n elements.
Elements(e, n) == e = [i \in 1..n |-> e[i]]

LEMMA ExtendedIs ==
    ASSUME NEW block, NEW n \in Nat
    PROVE  /\ Elements(Extended(block, n), n)
           /\ \A i \in 1..n : Extended(block, n)[i] = ByteOf(block, i - 1)
<1>1. \A i \in 1..n : (i - 1) + 1 = i
  OBVIOUS
<1> QED BY <1>1 DEF Extended, ByteOf, Elements

LEMMA ElementsSeq ==
    ASSUME NEW n \in Nat, NEW e, Elements(e, n), NEW S, \A i \in 1..n : e[i] \in S
    PROVE  e \in Seq(S) /\ Len(e) = n
<1> DEFINE g == [i \in 1..n |-> e[i]]
<1>1. g \in Seq(S) /\ Len(g) = n
  OBVIOUS
<1>2. e = g
  BY DEF Elements
<1> HIDE DEF g
<1> QED BY <1>1, <1>2

LEMMA Joining ==
    ASSUME NEW b \in Seq(Nat), NEW e \in Seq(Nat)
    PROVE  /\ b \o e \in Seq(Nat) /\ Len(b \o e) = Len(b) + Len(e)
           /\ \A i \in 1..Len(b) : (b \o e)[i] = b[i]
           /\ \A i \in 1..Len(e) : (b \o e)[Len(b) + i] = e[i]
OBVIOUS

\* The first n elements of e are those of bytes from a position on.
Matches(e, n, bytes, at) == \A i \in 1..n : e[i] = bytes[at + i]

\* More of the file's bytes after some of them.
LEMMA Grown ==
    ASSUME NEW bytes \in Seq(Nat), NEW b \in Seq(Nat), NEW at \in Nat,
           Matches(b, Len(b), bytes, at), NEW n \in Nat, NEW e, Elements(e, n),
           at + Len(b) + n <= Len(bytes), Matches(e, n, bytes, at + Len(b))
    PROVE  /\ b \o e \in Seq(Nat) /\ Len(b \o e) = Len(b) + n
           /\ Matches(b \o e, Len(b) + n, bytes, at)
<1> DEFINE l == Len(b)
           N == Len(bytes)
           c == b \o e
<1>1. l \in Nat /\ N \in Nat /\ at + l + n <= N
  OBVIOUS
<1>0. \A i \in 1..n : e[i] = bytes[at + l + i]
  BY DEF Matches
<1>2. \A i \in 1..n : e[i] \in Nat
  <2>1. \A j \in 1..N : bytes[j] \in Nat
    OBVIOUS
  <2>2. \A i \in 1..n : at + l + i \in 1..N
    <3> HIDE DEF l, N
    <3> QED BY <1>1
  <2> QED BY <1>0, <2>1, <2>2
<1>3. e \in Seq(Nat) /\ Len(e) = n
  BY <1>2, ElementsSeq
<1>4. /\ c \in Seq(Nat) /\ Len(c) = l + n
      /\ \A i \in 1..l : c[i] = b[i]
      /\ \A i \in 1..n : c[l + i] = e[i]
  BY <1>3, Joining
<1>5. ASSUME NEW i \in 1..(l + n)
      PROVE  c[i] = bytes[at + i]
  <2>1. CASE i \in 1..l
    BY <1>4, <2>1 DEF Matches
  <2>2. CASE i \notin 1..l
    <3> DEFINE k == i - l
    <3>1. k \in 1..n /\ i = l + k /\ at + l + k = at + i
      <4> HIDE DEF l
      <4> QED BY <1>1, <2>2
    <3> HIDE DEF k
    <3>2. c[l + k] = e[k] /\ e[k] = bytes[at + l + k]
      BY <1>0, <1>4, <3>1
    <3> QED BY <3>1, <3>2
  <2> QED BY <2>1, <2>2
<1> QED BY <1>4, <1>5 DEF Matches

LEMMA GrownFirst ==
    ASSUME NEW bytes \in Seq(Nat), NEW b \in Seq(Nat), Begins(b, bytes), NEW n \in Nat,
           NEW e, Elements(e, n), Len(b) + n <= Len(bytes), Matches(e, n, bytes, Len(b))
    PROVE  b \o e \in Seq(Nat) /\ Len(b \o e) = Len(b) + n /\ Begins(b \o e, bytes)
<1> DEFINE z == 0
           c == b \o e
<1>1. Len(b) \in Nat /\ Len(bytes) \in Nat
  OBVIOUS
<1>2. /\ z \in Nat /\ z + Len(b) = Len(b) /\ z + Len(b) + n <= Len(bytes)
  BY <1>1
<1>3. \A i \in 1..Len(b) : b[i] = bytes[z + i]
  BY <1>1 DEF Begins
<1>4. \A i \in 1..(Len(b) + n) : z + i = i
  BY <1>1
<1> HIDE DEF z
<1>5. Matches(b, Len(b), bytes, z) /\ Matches(e, n, bytes, z + Len(b))
  BY <1>2, <1>3 DEF Matches
<1>6. c \in Seq(Nat) /\ Len(c) = Len(b) + n /\ Matches(c, Len(b) + n, bytes, z)
  BY <1>2, <1>5, Grown
<1> HIDE DEF c
<1>7. Begins(c, bytes)
  BY <1>4, <1>6 DEF Begins, Matches
<1> QED BY <1>6, <1>7 DEF c

\* A block that is read has the file's bytes.
LEMMA BlockRead ==
    ASSUME NEW f, NEW dn, NEW key, DataSound(f, dn, key), ~Unprotected(f), dn.blksz # 0,
           NEW q \in Nat, read_dnode_data_with_key(dn, q, key) # Failed
    PROVE  /\ q \in 0..dn.maxblkid
           /\ read_dnode_data_with_key(dn, q, key) = BlockOf(dn, q, key)
<1>1. ~(q > dn.maxblkid)
  BY DEF read_dnode_data_with_key
<1>2. q \in 0..dn.maxblkid
  BY <1>1 DEF DataSound
<1>3. KeptData(dn, q, key)
  BY <1>2 DEF DataSound
<1>4. read_dnode_data_with_key(dn, q, key) = Intact!read_dnode_data_with_key(dn, q, key)
  BY <1>3, DataKept
<1> QED BY <1>1, <1>2, <1>4 DEF BlockOf

\* After q blocks in b come n bytes of the next one.
NextPart(bytes, size, b, q, n) ==
    /\ Len(b) < Len(bytes) /\ Len(b) = q * size
    /\ n = IF Len(bytes) - Len(b) <= size THEN Len(bytes) - Len(b) ELSE size

\* The record that is appended is the file's next.
LEMMA Appended ==
    ASSUME NEW f, NEW dn, NEW key, DataSound(f, dn, key), ~Unprotected(f), dn.blksz # 0,
           NEW b \in Seq(Nat), Begins(b, f.bytes), NEW q \in Nat, NEW n \in Nat,
           NextPart(f.bytes, dn.blksz, b, q, n)
    PROVE  PartOf(b \o Extended(BlockOf(dn, q, key), n), f.bytes, dn.blksz)
<1> DEFINE bytes == f.bytes
           size == dn.blksz
           block == BlockOf(dn, q, key)
           e == Extended(block, n)
           c == b \o e
<1>1. bytes \in Seq(Nat) /\ size \in Nat \ {0} /\ Len(bytes) \in Nat /\ Len(b) \in Nat
  BY DEF DataSound
<1>2. Elements(e, n) /\ \A i \in 1..n : e[i] = ByteOf(block, i - 1)
  BY ExtendedIs
<1>3. n <= size /\ Len(b) + n <= Len(bytes) /\ Len(b) = q * size
  <2>1. Len(b) = q * size
    BY DEF NextPart
  <2>2. ASSUME NEW l \in Nat, NEW N \in Nat, NEW k \in Nat, l < N,
               n = IF N - l <= k THEN N - l ELSE k
        PROVE  n <= k /\ l + n <= N
    BY <2>2
  <2>3. n <= size /\ Len(b) + n <= Len(bytes)
    BY <1>1, <2>2 DEF NextPart
  <2> QED BY <2>1, <2>3
<1>4. ASSUME NEW i \in 1..n
      PROVE  e[i] = bytes[Len(b) + i]
  <2> DEFINE pos == q * size + (i - 1)
  <2>1. i - 1 \in 0..(size - 1)
    BY <1>1, <1>3
  <2>2. pos \div size = q /\ pos % size = i - 1
    <3> HIDE DEF size
    <3> QED BY <1>1, <2>1, DivOf
  <2>3. pos = Len(b) + (i - 1) /\ pos \in 0..(Len(bytes) - 1) /\ pos + 1 = Len(b) + i
    <3>1. pos = Len(b) + (i - 1)
      BY <1>3
    <3> DEFINE l == Len(b)
               N == Len(bytes)
    <3>2. l \in Nat /\ N \in Nat /\ l + n <= N /\ pos = l + (i - 1)
      BY <1>1, <1>3, <3>1
    <3> HIDE DEF pos, l, N
    <3>3. pos = l + (i - 1) /\ pos \in 0..(N - 1) /\ pos + 1 = l + i
      BY <3>2
    <3> QED BY <3>3 DEF l, N
  <2>4. bytes[pos + 1] = ByteAt(dn, pos, key)
    <3> HIDE DEF pos
    <3> QED BY <2>3 DEF DataSound
  <2>5. ByteAt(dn, pos, key) = ByteOf(block, i - 1)
    BY <2>2 DEF ByteAt
  <2> QED BY <1>2, <2>3, <2>4, <2>5
<1>5. Begins(b, bytes)
  OBVIOUS
<1>6. Len(c) = Len(bytes) \/ Len(c) = (q + 1) * size
      \/ Len(c) # Len(b) + n
  <2>1. (q + 1) * size = q * size + size
    <3>1. size \in Nat
      BY <1>1
    <3> HIDE DEF size
    <3> QED BY <3>1
  <2> DEFINE l == Len(b)
             N == Len(bytes)
  <2>2. /\ l \in Nat /\ N \in Nat /\ l < N /\ l = q * size
        /\ n = IF N - l <= size THEN N - l ELSE size
    BY <1>1 DEF NextPart
  <2>3. ASSUME NEW k \in Nat, NEW i \in Nat, NEW M \in Nat, i < M,
               n = IF M - i <= k THEN M - i ELSE k
        PROVE  i + n = M \/ i + n = i + k
    BY <2>3
  <2>4. l + n = N \/ l + n = l + size
    <3>1. size \in Nat
      BY <1>1
    <3> HIDE DEF l, N, size
    <3> QED BY <2>2, <2>3, <3>1
  <2> HIDE DEF c, size
  <2> QED BY <2>1, <2>2, <2>4
<1> HIDE DEF e, bytes
<1>7. c \in Seq(Nat) /\ Len(c) = Len(b) + n /\ Begins(c, bytes)
  <2>1. Matches(e, n, bytes, Len(b))
    BY <1>4 DEF Matches
  <2>2. Elements(e, n) /\ Begins(b, bytes) /\ bytes \in Seq(Nat) /\ Len(b) + n <= Len(bytes)
    BY <1>1, <1>2, <1>3, <1>5
  <2> HIDE DEF c, size, block
  <2>3. b \o e \in Seq(Nat) /\ Len(b \o e) = Len(b) + n /\ Begins(b \o e, bytes)
    BY <2>1, <2>2, GrownFirst
  <2> QED BY <2>3 DEF c
<1> HIDE DEF c
<1>8. q + 1 \in Nat /\ (Len(c) = Len(bytes) \/ Len(c) = (q + 1) * size)
  BY <1>6, <1>7
<1>9. PartOf(c, bytes, size)
  BY <1>7, <1>8 DEF PartOf
<1> QED BY <1>9 DEF c, e, bytes

\* The block after the buffer.
NextId(b, dn) == Len(b) \div dn.blksz

LEMMA NextBlock ==
    ASSUME NEW f, NEW dn, NEW key, DataSound(f, dn, key), Certain(f), f.type = "file", dn.blksz # 0,
           NEW b, BufferOK(b, f, dn.blksz), Len(b) < Len(f.bytes),
           read_dnode_data_with_key(dn, NextId(b, dn), key) # Failed
    PROVE  /\ b \in Seq(Nat) /\ Begins(b, f.bytes)
           /\ NextId(b, dn) \in 0..dn.maxblkid /\ Len(b) = NextId(b, dn) * dn.blksz
           /\ read_dnode_data_with_key(dn, NextId(b, dn), key)
                = BlockOf(dn, NextId(b, dn), key)
<1>1. /\ b \in Seq(Nat) /\ Begins(b, f.bytes)
      /\ Len(b) = Len(f.bytes) \/ \E q \in Nat : Len(b) = q * dn.blksz
  BY DEF BufferOK, PartOf
<1>2. f.bytes \in Seq(Nat) /\ dn.blksz \in Nat \ {0} /\ ~Unprotected(f)
  BY DEF DataSound, Certain
<1>3. Len(b) \in Nat /\ Len(f.bytes) \in Nat
  BY <1>1, <1>2
<1>4. PICK q \in Nat : Len(b) = q * dn.blksz
  BY <1>1, <1>3
<1>5. NextId(b, dn) = q
  <2> DEFINE s == dn.blksz
             z == 0
  <2>1. s \in Nat \ {0} /\ z \in 0..(s - 1)
    BY <1>2
  <2>2. q * s + z = q * s
    BY <1>2
  <2> HIDE DEF s, z
  <2>3. (q * s + z) \div s = q
    BY <2>1, DivOf
  <2> QED BY <1>4, <2>2, <2>3 DEF NextId, s
<1>6. q \in 0..dn.maxblkid /\ read_dnode_data_with_key(dn, q, key) = BlockOf(dn, q, key)
  BY <1>2, <1>5, BlockRead
<1> QED BY <1>1, <1>4, <1>5, <1>6

LEMMA NextBuffer ==
    ASSUME NEW f, NEW dn, NEW key, DataSound(f, dn, key), Certain(f), f.type = "file", dn.blksz # 0,
           NEW b, BufferOK(b, f, dn.blksz), Len(b) < Len(f.bytes),
           read_dnode_data_with_key(dn, NextId(b, dn), key) # Failed,
           NEW n, n = Min({Len(f.bytes) - Len(b), dn.blksz})
    PROVE  BufferOK(b \o Extended(read_dnode_data_with_key(dn, NextId(b, dn), key), n),
                    f, dn.blksz)
<1> DEFINE q == NextId(b, dn)
           e == Extended(BlockOf(dn, q, key), n)
<1>1. /\ b \in Seq(Nat) /\ Begins(b, f.bytes)
      /\ q \in 0..dn.maxblkid /\ Len(b) = q * dn.blksz
      /\ read_dnode_data_with_key(dn, q, key) = BlockOf(dn, q, key)
  BY NextBlock
<1>2. f.bytes \in Seq(Nat) /\ dn.blksz \in Nat \ {0} /\ dn.maxblkid \in Nat /\ ~Unprotected(f)
  BY DEF DataSound, Certain
<1>3. q \in Nat
  BY <1>1, <1>2
<1>4. n \in Nat /\ NextPart(f.bytes, dn.blksz, b, q, n)
  <2>1. Len(b) \in Nat /\ Len(f.bytes) \in Nat /\ Len(f.bytes) - Len(b) \in Nat
    <3>1. Len(b) \in Nat /\ Len(f.bytes) \in Nat
      BY <1>1, <1>2
    <3> QED BY <3>1
  <2>2. /\ n \in Nat
        /\ n = IF Len(f.bytes) - Len(b) <= dn.blksz THEN Len(f.bytes) - Len(b) ELSE dn.blksz
    BY <1>2, <2>1, MinOfTwo
  <2> QED BY <1>1, <2>2 DEF NextPart
<1> HIDE DEF q
<1>5. PartOf(b \o e, f.bytes, dn.blksz)
  BY <1>1, <1>2, <1>3, <1>4, Appended
<1>6. BufferOK(b \o e, f, dn.blksz)
  BY <1>5 DEF BufferOK
<1> QED BY <1>1, <1>6 DEF q

\* A step that adds to the buffer.
LEMMA BufferKeeps ==
    ASSUME PoolInv, Quiet, step # Idle, step.at \in FileOps,
           NEW c, Continue([step EXCEPT !.buffer = c]),
           NEW d, NEW o, NEW f, Found(step, d, o, f), BufferOK(c, f, step.dn.blksz)
    PROVE  PoolInv'
<1> DEFINE next == [at |-> step.at, dn |-> step.dn, size |-> step.size, view |-> step.view,
                    object |-> step.object, buffer |-> c]
<1>1. FileOK(step) /\ call.op \in FileOps /\ step.at = call.op
  <2>1. step.at # "sidecar"
    BY DEF FileOps
  <2> QED BY <2>1, FileStep
<1>2. [step EXCEPT !.buffer = c] = next
  <2>1. step = [at |-> step.at, dn |-> step.dn, size |-> step.size, view |-> step.view,
                object |-> step.object, buffer |-> step.buffer]
    BY <1>1 DEF FileOK
  <2> QED BY <2>1
<1>3. Continue(next)
  BY <1>2
<1>4. /\ next.at = step.at /\ next.dn = step.dn /\ next.size = step.size
      /\ next.view = step.view /\ next.object = step.object /\ next.buffer = c
      /\ next = [at |-> next.at, dn |-> next.dn, size |-> next.size, view |-> next.view,
                 object |-> next.object, buffer |-> next.buffer]
  OBVIOUS
<1> HIDE DEF next
<1>5. Found(next, d, o, f)
  BY <1>4 DEF Found
<1>6. FileOK(next)
  BY <1>1, <1>4, <1>5 DEF FileOK, Found
<1>7. StepOK(next)
  BY <1>1, <1>4, <1>6 DEF StepOK, FileOps
<1> QED BY <1>3, <1>7, ContinueKeeps

\* What a command that reads a file knows of it.
LEMMA ReadingFacts ==
    ASSUME PoolInv, NEW d, NEW o, NEW f, Found(step, d, o, f), call.op # "list"
    PROVE  /\ f.type = "file" /\ DataSound(f, step.dn, step.view.key) /\ step.size = Len(f.bytes)
           /\ BufferOK(step.buffer, f, step.dn.blksz)
           /\ Len(f.bytes) \in Nat
<1>1. f.type = "file" /\ BufferOK(step.buffer, f, step.dn.blksz)
      /\ step.size = attrs(step.dn, step.view.sa)
  BY DEF Found, WantedType
<1>2. /\ FileSound(f, step.view.meta, step.view.key)
      /\ step.view.sa <=> SaOf(step.view.meta, step.view.key)
      /\ step.dn = Intact!Object(step.view.meta, f.object, step.view.key)
  BY <1>1, FoundFacts
<1>3. DataSound(f, step.dn, step.view.key)
  BY <1>2 DEF FileSound
<1>4. step.size = Len(f.bytes)
  BY <1>1, <1>2 DEF FileSound, attrs
<1>5. f.bytes \in Seq(Nat)
  BY <1>3 DEF DataSound
<1> QED BY <1>1, <1>3, <1>4, <1>5

LEMMA WriteRecordKeeps ==
    ASSUME PoolInv, WriteRecord
    PROVE  PoolInv'
<1> DEFINE b == step.buffer
           dn == step.dn
           key == step.view.key
           block == read_dnode_data_with_key(dn, NextId(b, dn), key)
           n == RecordLength(dn, step.size - Len(b))
           c == b \o Extended(block, n)
<1>1. step.at \in {"extract", "treefile"} /\ Len(b) < step.size /\ Quiet /\ step # Idle
  BY RunningFacts DEF WriteRecord, Extracting, Quiet, diskVars
<1>2. CASE Return(Failed, "source")
  BY <1>1, <1>2, FailKeeps
<1>3. CASE ~Return(Failed, "source")
  <2>1. dn.blksz # 0 /\ block # Failed /\ Continue([step EXCEPT !.buffer = @ \o Extended(block, n)])
    BY <1>3 DEF WriteRecord, Written, Fail, NextId
  <2>2. Continue([step EXCEPT !.buffer = c])
    BY <2>1
  <2>3. step.at \in FileOps /\ call.op # "list" /\ \E d, o, f : Found(step, d, o, f)
    BY <1>1, FileStep DEF FileOps
  <2>4. PICK d, o, f : Found(step, d, o, f)
    BY <2>3
  <2>5. /\ f.type = "file" /\ DataSound(f, dn, key) /\ step.size = Len(f.bytes)
        /\ BufferOK(b, f, dn.blksz)
    BY <2>3, <2>4, ReadingFacts
  <2>6. BufferOK(c, f, dn.blksz)
    <3>1. CASE Certain(f)
      <4>1. n = Min({Len(f.bytes) - Len(b), dn.blksz}) /\ Len(b) < Len(f.bytes)
        BY <1>1, <2>5 DEF RecordLength
      <4> HIDE DEF b, dn, key, n
      <4> QED BY <2>1, <2>5, <3>1, <4>1, NextBuffer
    <3>2. CASE ~Certain(f)
      BY <3>2 DEF BufferOK
    <3> QED BY <3>1, <3>2
  <2> HIDE DEF c
  <2> QED BY <1>1, <2>2, <2>3, <2>4, <2>6, BufferKeeps
<1> QED BY <1>2, <1>3

-----------------------------------------------------------------------------
(* The whole file.                                                         *)

LEMMA WholeIs ==
    ASSUME NEW bytes \in Seq(Nat), NEW b \in Seq(Nat), Begins(b, bytes), Len(b) = Len(bytes)
    PROVE  b = bytes
<1>1. \A i \in 1..Len(b) : b[i] = bytes[i]
  BY DEF Begins
<1> QED BY <1>1

LEMMA WholeFile ==
    ASSUME PoolInv, NEW d, NEW o, NEW f, Found(step, d, o, f),
           call.op \in {"extract", "treefile", "small"}, Len(step.buffer) = step.size
    PROVE  /\ f \in pool.files /\ f.type = "file" /\ f.snap = call.snap /\ f.path = call.path
           /\ Len(step.buffer) = Len(f.bytes)
           /\ Certain(f) => step.buffer = f.bytes
           /\ ResultOf([call |-> call, value |-> step.buffer, why |-> "done"])
<1> DEFINE b == step.buffer
           r == [call |-> call, value |-> b, why |-> "done"]
<1>1. f \in Named(call) /\ f \in pool.files /\ \A g \in Within(call) : g.key = call.key
  BY FoundFacts
<1>2. f.snap = call.snap /\ f.path = call.path
  BY DEF Found, Target, FilesOf
<1>3. /\ f.type = "file" /\ DataSound(f, step.dn, step.view.key) /\ step.size = Len(f.bytes)
      /\ BufferOK(b, f, step.dn.blksz)
  BY ReadingFacts
<1>4. Len(b) = Len(f.bytes) /\ (Certain(f) => b = f.bytes)
  <2>1. f.bytes \in Seq(Nat)
    BY <1>3 DEF DataSound
  <2>2. Certain(f) => b \in Seq(Nat) /\ Begins(b, f.bytes)
    BY <1>3 DEF BufferOK, PartOf
  <2>3. Len(b) = Len(f.bytes)
    BY <1>3
  <2> HIDE DEF b
  <2> QED BY <2>1, <2>2, <2>3, WholeIs
<1>5. Bytes(f, call) = f.bytes
  BY DEF Bytes
<1>6. r.call = call /\ r.value = b
  OBVIOUS
<1> HIDE DEF r, b
<1>7. DeliveredOf(r)
  BY <1>1, <1>3, <1>4, <1>5, <1>6 DEF DeliveredOf, Certain
<1>8. ResultOf(r)
  BY <1>1, <1>6, <1>7 DEF ResultOf, ListingOf, CatalogOf, KeyRight
<1> QED BY <1>1, <1>2, <1>3, <1>4, <1>8 DEF r, b

\* A command returns, having changed what is at the destination.
LEMMA ReturnWith ==
    ASSUME PoolInv, UNCHANGED diskVars, UNCHANGED <<call, handle, calls>>,
           NEW value, Return(value, "done"), OutputOK',
           ResultOf([call |-> call, value |-> value, why |-> "done"])
    PROVE  PoolInv'
<1> DEFINE r == [call |-> call, value |-> value, why |-> "done"]
<1>1. pool' = pool /\ call' = call /\ calls' = calls /\ handle' = handle /\ damage' = damage
  BY DEF diskVars
<1>2. step' = Idle /\ result' = r
  BY DEF Return
<1>3. PoolSound'
  BY <1>1, SoundRigid DEF PoolInv
<1>4. HandleOK'
  BY <1>1, HandleKept DEF PoolInv
<1>5. StepOK(step)'
  BY <1>2 DEF StepOK, Idle, FileOps
<1>6. ASSUME NEW x, ResultOf(x)
      PROVE  ResultOf(x)'
  BY <1>1, <1>6, ResultRigid
<1>7. ResultOK'
  <2>1. \E x : x = r /\ ResultOf(x)
    OBVIOUS
  <2>2. \E x : x = result' /\ ResultOf(x)'
    BY <1>2, <1>6, <2>1
  <2> QED BY <2>2 DEF ResultOK
<1> QED BY <1>1, <1>2, <1>3, <1>4, <1>5, <1>7 DEF PoolInv

\* The file is in place; its sidecar is not.
Finished(s) ==
    /\ s = [at |-> s.at, dn |-> s.dn, size |-> s.size, view |-> s.view,
            object |-> s.object, buffer |-> s.buffer]
    /\ s.at = "sidecar" /\ Len(s.buffer) = s.size /\ \E d, o, f : Found(s, d, o, f)

LEMMA FinishedOK ==
    ASSUME pool' = pool, call' = call, call.op = "extract",
           NEW s, Finished(s), output' = s.buffer
    PROVE  StepOK(s)'
<1>1. PICK d, o, f : Found(s, d, o, f)
  BY DEF Finished
<1>2. ViewOK(s.view, d, o)' <=> ViewOK(s.view, d, o)
  BY ViewRigid
<1>3. /\ Target(call, d, o, f)' <=> Target(call, d, o, f)
      /\ DnOf(d, o, f)' = DnOf(d, o, f)
  BY SiteRigid
<1>4. BufferOK(s.buffer, f, s.dn.blksz)' <=> BufferOK(s.buffer, f, s.dn.blksz)
  BY DEF BufferOK, Certain
<1>5. Found(s, d, o, f)'
  BY <1>1, <1>2, <1>3, <1>4 DEF Found
<1>6. FileOK(s)'
  BY <1>5 DEF FileOK, Found, Finished, FileOps
<1> QED BY <1>6 DEF StepOK, FileOps, Finished

LEMMA PublishKeeps ==
    ASSUME PoolInv, Publish
    PROVE  PoolInv'
<1> DEFINE b == step.buffer
<1>1. step.at \in {"extract", "treefile"} /\ Len(b) = step.size /\ step # Idle
  BY RunningFacts DEF Publish, Extracting, Complete
<1>2. step.at \in FileOps /\ call.op = step.at /\ FileOK(step) /\ \E d, o, f : Found(step, d, o, f)
  BY <1>1, FileStep DEF FileOps
<1>3. PICK d, o, f : Found(step, d, o, f)
  BY <1>2
<1>4. /\ f \in pool.files /\ f.type = "file" /\ Len(b) = Len(f.bytes)
      /\ Certain(f) => b = f.bytes
      /\ ResultOf([call |-> call, value |-> b, why |-> "done"])
  BY <1>1, <1>2, <1>3, WholeFile
<1>5. Certain(f) \/ Unprotected(f)
  BY <1>1, <1>2 DEF Certain
<1>6. /\ UNCHANGED diskVars /\ UNCHANGED <<call, handle, calls>> /\ sidecar' = sidecar
      /\ pool' = pool /\ call' = call
  BY DEF Publish, diskVars
<1>7. CASE Return(Failed, "output") /\ output' = output
  <2>1. Quiet
    BY <1>6, <1>7 DEF Quiet, fileVars
  <2> QED BY <1>7, <2>1, FailKeeps
<1>8. CASE ~(Return(Failed, "output") /\ output' = output)
  <2>1. output' = b
    BY <1>8 DEF Publish
  <2>2. OutputIsWhole'
    BY <1>4, <1>5, <1>6, <2>1 DEF OutputIsWhole, Unprotected
  <2>3. Certifies(sidecar)'
    BY <1>6 DEF PoolInv, OutputOK, Certifies, Unprotected
  <2>4. CASE call.op = "treefile"
    <3>1. Return(b, "done")
      BY <1>8, <2>4 DEF Publish
    <3>2. result'.call.op = "treefile"
      BY <2>4, <3>1 DEF Return
    <3>3. OutputOK'
      BY <2>2, <2>3, <3>2 DEF OutputOK, Done
    <3> QED BY <1>4, <1>6, <3>1, <3>3, ReturnWith
  <2>5. CASE call.op # "treefile"
    <3> DEFINE next == [at |-> "sidecar", dn |-> step.dn, size |-> step.size,
                        view |-> step.view, object |-> step.object, buffer |-> step.buffer]
    <3>1. Continue([step EXCEPT !.at = "sidecar"]) /\ call.op = "extract"
      BY <1>1, <1>2, <1>8, <2>5 DEF Publish
    <3>2. step = [at |-> step.at, dn |-> step.dn, size |-> step.size, view |-> step.view,
                  object |-> step.object, buffer |-> step.buffer]
      BY <1>2 DEF FileOK
    <3>3. [step EXCEPT !.at = "sidecar"] = next
      BY <3>2
    <3>4. step' = next /\ result' = result
      BY <3>1, <3>3 DEF Continue
    <3>5. /\ next.at = "sidecar" /\ next.dn = step.dn /\ next.size = step.size
          /\ next.view = step.view /\ next.object = step.object /\ next.buffer = b
          /\ next = [at |-> next.at, dn |-> next.dn, size |-> next.size, view |-> next.view,
                     object |-> next.object, buffer |-> next.buffer]
      OBVIOUS
    <3> HIDE DEF next
    <3>6. Found(next, d, o, f)
      BY <1>3, <3>5 DEF Found
    <3>7. Finished(next)
      BY <1>1, <1>2, <3>5, <3>6 DEF Finished
    <3>8. StepOK(step)'
      <4>1. \E s : s = step' /\ Finished(s) /\ output' = s.buffer
        BY <2>1, <3>4, <3>5, <3>7
      <4>2. \A s : Finished(s) /\ output' = s.buffer => StepOK(s)'
        BY <1>6, <3>1, FinishedOK
      <4>3. \E s : s = step' /\ StepOK(s)'
        BY <4>1, <4>2
      <4> QED BY <4>3
    <3>9. result = NoResult
      BY <1>1 DEF PoolInv
    <3>10. OutputOK' /\ ResultOK'
      BY <2>2, <2>3, <3>4, <3>9 DEF OutputOK, Done, ResultOK, NoResult
    <3>11. PoolSound' /\ HandleOK'
      BY <1>6, SoundRigid, HandleKept DEF PoolInv
    <3> QED BY <1>1, <1>6, <3>4, <3>8, <3>9, <3>10, <3>11 DEF PoolInv
  <2> QED BY <2>4, <2>5
<1> QED BY <1>7, <1>8

LEMMA SettleSidecarKeeps ==
    ASSUME PoolInv, SettleSidecar
    PROVE  PoolInv'
<1> DEFINE b == step.buffer
<1>1. step.at = "sidecar" /\ Return(b, "done")
  BY DEF SettleSidecar
<1>2. /\ UNCHANGED diskVars /\ UNCHANGED <<call, handle, calls>> /\ output' = output
      /\ pool' = pool
      /\ sidecar' = IF step.view.snap # None THEN Certificate ELSE NoSidecar
  BY DEF SettleSidecar, diskVars
<1>3. FileOK(step) /\ call.op = "extract" /\ \E d, o, f : Found(step, d, o, f)
  BY <1>1, FileStep
<1>4. output = b /\ Len(b) = step.size
  BY <1>1, <1>3 DEF FileOK
<1>5. PICK d, o, f : Found(step, d, o, f)
  BY <1>3
<1>6. /\ f \in pool.files /\ f.snap = call.snap /\ f.path = call.path
      /\ Certain(f) => b = f.bytes
      /\ ResultOf([call |-> call, value |-> b, why |-> "done"])
  BY <1>3, <1>4, <1>5, WholeFile
<1>7. Certain(f) \/ Unprotected(f)
  BY <1>3 DEF Certain
<1>8. step.view.snap = call.snap
  BY <1>5, FoundFacts
<1>9. Certificate.snap = call.snap /\ Certificate.path = call.path /\ Certificate.sha256 = b
  BY <1>8 DEF Certificate
<1>10. Certifies(sidecar)'
  <2>1. Certifies(Certificate) /\ Certifies(NoSidecar)
    BY <1>6, <1>7, <1>9 DEF Certifies
  <2>2. \A s : Certifies(s)' <=> Certifies(s)
    BY <1>2 DEF Certifies, Unprotected
  <2>3. \E s : s = sidecar' /\ Certifies(s)
    BY <1>2, <2>1
  <2> QED BY <2>2, <2>3 DEF Certifies
<1>11. OutputIsWhole'
  BY <1>2 DEF PoolInv, OutputOK, OutputIsWhole, Unprotected
<1>12. result'.call = call
  BY <1>1 DEF Return
<1>13. IF result'.call.snap = None THEN sidecar' = NoSidecar
       ELSE sidecar'.snap = result'.call.snap /\ sidecar'.sha256 = output'
  BY <1>2, <1>4, <1>8, <1>9, <1>12
<1>14. OutputOK'
  BY <1>10, <1>11, <1>13 DEF OutputOK
<1> QED BY <1>1, <1>2, <1>6, <1>14, ReturnWith

LEMMA SidecarFailsKeeps ==
    ASSUME PoolInv, SidecarFails
    PROVE  PoolInv'
<1>1. Quiet /\ Return(Failed, "output")
  BY DEF SidecarFails, Quiet, diskVars
<1> QED BY <1>1, FailKeeps

LEMMA MinOfThree ==
    ASSUME NEW a \in Nat, NEW b \in Nat, NEW c \in Nat, c >= a \/ c >= b
    PROVE  Min({a, b} \cup {c}) = Min({a, b})
<1> DEFINE S == {a, b} \cup {c}
           m == Min(S)
           k == Min({a, b})
<1>1. S \in SUBSET Nat /\ S # {} /\ {a, b} \in SUBSET Nat /\ {a, b} # {}
  OBVIOUS
<1>2. m \in S /\ \A y \in S : m <= y
  BY <1>1, MinIs
<1>3. k \in {a, b} /\ k <= a /\ k <= b
  BY <1>1, MinIs
<1> HIDE DEF m, k
<1> QED BY <1>2, <1>3 DEF m, k

LEMMA ReadSmallKeeps ==
    ASSUME PoolInv, ReadSmall
    PROVE  PoolInv'
<1> DEFINE b == step.buffer
           dn == step.dn
           key == step.view.key
           block == read_dnode_data_with_key(dn, NextId(b, dn), key)
           left == step.size - Len(b)
           n == Min({left, dn.blksz} \cup IF block = Zeroes THEN {} ELSE {Len(block)})
           c == b \o Extended(block, n)
<1>1. step.at = "small" /\ Quiet /\ step # Idle
  BY RunningFacts DEF ReadSmall, Quiet, diskVars
<1>2. step.at \in FileOps /\ call.op = "small" /\ \E d, o, f : Found(step, d, o, f)
  BY <1>1, FileStep DEF FileOps
<1>3. PICK d, o, f : Found(step, d, o, f)
  BY <1>2
<1>4. CASE Return(Failed, "source")
  BY <1>1, <1>4, FailKeeps
<1>5. CASE Len(b) = step.size /\ Return(b, "done")
  <2>1. ResultOf([call |-> call, value |-> b, why |-> "done"])
    BY <1>2, <1>3, <1>5, WholeFile
  <2> HIDE DEF b
  <2> QED BY <1>1, <1>2, <1>5, <2>1, ReturnKeeps
<1>6. CASE Len(b) # step.size /\ ~Return(Failed, "source")
  <2>1. dn.blksz # 0 /\ block # Failed /\ Continue([step EXCEPT !.buffer = @ \o Extended(block, n)])
    BY <1>6 DEF ReadSmall, Filled, Fail, NextId
  <2>2. Continue([step EXCEPT !.buffer = c])
    BY <2>1
  <2>3. /\ f.type = "file" /\ DataSound(f, dn, key) /\ step.size = Len(f.bytes)
        /\ BufferOK(b, f, dn.blksz) /\ Len(f.bytes) \in Nat
    BY <1>2, <1>3, ReadingFacts
  <2>4. BufferOK(c, f, dn.blksz)
    <3>1. CASE Certain(f)
      <4>1. b \in Seq(Nat) /\ Len(b) <= Len(f.bytes)
        BY <2>3, <3>1 DEF BufferOK, PartOf, Begins
      <4>2. Len(b) \in Nat /\ Len(b) < Len(f.bytes)
        BY <1>6, <2>3, <4>1
      <4> DEFINE q == NextId(b, dn)
      <4>3. /\ q \in 0..dn.maxblkid /\ Len(b) = q * dn.blksz /\ block = BlockOf(dn, q, key)
        <5> HIDE DEF b, dn, key
        <5> QED BY <2>1, <2>3, <3>1, <4>2, NextBlock
      <4>4. n = Min({Len(f.bytes) - Len(b), dn.blksz})
        <5> DEFINE l == Len(f.bytes) - Len(b)
        <5>1. l \in Nat /\ left = l /\ dn.blksz \in Nat
          BY <2>3, <4>2 DEF DataSound
        <5>2. \/ block = Zeroes
              \/ block # Zeroes /\ Len(block) \in Nat /\ (Len(block) >= l \/ Len(block) >= dn.blksz)
          <6>1. ~f.short_leaf
            BY <1>2, <3>1 DEF Certain
          <6>2. \/ BlockOf(dn, q, key) = Zeroes
                \/ /\ BlockOf(dn, q, key) \in Seq(Nat)
                   /\ \/ Len(BlockOf(dn, q, key)) >= dn.blksz
                      \/ Len(BlockOf(dn, q, key)) >= Len(f.bytes) - q * dn.blksz
            <7> HIDE DEF q
            <7> QED BY <2>3, <4>3, <6>1 DEF DataSound
          <6> HIDE DEF block, q
          <6> QED BY <4>3, <6>2
        <5> HIDE DEF l, left, block
        <5>3. CASE block = Zeroes
          <6>1. {left, dn.blksz} \cup {} = {l, dn.blksz}
            BY <5>1
          <6> QED BY <5>3, <6>1 DEF l
        <5>4. CASE block # Zeroes
          <6>1. n = Min({l, dn.blksz} \cup {Len(block)})
            BY <5>1, <5>4
          <6>2. Min({l, dn.blksz} \cup {Len(block)}) = Min({l, dn.blksz})
            BY <5>1, <5>2, <5>4, MinOfThree
          <6> QED BY <6>1, <6>2 DEF l
        <5> QED BY <5>3, <5>4
      <4> HIDE DEF b, dn, key, n
      <4> QED BY <2>1, <2>3, <3>1, <4>2, <4>4, NextBuffer
    <3>2. CASE ~Certain(f)
      BY <3>2 DEF BufferOK
    <3> QED BY <3>1, <3>2
  <2> HIDE DEF c
  <2> QED BY <1>1, <1>2, <1>3, <2>2, <2>4, BufferKeeps
<1>7. \/ Return(Failed, "source")
      \/ Len(b) = step.size /\ Return(b, "done")
      \/ Len(b) # step.size
  BY DEF ReadSmall, Fail
<1> QED BY <1>4, <1>5, <1>6, <1>7

-----------------------------------------------------------------------------
(* The positioned reader.                                                  *)

LEMMA OpenImageKeeps ==
    ASSUME PoolInv, OpenImage
    PROVE  PoolInv'
<1> DEFINE h == [dn |-> step.dn, size |-> step.size, key |-> step.view.key,
                 ds |-> call.ds, snap |-> call.snap, path |-> call.path]
           r == [call |-> call, value |-> <<>>, why |-> "done"]
<1>1. /\ step.at = "image" /\ handle' = h /\ Return(<<>>, "done")
      /\ pool' = pool /\ damage' = damage /\ call' = call /\ output' = output
      /\ sidecar' = sidecar /\ calls' = calls
  BY DEF OpenImage, diskVars
<1>2. call.op = "image" /\ \E d, o, f : Found(step, d, o, f)
  BY <1>1, FileStep DEF FileOps
<1>3. PICK d, o, f : Found(step, d, o, f)
  BY <1>2
<1>4. f.type = "file" /\ step.size = Len(f.bytes)
  BY <1>2, <1>3, ReadingFacts
<1>5. /\ \A g \in Within(call) : g.key = call.key
      /\ step.view.key = KeyOf(d, o)
  BY <1>3, FoundFacts
<1>6. /\ h.dn = step.dn /\ h.size = step.size /\ h.key = step.view.key
      /\ h.ds = call.ds /\ h.snap = call.snap /\ h.path = call.path
  OBVIOUS
<1>7. Target(call, d, o, f) /\ step.dn = DnOf(d, o, f) /\ call.key = KeyOf(d, o)
  BY <1>3 DEF Found, Target, Opened
<1>8. /\ call.ds \in Seq(STRING) /\ call.snap \in Nat \cup {None}
      /\ call.path \in Seq(STRING) /\ call.key \in Key \cup {None}
  BY DEF PoolInv, Command
<1> HIDE DEF h
<1>9. HandleOf(h, d, o, f)
  <2>1. Target(h, d, o, f)
    BY <1>5, <1>6, <1>7 DEF Target, Opened, Site
  <2> QED BY <1>4, <1>5, <1>6, <1>7, <1>8, <2>1 DEF HandleOf
<1>10. HandleOK'
  <2>1. \A x : HandleOf(x, d, o, f)' <=> HandleOf(x, d, o, f)
    BY <1>1, HandleRigid
  <2>2. \E x : x = handle' /\ HandleOf(x, d, o, f)
    BY <1>1, <1>9
  <2>3. \E x : x = handle' /\ HandleOf(x, d, o, f)'
    BY <2>1, <2>2
  <2> QED BY <2>3 DEF HandleOK
<1>11. step' = Idle /\ result' = r
  BY <1>1 DEF Return
<1>12. r.call = call /\ r.why = "done"
  OBVIOUS
<1> HIDE DEF r
<1>13. ResultOf(r)
  BY <1>2, <1>5, <1>12 DEF ResultOf, DeliveredOf, ListingOf, CatalogOf, KeyRight
<1>14. ResultOK'
  <2>1. \A x : ResultOf(x) => ResultOf(x)'
    BY <1>1, ResultRigid
  <2>2. \E x : x = result' /\ ResultOf(x)'
    BY <1>11, <1>13, <2>1
  <2> QED BY <2>2 DEF ResultOK
<1>15. OutputOK'
  BY <1>1, <1>2, <1>11, <1>12
     DEF PoolInv, OutputOK, OutputIsWhole, Certifies, Done, Unprotected
<1>16. PoolSound'
  BY <1>1, SoundRigid DEF PoolInv
<1>17. StepOK(step)'
  BY <1>11 DEF StepOK, Idle, FileOps
<1> QED BY <1>1, <1>10, <1>11, <1>14, <1>15, <1>16, <1>17 DEF PoolInv

LEMMA DivStep ==
    ASSUME NEW b \in Nat \ {0}, NEW p \in Nat, NEW j \in Nat, (p % b) + j < b
    PROVE  (p + j) \div b = p \div b /\ (p + j) % b = (p % b) + j
<1>1. (p + j) \div b = p \div b
  OBVIOUS
<1>2. p % b = p - b * (p \div b)
  OBVIOUS
<1>3. (p + j) % b = (p + j) - b * ((p + j) \div b)
  <2> DEFINE k == p + j
  <2>1. k \in Nat
    OBVIOUS
  <2> HIDE DEF k
  <2>2. k % b = k - b * (k \div b)
    BY <2>1
  <2> QED BY <2>2 DEF k
<1>4. p \div b \in Nat
  OBVIOUS
<1> DEFINE m == b * (p \div b)
<1>5. m \in Int
  BY <1>4
<1>6. p % b = p - m /\ (p + j) % b = (p + j) - m
  BY <1>1, <1>2, <1>3
<1> HIDE DEF m
<1>7. (p + j) % b = (p % b) + j
  BY <1>5, <1>6
<1> QED BY <1>1, <1>7

LEMMA SubSeqIs ==
    ASSUME NEW S, NEW x \in Seq(S), NEW a \in Nat, NEW n \in Nat, a + n <= Len(x)
    PROVE  /\ Elements(SubSeq(x, a + 1, a + n), n)
           /\ SubSeq(x, a + 1, a + n) \in Seq(S) /\ Len(SubSeq(x, a + 1, a + n)) = n
           /\ \A i \in 1..n : SubSeq(x, a + 1, a + n)[i] = x[a + i]
<1>1. SubSeq(x, a + 1, a + n) = [i \in 1..n |-> x[a + i]]
  OBVIOUS
<1> DEFINE g == [i \in 1..n |-> x[a + i]]
<1>2. \A i \in 1..n : g[i] = x[a + i] /\ x[a + i] \in S
  <2>1. \A i \in 1..n : a + i \in 1..Len(x)
    OBVIOUS
  <2> QED BY <2>1
<1>3. Elements(g, n)
  BY DEF Elements
<1>4. g \in Seq(S) /\ Len(g) = n
  <2> HIDE DEF g
  <2> QED BY <1>2, <1>3, ElementsSeq
<1> QED BY <1>1, <1>2, <1>3, <1>4

\* Where a byte of the part of a block is in the block and in the file.
LEMMA PartBounds ==
    ASSUME NEW b \in Nat \ {0}, NEW w \in Nat, NEW k \in Nat, w + k <= b,
           NEW p \in Nat, NEW N \in Nat, p + k <= N, NEW i \in 1..k
    PROVE  /\ i - 1 \in Nat /\ w + (i - 1) < b /\ p + (i - 1) \in 0..(N - 1)
           /\ (p + (i - 1)) + 1 = p + i
           /\ w + i \in 1..(w + k) /\ (w + i) - 1 = w + (i - 1)
OBVIOUS

LEMMA Remainder ==
    ASSUME NEW b \in Nat \ {0}, NEW p \in Nat
    PROVE  p % b \in 0..(b - 1) /\ p \div b \in Nat
OBVIOUS

\* A part of a block of size b and of what is still wanted.
LEMMA PartFits ==
    ASSUME NEW b \in Nat, NEW w \in 0..(b - 1), NEW k \in Nat, k <= b - w,
           NEW at \in Nat, NEW l \in Nat, NEW count \in Nat, k <= count - l,
           NEW N \in Nat, at + count <= N
    PROVE  w + k <= b /\ (at + l) + k <= N /\ l + k <= count
OBVIOUS

\* What is copied of a block is the next part of the file.
LEMMA PartCopied ==
    ASSUME NEW f, NEW dn, NEW key, DataSound(f, dn, key), ~Unprotected(f), dn.blksz # 0,
           NEW p \in Nat, NEW w \in Nat, w = p % dn.blksz, NEW k \in Nat, w + k <= dn.blksz,
           p + k <= Len(f.bytes), NEW block, block = BlockOf(dn, p \div dn.blksz, key)
    PROVE  /\ Elements(SubSeq(Extended(block, w + k), w + 1, w + k), k)
           /\ Matches(SubSeq(Extended(block, w + k), w + 1, w + k), k, f.bytes, p)
<1> DEFINE n == w + k
           x == Extended(block, n)
           e == SubSeq(x, w + 1, n)
           S == {ByteOf(block, j) : j \in Nat}
<1>1. n \in Nat /\ dn.blksz \in Nat \ {0} /\ f.bytes \in Seq(Nat) /\ Len(f.bytes) \in Nat
  BY DEF DataSound
<1>2. Elements(x, n) /\ \A i \in 1..n : x[i] = ByteOf(block, i - 1)
  BY <1>1, ExtendedIs
<1>3. x \in Seq(S) /\ Len(x) = n
  <2>1. \A i \in 1..n : x[i] \in S
    BY <1>1, <1>2
  <2> HIDE DEF n, x, S
  <2> QED BY <1>1, <1>2, <2>1, ElementsSeq
<1>4. Elements(e, k) /\ \A i \in 1..k : e[i] = x[w + i]
  <2>1. w + k <= Len(x)
    <3> HIDE DEF x
    <3> QED BY <1>1, <1>3
  <2> HIDE DEF x, S
  <2> QED BY <1>3, <2>1, SubSeqIs
<1>5. ASSUME NEW i \in 1..k
      PROVE  e[i] = f.bytes[p + i]
  <2> DEFINE j == i - 1
             pos == p + j
             b == dn.blksz
  <2>1. /\ j \in Nat /\ w + j < b /\ pos \in 0..(Len(f.bytes) - 1) /\ pos + 1 = p + i
        /\ w + i \in 1..n /\ (w + i) - 1 = w + j
    <3> DEFINE N == Len(f.bytes)
    <3>1. b \in Nat \ {0} /\ N \in Nat /\ w + k <= b /\ p + k <= N
      BY <1>1
    <3> HIDE DEF b, N
    <3>2. /\ i - 1 \in Nat /\ w + (i - 1) < b /\ p + (i - 1) \in 0..(N - 1)
          /\ (p + (i - 1)) + 1 = p + i
          /\ w + i \in 1..(w + k) /\ (w + i) - 1 = w + (i - 1)
      BY <3>1, PartBounds
    <3> QED BY <3>2 DEF N
  <2>2. b \in Nat \ {0}
    BY <1>1
  <2>3. pos \div b = p \div b /\ pos % b = w + j
    <3> HIDE DEF j, b
    <3> QED BY <2>1, <2>2, DivStep DEF b
  <2>4. f.bytes[pos + 1] = ByteAt(dn, pos, key)
    <3> HIDE DEF pos
    <3> QED BY <2>1 DEF DataSound
  <2>5. ByteAt(dn, pos, key) = ByteOf(block, w + j)
    BY <2>3 DEF ByteAt
  <2>6. e[i] = ByteOf(block, (w + i) - 1)
    <3> HIDE DEF e, x, n
    <3> QED BY <1>2, <1>4, <2>1
  <2> HIDE DEF e, pos, j
  <2> QED BY <2>1, <2>4, <2>5, <2>6
<1> QED BY <1>4, <1>5 DEF Matches

\* The part of a file that a read has so far.
ReadSoFar(b, f, at, count) ==
    ~Unprotected(f) => b \in Seq(Nat) /\ Len(b) <= count /\ Matches(b, Len(b), f.bytes, at)

LEMMA ReadFacts ==
    ASSUME PoolInv, NEW d, NEW o, NEW f, HandleOf(handle, d, o, f), ReadOK(step)
    PROVE  /\ f \in Named(call) /\ f.type = "file" /\ DataSound(f, handle.dn, handle.key)
           /\ handle.size = Len(f.bytes) /\ Len(f.bytes) \in Nat
           /\ \A g \in Within(call) : g.key = call.key
<1>1. /\ call.ds = handle.ds /\ call.snap = handle.snap
      /\ call.path = handle.path /\ call.key = handle.key
  BY DEF ReadOK
<1>2. Opened(call, d, o) /\ f \in FilesOf(d, call.snap) /\ f.path = call.path
  BY <1>1 DEF HandleOf, Target, Opened, Site
<1>3. Site(call, d, o) /\ Denotes(call.ds, d)
  BY <1>2 DEF Opened, Site
<1>4. f \in Named(call)
  BY <1>2, <1>3 DEF Named, Within, FilesOf
<1>5. \A g \in Within(call) : g.key = call.key
  BY <1>2, <1>3, SiteFacts, OpenedFacts
<1>6. f.type = "file" /\ handle.dn = DnOf(d, o, f) /\ handle.size = Len(f.bytes)
      /\ handle.key = KeyOf(d, o)
  BY <1>1, <1>2 DEF HandleOf, Opened
<1>7. FileSound(f, MetaOf(d, o), KeyOf(d, o))
  BY <1>2, <1>6, OpenedFacts
<1>8. DataSound(f, handle.dn, handle.key)
  BY <1>6, <1>7 DEF FileSound, DnOf
<1>9. f.bytes \in Seq(Nat)
  BY <1>8 DEF DataSound
<1> QED BY <1>4, <1>5, <1>6, <1>8, <1>9

LEMMA ReadImageKeeps ==
    ASSUME PoolInv, ReadImage
    PROVE  PoolInv'
<1> DEFINE b == step.buffer
           dn == handle.dn
           at == call.offset
           count == call.count
           p == at + Len(b)
           w == p % dn.blksz
           id == p \div dn.blksz
           k == Min({count - Len(b), dn.blksz - w})
           block == ImageBlock(dn, id)
           e == SubSeq(Extended(block, w + k), w + 1, w + k)
           c == b \o e
<1>1. step.at = "read" /\ Quiet /\ step # Idle /\ ReadOK(step) /\ call.op = "read"
  <2>1. step.at = "read" /\ Quiet /\ step # Idle
    BY RunningFacts DEF ReadImage, Quiet, diskVars
  <2>2. ReadOK(step)
    BY <2>1 DEF PoolInv, StepOK
  <2> QED BY <2>1, <2>2 DEF ReadOK
<1>2. PICK d, o, f : HandleOf(handle, d, o, f) /\ ReadSoFar(b, f, at, count)
  BY <1>1 DEF ReadOK, ReadSoFar, Matches
<1>3. /\ f \in Named(call) /\ f.type = "file" /\ DataSound(f, dn, handle.key)
      /\ handle.size = Len(f.bytes) /\ Len(f.bytes) \in Nat
      /\ \A g \in Within(call) : g.key = call.key
  BY <1>1, <1>2, ReadFacts
<1>4. at \in Nat /\ count \in Nat /\ f.bytes \in Seq(Nat) /\ dn.blksz \in Nat /\ dn.maxblkid \in Nat
  BY <1>3 DEF PoolInv, Command, DataSound
<1>5. CASE Return(Failed, "source")
  BY <1>1, <1>5, FailKeeps
<1>6. CASE ~Return(Failed, "source")
  <2>1. at + count <= Len(f.bytes) /\ dn.blksz # 0
    BY <1>3, <1>4, <1>6 DEF ReadImage, Fail
  <2>2. CASE Len(b) = count /\ Return(b, "done")
    <3> DEFINE r == [call |-> call, value |-> b, why |-> "done"]
               part == SubSeq(f.bytes, at + 1, at + count)
    <3>1. /\ part \in Seq(Nat) /\ Len(part) = count
          /\ \A i \in 1..count : part[i] = f.bytes[at + i]
      <4> DEFINE bytes == f.bytes
      <4>1. bytes \in Seq(Nat) /\ at + count <= Len(bytes)
        BY <1>4, <2>1
      <4> HIDE DEF bytes, at, count
      <4> QED BY <1>4, <4>1, SubSeqIs DEF bytes
    <3>2. Bytes(f, call) = part
      BY <1>1 DEF Bytes
    <3>3. ~Unprotected(f) => b = part
      <4>1. SUFFICES ASSUME ~Unprotected(f)
                     PROVE  b = part
        OBVIOUS
      <4>2. b \in Seq(Nat) /\ \A i \in 1..count : b[i] = f.bytes[at + i]
        BY <1>2, <2>2, <4>1 DEF ReadSoFar, Matches
      <4>3. part \in Seq(Nat) /\ Len(part) = Len(b) /\ Begins(b, part)
        <5> HIDE DEF b, part, at, count
        <5>1. Len(part) = Len(b)
          BY <2>2, <3>1
        <5>2. \A i \in 1..count : b[i] = part[i]
          BY <3>1, <4>2
        <5> QED BY <1>4, <2>2, <3>1, <5>1, <5>2 DEF Begins
      <4> HIDE DEF b, part
      <4> QED BY <4>2, <4>3, WholeIs
    <3>4. r.call = call /\ r.value = b
      OBVIOUS
    <3> HIDE DEF r, b, part
    <3>5. DeliveredOf(r)
      BY <1>3, <2>2, <3>1, <3>2, <3>3, <3>4 DEF DeliveredOf
    <3>6. ResultOf(r)
      BY <1>1, <1>3, <3>4, <3>5 DEF ResultOf, ListingOf, CatalogOf, KeyRight
    <3> QED BY <1>1, <2>2, <3>6, ReturnKeeps DEF r
  <2>3. CASE Len(b) # count /\ block # Failed /\ Continue([step EXCEPT !.buffer = b \o e])
    <3> DEFINE next == [at |-> "read", buffer |-> c]
    <3>1. ReadSoFar(c, f, at, count)
      <4>1. SUFFICES ASSUME ~Unprotected(f)
                     PROVE  c \in Seq(Nat) /\ Len(c) <= count /\ Matches(c, Len(c), f.bytes, at)
        BY DEF ReadSoFar
      <4>2. b \in Seq(Nat) /\ Len(b) <= count /\ Matches(b, Len(b), f.bytes, at)
        BY <1>2, <4>1 DEF ReadSoFar
      <4>3. Len(b) \in Nat /\ Len(b) < count
        BY <1>4, <2>3, <4>2
      <4>4. p \in Nat /\ w \in 0..(dn.blksz - 1) /\ id \in Nat
        <5>1. p \in Nat
          BY <1>4, <4>3
        <5>2. dn.blksz \in Nat \ {0}
          BY <1>4, <2>1
        <5> HIDE DEF p, dn
        <5> QED BY <5>1, <5>2, Remainder
      <4>5. /\ k \in Nat /\ k <= count - Len(b) /\ k <= dn.blksz - w
        <5> DEFINE u == count - Len(b)
                   v == dn.blksz - w
        <5>1. u \in Nat /\ v \in Nat
          <6> DEFINE l == Len(b)
                     z == dn.blksz
          <6>1. l \in Nat /\ l < count /\ count \in Nat /\ z \in Nat /\ w \in 0..(z - 1)
            BY <1>4, <4>3, <4>4
          <6> HIDE DEF w, l, z, count
          <6>2. count - l \in Nat /\ z - w \in Nat
            BY <6>1
          <6> QED BY <6>2 DEF l, z
        <5> HIDE DEF u, v
        <5>2. Min({u, v}) \in Nat /\ Min({u, v}) <= u /\ Min({u, v}) <= v
          BY <5>1, MinOfTwo
        <5> QED BY <5>2 DEF u, v
      <4>6. block = BlockOf(dn, id, handle.key)
        <5>1. CASE id > dn.maxblkid
          BY <5>1 DEF ImageBlock, BlockOf
        <5>2. CASE ~(id > dn.maxblkid)
          <6>1. block = read_dnode_data_with_key(dn, id, handle.key)
            BY <5>2 DEF ImageBlock
          <6> HIDE DEF id, dn, block
          <6> QED BY <1>3, <2>1, <2>3, <4>1, <4>4, <6>1, BlockRead
        <5> QED BY <5>1, <5>2
      <4>7. w + k <= dn.blksz /\ p + k <= Len(f.bytes) /\ Len(b) + k <= count
        <5> DEFINE N == Len(f.bytes)
                   l == Len(b)
                   z == dn.blksz
        <5>1. /\ N \in Nat /\ l \in Nat /\ z \in Nat /\ at \in Nat /\ count \in Nat
              /\ at + count <= N
          BY <1>3, <1>4, <2>1, <4>3
        <5>2. w \in 0..(z - 1) /\ k \in Nat /\ k <= z - w /\ k <= count - l
          BY <4>4, <4>5
        <5>3. p = at + l
          OBVIOUS
        <5> HIDE DEF k, w, p, at, count, N, l, z
        <5>4. w + k <= z /\ (at + l) + k <= N /\ l + k <= count
          BY <5>1, <5>2, PartFits
        <5> QED BY <5>3, <5>4 DEF N, l, z
      <4>8. Elements(e, k) /\ Matches(e, k, f.bytes, p)
        <5>1. w \in Nat /\ w = p % dn.blksz
          <6>1. w \in Nat
            <7> HIDE DEF w
            <7> QED BY <1>4, <4>4
          <6> QED BY <6>1
        <5>2. block = BlockOf(dn, p \div dn.blksz, handle.key)
          BY <4>6
        <5> HIDE DEF dn, p, w, k, block
        <5> QED BY <1>3, <2>1, <4>1, <4>4, <4>5, <4>7, <5>1, <5>2, PartCopied
      <4>9. c \in Seq(Nat) /\ Len(c) = Len(b) + k /\ Matches(c, Len(b) + k, f.bytes, at)
        <5>1. p = at + Len(b)
          OBVIOUS
        <5> HIDE DEF dn, p, w, k, block, e, at, b
        <5> QED BY <1>4, <4>2, <4>5, <4>7, <4>8, <5>1, Grown
      <4> HIDE DEF c, k
      <4> QED BY <4>7, <4>9
    <3> HIDE DEF c
    <3>2. next.buffer = c /\ next.at = "read" /\ next = [at |-> "read", buffer |-> next.buffer]
      OBVIOUS
    <3>3. [step EXCEPT !.buffer = c] = next
      BY <1>1 DEF ReadOK
    <3> HIDE DEF next
    <3>4. ReadOK(next)
      BY <1>1, <1>2, <3>1, <3>2 DEF ReadOK, ReadSoFar, Matches
    <3>5. StepOK(next)
      BY <3>2, <3>4 DEF StepOK, FileOps
    <3>6. Continue(next)
      BY <2>3, <3>3 DEF c
    <3> QED BY <1>1, <3>5, <3>6, ContinueKeeps
  <2>4. \/ Len(b) = count /\ Return(b, "done")
        \/ Len(b) # count /\ Copied(block, w, k)
    BY <1>6 DEF ReadImage, Fail
  <2>5. Copied(block, w, k) =>
           block # Failed /\ Continue([step EXCEPT !.buffer = @ \o e])
    BY <1>6 DEF Copied, Fail
  <2>6. Copied(block, w, k) =>
           block # Failed /\ Continue([step EXCEPT !.buffer = b \o e])
    BY <2>5
  <2> QED BY <2>2, <2>3, <2>4, <2>6
<1> QED BY <1>5, <1>6

-----------------------------------------------------------------------------
(* The steps that are not a command's own.                                 *)

LEMMA InitSound ==
    ASSUME Init, PoolSound
    PROVE  PoolInv
<1>1. NoCall \in Command
  <2>1. <<>> \in Seq(STRING)
    OBVIOUS
  <2> QED BY <2>1 DEF NoCall, Command, Ops
<1>2. StepOK(step)
  BY DEF Init, StepOK, Idle, FileOps
<1>3. ResultOK /\ HandleOK
  BY DEF Init, ResultOK, NoResult, HandleOK
<1>4. OutputOK
  BY DEF Init, OutputOK, OutputIsWhole, Certifies, Done, NoResult
<1>5. calls \in 0..MaxCalls
  BY PoolSessionAssumption DEF Init
<1> QED BY <1>1, <1>2, <1>3, <1>4, <1>5 DEF Init, PoolInv

LEMMA CrashKeeps ==
    ASSUME PoolInv, Crash
    PROVE  PoolInv'
<1>1. /\ pool' = pool /\ call' = call /\ calls' = calls /\ handle' = None
      /\ output' = output /\ sidecar' = sidecar /\ step' = Idle /\ result'.why = "crash"
  BY DEF Crash, diskVars, Return
<1>2. PoolSound'
  BY <1>1, SoundRigid DEF PoolInv
<1>3. StepOK(step)' /\ HandleOK' /\ ResultOK'
  BY <1>1 DEF StepOK, Idle, FileOps, HandleOK, ResultOK
<1>4. OutputOK'
  BY <1>1 DEF PoolInv, OutputOK, OutputIsWhole, Certifies, Done, Unprotected
<1> QED BY <1>1, <1>2, <1>3, <1>4 DEF PoolInv

\* The places that hold something else grow more, and nothing else changes.
LEMMA RestKeeps ==
    ASSUME PoolInv, pool' = pool, DOMAIN damage \subseteq DOMAIN damage',
           UNCHANGED <<call, step, result, handle, output, sidecar, calls>>
    PROVE  PoolInv'
<1>1. PoolSound'
  BY SoundRigid DEF PoolInv
<1>2. HandleOK'
  BY HandleKept DEF PoolInv
<1>3. StepOK(step)'
  <2>1. \A s : StepOK(s) => StepOK(s)'
    BY StepRigid
  <2>2. \E s : s = step' /\ StepOK(s)'
    BY <2>1 DEF PoolInv
  <2> QED BY <2>2
<1>4. ResultOK'
  <2>1. \A r : ResultOf(r) => ResultOf(r)'
    BY ResultRigid
  <2>2. result.why = "done" => \E r : r = result' /\ ResultOf(r)'
    BY <2>1 DEF PoolInv, ResultOK
  <2> QED BY <2>2 DEF ResultOK
<1>5. OutputOK'
  BY DEF PoolInv, OutputOK, OutputIsWhole, Certifies, Done, Unprotected
<1> QED BY <1>1, <1>2, <1>3, <1>4, <1>5 DEF PoolInv

LEMMA DecayKeeps ==
    ASSUME PoolInv, Decay
    PROVE  PoolInv'
<1>1. PICK places, c : Damage(places, c)
  BY DEF Decay
<1>2. pool' = pool /\ DOMAIN damage' = DOMAIN damage \cup places
  BY <1>1 DEF Damage
<1>3. UNCHANGED <<call, step, result, handle, output, sidecar, calls>>
  BY DEF Decay, fileVars
<1> QED BY <1>2, <1>3, RestKeeps

LEMMA StartKeeps ==
    ASSUME PoolInv, NEW c \in Calls(pool, calls + 1), Start(c)
    PROVE  PoolInv'
<1>1. /\ pool' = pool /\ handle' = handle /\ output' = output /\ sidecar' = sidecar
      /\ calls < MaxCalls /\ calls' = calls + 1 /\ result' = NoResult
  BY DEF Start, diskVars
<1>2. calls + 1 \in 1..(MaxCalls + 1) /\ calls' \in 0..MaxCalls
  BY <1>1, PoolSessionAssumption DEF PoolInv
<1>3. c \in Command /\ c.op # "none"
  BY <1>2, PoolSessionAssumption DEF PoolInv
<1>4. PoolSound'
  BY <1>1, SoundRigid DEF PoolInv
<1>5. HandleOK'
  BY <1>1, HandleKept DEF PoolInv
<1>6. ResultOK'
  BY <1>1 DEF ResultOK, NoResult
<1>7. OutputOK'
  BY <1>1 DEF PoolInv, OutputOK, OutputIsWhole, Certifies, Done, Unprotected, NoResult
<1>8. StepOK(step)' /\ call' \in Command /\ call'.op # "none"
  <2>1. CASE c.op # "read"
    <3>1. call' = c /\ step' = [at |-> "start"]
      BY <2>1 DEF Start
    <3>2. StepOK(step)'
      BY <2>1, <3>1 DEF StepOK, FileOps
    <3> QED BY <1>3, <3>1, <3>2
  <2>2. CASE c.op = "read"
    <3> DEFINE c1 == [c EXCEPT !.ds = handle.ds]
               c2 == [c1 EXCEPT !.snap = handle.snap]
               c3 == [c2 EXCEPT !.path = handle.path]
               c4 == [c3 EXCEPT !.key = handle.key]
               s == [at |-> "read", buffer |-> <<>>]
    <3>1. handle # None /\ call' = c4 /\ step' = s
      BY <2>2 DEF Start
    <3>2. PICK d, o, f : HandleOf(handle, d, o, f)
      BY <3>1 DEF PoolInv, HandleOK
    <3>3. /\ handle.ds \in Seq(STRING) /\ handle.snap \in Nat \cup {None}
          /\ handle.path \in Seq(STRING) /\ handle.key \in Key \cup {None}
      BY <3>2 DEF HandleOf
    <3>4. c1 \in Command /\ c1.op = "read" /\ c1.ds = handle.ds
      BY <1>3, <2>2, <3>3 DEF Command
    <3> HIDE DEF c1
    <3>5. c2 \in Command /\ c2.op = "read" /\ c2.ds = handle.ds /\ c2.snap = handle.snap
      BY <3>3, <3>4 DEF Command
    <3> HIDE DEF c2
    <3>6. /\ c3 \in Command /\ c3.op = "read" /\ c3.ds = handle.ds /\ c3.snap = handle.snap
          /\ c3.path = handle.path
      BY <3>3, <3>5 DEF Command
    <3> HIDE DEF c3
    <3>7. /\ c4 \in Command /\ c4.op = "read" /\ c4.ds = handle.ds /\ c4.snap = handle.snap
          /\ c4.path = handle.path /\ c4.key = handle.key
      BY <3>3, <3>6 DEF Command
    <3> HIDE DEF c4
    <3>8. call'.count \in Nat /\ call'.op = "read" /\ call' \in Command
      BY <3>1, <3>7 DEF Command
    <3>9. s.buffer = <<>> /\ s.at = "read" /\ s = [at |-> "read", buffer |-> s.buffer]
      OBVIOUS
    <3>10. s.buffer \in Seq(Nat) /\ Len(s.buffer) = 0
      BY <3>9
    <3> HIDE DEF s
    <3>11. HandleOf(handle, d, o, f)'
      BY <1>1, <3>2, HandleRigid
    <3>12. \A i \in 1..Len(s.buffer) : s.buffer[i] = f.bytes[call'.offset + i]
      BY <3>10
    <3>13. Len(s.buffer) <= call'.count
      BY <3>8, <3>10
    <3>14. ReadOK(step)'
      BY <1>1, <3>1, <3>7, <3>9, <3>10, <3>11, <3>12, <3>13 DEF ReadOK
    <3>15. StepOK(step)'
      BY <3>1, <3>9, <3>14 DEF StepOK, FileOps
    <3> QED BY <3>8, <3>15
  <2> QED BY <2>1, <2>2
<1> QED BY <1>1, <1>2, <1>4, <1>5, <1>6, <1>7, <1>8 DEF PoolInv

\* The inductive invariant holds after every step.
LEMMA NextKeeps ==
    ASSUME PoolInv, [Next]_vars
    PROVE  PoolInv'
<1>1. CASE \E c \in Calls(pool, calls + 1) : Start(c)
  BY <1>1, StartKeeps
<1>2. CASE Running
  <2>1. CASE Begin
    BY <2>1, BeginKeeps
  <2>2. CASE CatalogNext /\ UNCHANGED fileVars
    BY <2>2, WalkKeeps, InspectKeeps, SelectKeeps, OpenPointerKeeps, ClimbKeeps, UnlockKeeps,
       OpenViewKeeps DEF CatalogNext
  <2>3. CASE Component
    BY <2>3, ComponentKeeps
  <2>4. CASE Resolve
    BY <2>4, ResolveKeeps
  <2>5. CASE List
    BY <2>5, ListKeeps
  <2>6. CASE WriteRecord
    BY <2>6, WriteRecordKeeps
  <2>7. CASE Publish
    BY <2>7, PublishKeeps
  <2>8. CASE SettleSidecar
    BY <2>8, SettleSidecarKeeps
  <2>9. CASE SidecarFails
    BY <2>9, SidecarFailsKeeps
  <2>10. CASE ReadSmall
    BY <2>10, ReadSmallKeeps
  <2>11. CASE OpenImage
    BY <2>11, OpenImageKeeps
  <2>12. CASE ReadImage
    BY <2>12, ReadImageKeeps
  <2> QED BY <1>2, <2>1, <2>2, <2>3, <2>4, <2>5, <2>6, <2>7, <2>8, <2>9, <2>10, <2>11, <2>12
          DEF Running
<1>3. CASE Crash
  BY <1>3, CrashKeeps
<1>4. CASE Decay
  BY <1>4, DecayKeeps
<1>5. CASE UNCHANGED vars
  <2>1. /\ pool' = pool /\ damage' = damage
        /\ UNCHANGED <<call, step, result, handle, output, sidecar, calls>>
    BY <1>5 DEF vars, diskVars
  <2> QED BY <2>1, RestKeeps
<1> QED BY <1>1, <1>2, <1>3, <1>4, <1>5 DEF Next, Ended

-----------------------------------------------------------------------------
(* Theorems: on a member of a pool that was written soundly.               *)

LEMMA Implied ==
    ASSUME PoolInv
    PROVE  /\ DeliveredIsWritten /\ ListingIsDirectory /\ CatalogComplete
           /\ KeyIsTheDatasets /\ OutputCertified
<1>1. DeliveredIsWritten
  BY DEF PoolInv, ResultOK, ResultOf, DeliveredOf, DeliveredIsWritten, Done
<1>2. ListingIsDirectory
  BY DEF PoolInv, ResultOK, ResultOf, ListingOf, ListingIsDirectory, Done
<1>3. CatalogComplete
  BY DEF PoolInv, ResultOK, ResultOf, CatalogOf, CatalogComplete, Done
<1>4. KeyIsTheDatasets
  BY DEF PoolInv, ResultOK, ResultOf, KeyRight, KeyIsTheDatasets, Done
<1>5. OutputCertified
  BY DEF PoolInv, OutputOK, Certifies, OutputCertified, SidecarFits
<1> QED BY <1>1, <1>2, <1>3, <1>4, <1>5

\* What is known of every state of a session on such a member.
LEMMA PoolInvariant == Spec /\ PoolSound => []PoolInv
<1>1. Init /\ PoolSound => PoolInv
  BY InitSound
<1>2. PoolInv /\ [Next]_vars => PoolInv'
  BY NextKeeps
<1> QED BY <1>1, <1>2, PTL DEF Spec

\* Whatever copies decay and whenever, what extract, the extraction of a
\* tree's file, read_small_file_with_key and read_exact_at return of a file
\* is what was written to it: a damaged copy is passed over or is an error.
THEOREM PoolDeliveredIsWritten == Spec /\ PoolSound => []DeliveredIsWritten
BY PoolInvariant, Implied, PTL

\* list_directory_with_key returns the entries of the directory that the path
\* leads to; the size of one is missing only if a block was lost.
THEOREM PoolListingIsDirectory == Spec /\ PoolSound => []ListingIsDirectory
BY PoolInvariant, Implied, PTL

\* The walk over the DSL directories lists each of those with a head that
\* visible names reach, once, by a name that leads there, whatever the graph.
THEOREM PoolCatalogComplete == Spec /\ PoolSound => []CatalogComplete
BY PoolInvariant, Implied, PTL

\* The search up the DSL parents ends at the key of the dataset, and no
\* dataset is read with another key or without the one it needs.
THEOREM PoolKeyIsTheDatasets == Spec /\ PoolSound => []KeyIsTheDatasets
BY PoolInvariant, Implied, PTL

\* Whatever failed or was killed, the destination has the whole of a file of
\* the pool or nothing, and a sidecar that fits it names what it was read from.
THEOREM PoolOutputCertified == Spec /\ PoolSound => []OutputCertified
BY PoolInvariant, Implied, PTL
=============================================================================
