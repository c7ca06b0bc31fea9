-------------------------- MODULE ProxyArenaProofs --------------------------
(***************************************************************************)
(* Proofs about ProxyArena, for every arena size, granularity, set of      *)
(* request sizes and limit of the caches and the node pool: type           *)
(* correctness, that no byte of the arena ever has two owners, that the    *)
(* allocator implements ArenaContract, that the free list stays coalesced, *)
(* that no list node leaks, that a refusal is justified, and that the      *)
(* statistics add up.                                                      *)
(***************************************************************************)
EXTENDS ProxyArena, FiniteSums, FiniteSetTheorems, SequenceTheorems, TLAPS

Block == [addr : Nat, size : Nat \ {0}]
Solid(x) == x.addr \in Nat /\ x.size \in Nat \ {0}

-----------------------------------------------------------------------------
(* The operators *)

\* Rounding a request up to the granularity gives a slot at least as large.
LEMMA AlignUpFacts ==
    ASSUME NEW v \in Nat \ {0}
    PROVE  AlignUp(v) \in Nat \ {0} /\ AlignUp(v) >= v
<1> DEFINE x == v + (Granularity - 1)
<1>1. Granularity \in Nat \ {0} BY ArenaAssumption
<1>2. x \in Nat /\ x >= v BY <1>1
<1>3. x % Granularity \in Nat /\ x % Granularity < Granularity BY <1>1, <1>2
<1> QED BY <1>1, <1>2, <1>3 DEF AlignUp

\* Sums of counters are numbers.
LEMMA NatSum == \A m, n \in Nat : m + n \in Nat /\ m + 1 \in Nat
  OBVIOUS

\* Every slot size is a positive number.
LEMMA ClassSizeFacts == \A c \in ClassSizes : c \in Nat \ {0}
  BY AlignUpFacts, ArenaAssumption DEF ClassSizes

\* Apart is symmetric.
LEMMA ApartSym == ASSUME NEW x, NEW y, Apart(x, y) PROVE Apart(y, x)
  BY DEF Apart

\* What TakeFreeFit takes from a block and what it leaves are parts of that
\* block that do not touch each other's bytes.
LEMMA TakeParts ==
    ASSUME NEW f \in Block, NEW n \in Nat \ {0}, f.size >= n, NEW top \in BOOLEAN
    PROVE  LET slot == TakenSlot(f, n, top)
               rest == Remainder(f, n, top)
           IN  /\ slot \in Block /\ slot.size >= n
               /\ f.addr <= slot.addr /\ End(slot) <= End(f)
               /\ ~TakesWhole(f, n) => /\ rest \in Block
                                       /\ f.addr <= rest.addr /\ End(rest) <= End(f)
                                       /\ Apart(slot, rest)
<1>1. Granularity \in Nat \ {0} BY ArenaAssumption
<1>2. CASE TakesWhole(f, n) BY <1>2 DEF TakenSlot, Block, End
<1>3. CASE ~TakesWhole(f, n)
  <2>1. f.size - n \in Nat \ {0} BY <1>1, <1>3 DEF TakesWhole, Block
  <2>2. CASE top
    BY <1>3, <2>1, <2>2 DEF TakenSlot, Remainder, Block, End, Apart
  <2>3. CASE ~top
    BY <1>3, <2>1, <2>3 DEF TakenSlot, Remainder, Block, End, Apart
  <2> QED BY <2>2, <2>3
<1> QED BY <1>2, <1>3

\* A range apart from a block is apart from every part of it.
LEMMA PartApart ==
    ASSUME NEW x, Solid(x), NEW f, Solid(f), NEW g, Solid(g),
           f.addr <= g.addr, End(g) <= End(f), Apart(x, f)
    PROVE  Apart(x, g)
  BY DEF Solid, End, Apart

\* A carve keeps the list's blocks apart, and whatever was apart from the list
\* is apart from the list and from the slot that is taken.
LEMMA TakeFacts ==
    ASSUME free \subseteq Block, IsFiniteSet(free), FreeApart,
           NEW n \in Nat \ {0}, NEW f \in Fitting(n), NEW top \in BOOLEAN
    PROVE  LET slot == TakenSlot(f, n, top)
               left == FreeAfterTake(f, n, top)
           IN  /\ slot \in Block /\ slot.size >= n /\ End(slot) <= ArenaSize
               /\ left \subseteq Block /\ IsFiniteSet(left)
               /\ \A g \in left : /\ End(g) <= ArenaSize
                                  /\ Apart(slot, g)
                                  /\ \A h \in left : g # h => Apart(g, h)
               /\ \A x : Solid(x) /\ (\A g \in free : Apart(x, g))
                            => Apart(x, slot) /\ \A g \in left : Apart(x, g)
<1> DEFINE slot == TakenSlot(f, n, top)
           rest == Remainder(f, n, top)
           left == FreeAfterTake(f, n, top)
<1>0. f \in free /\ f \in Block /\ f.size >= n /\ Solid(f)
  BY DEF Fitting, Block, Solid
<1>1. /\ slot \in Block /\ slot.size >= n
      /\ f.addr <= slot.addr /\ End(slot) <= End(f)
  BY <1>0, TakeParts
<1>2. ~TakesWhole(f, n) => /\ rest \in Block
                           /\ f.addr <= rest.addr /\ End(rest) <= End(f)
                           /\ Apart(slot, rest)
  BY <1>0, TakeParts
<1>3. ArenaSize \in Nat BY ArenaAssumption
<1>4. End(f) <= ArenaSize /\ End(slot) <= ArenaSize
  <2>1. End(f) <= ArenaSize BY <1>0 DEF FreeApart
  <2> QED BY <2>1, <1>0, <1>1, <1>3 DEF End, Block
<1>5. left = (free \ {f}) \cup (IF TakesWhole(f, n) THEN {} ELSE {rest})
  BY DEF FreeAfterTake
<1>6. left \subseteq Block BY <1>2, <1>5
<1>7. IsFiniteSet(left)
  <2>1. IsFiniteSet(free \ {f}) BY FS_RemoveElement
  <2>2. IsFiniteSet((free \ {f}) \cup {rest}) BY <2>1, FS_AddElement
  <2> QED BY <1>5, <2>1, <2>2
<1>8. \A g \in Block : Solid(g) BY DEF Block, Solid
<1>9. ASSUME NEW x, Solid(x), Apart(x, f)
      PROVE  Apart(x, slot) /\ (~TakesWhole(f, n) => Apart(x, rest))
  <2>1. Apart(x, slot) BY <1>9, <1>0, <1>1, <1>8, PartApart
  <2>2. ASSUME ~TakesWhole(f, n) PROVE Apart(x, rest)
    BY <1>9, <2>2, <1>0, <1>2, <1>8, PartApart
  <2> QED BY <2>1, <2>2
<1>10. ASSUME NEW g \in left
       PROVE  /\ End(g) <= ArenaSize
              /\ Apart(slot, g)
              /\ \A h \in left : g # h => Apart(g, h)
  <2>1. CASE g \in free \ {f}
    <3>1. End(g) <= ArenaSize /\ Apart(g, f) /\ Solid(g)
      BY <2>1, <1>0, <1>8 DEF FreeApart
    <3>2. Apart(g, slot) /\ (~TakesWhole(f, n) => Apart(g, rest)) BY <3>1, <1>9
    <3>3. \A h \in free : g # h => Apart(g, h) BY <2>1 DEF FreeApart
    <3> QED BY <3>1, <3>2, <3>3, <1>5, ApartSym
  <2>2. CASE ~TakesWhole(f, n) /\ g = rest
    <3>1. End(g) <= ArenaSize
      BY <2>2, <1>0, <1>2, <1>3, <1>4 DEF End, Block
    <3>2. \A h \in free \ {f} : Apart(h, f) /\ Solid(h) BY <1>0, <1>8 DEF FreeApart
    <3>3. \A h \in free \ {f} : Apart(h, rest) BY <2>2, <3>2, <1>9
    <3>4. \A h \in free \ {f} : Apart(g, h) BY <2>2, <3>3, ApartSym
    <3> QED BY <2>2, <3>1, <3>4, <1>2, <1>5
  <2> QED BY <2>1, <2>2, <1>5
<1>11. ASSUME NEW x, Solid(x), \A g \in free : Apart(x, g)
       PROVE  Apart(x, slot) /\ \A g \in left : Apart(x, g)
  BY <1>0, <1>5, <1>9, <1>11
<1> HIDE DEF slot, left
<1>12. /\ slot \in Block /\ slot.size >= n /\ End(slot) <= ArenaSize
       /\ left \subseteq Block /\ IsFiniteSet(left)
       /\ \A g \in left : /\ End(g) <= ArenaSize
                          /\ Apart(slot, g)
                          /\ \A h \in left : g # h => Apart(g, h)
       /\ \A x : Solid(x) /\ (\A g \in free : Apart(x, g))
                    => Apart(x, slot) /\ \A g \in left : Apart(x, g)
  BY <1>1, <1>4, <1>6, <1>7, <1>10, <1>11
<1> QED BY <1>12 DEF slot, left

\* Joining a block with a left and a right neighbour: the ends of the union.
LEMMA JoinedSpan ==
    ASSUME free \subseteq Block, NEW b \in Block
    PROVE  LET lo == IF LeftOf(b) = {} THEN b.addr ELSE (CHOOSE l \in LeftOf(b) : TRUE).addr
               hi == IF RightOf(b) = {} THEN End(b) ELSE End(CHOOSE r \in RightOf(b) : TRUE)
           IN  /\ lo \in Nat /\ hi \in Nat /\ lo <= b.addr /\ End(b) <= hi
               /\ lo = b.addr \/ \E l \in LeftOf(b) : l.addr = lo
               /\ hi = End(b) \/ \E r \in RightOf(b) : End(r) = hi
<1> DEFINE lo == IF LeftOf(b) = {} THEN b.addr ELSE (CHOOSE l \in LeftOf(b) : TRUE).addr
           hi == IF RightOf(b) = {} THEN End(b) ELSE End(CHOOSE r \in RightOf(b) : TRUE)
<1>1. LeftOf(b) \subseteq Block /\ RightOf(b) \subseteq Block BY DEF LeftOf, RightOf
<1>2. lo \in Nat /\ lo <= b.addr /\ (lo = b.addr \/ \E l \in LeftOf(b) : l.addr = lo)
  <2>1. CASE LeftOf(b) = {} BY <2>1 DEF Block
  <2>2. CASE LeftOf(b) # {}
    <3>1. PICK l \in LeftOf(b) : l = CHOOSE k \in LeftOf(b) : TRUE BY <2>2
    <3>2. l.addr \in Nat /\ l.addr <= b.addr BY <1>1 DEF LeftOf, End, Block
    <3> QED BY <2>2, <3>1, <3>2
  <2> QED BY <2>1, <2>2
<1>3. hi \in Nat /\ End(b) <= hi /\ (hi = End(b) \/ \E r \in RightOf(b) : End(r) = hi)
  <2>1. CASE RightOf(b) = {} BY <2>1 DEF Block, End
  <2>2. CASE RightOf(b) # {}
    <3>1. PICK r \in RightOf(b) : r = CHOOSE k \in RightOf(b) : TRUE BY <2>2
    <3>2. End(r) \in Nat /\ End(b) <= End(r) BY <1>1 DEF RightOf, End, Block
    <3> QED BY <2>2, <3>1, <3>2
  <2> QED BY <2>1, <2>2
<1> QED BY <1>2, <1>3

\* An insertion keeps the list's blocks apart and inside the arena, and
\* whatever was apart from the list and from the block stays apart from it.
LEMMA InsertFacts ==
    ASSUME free \subseteq Block, IsFiniteSet(free), FreeApart,
           NEW b \in Block, End(b) <= ArenaSize, \A f \in free : Apart(b, f)
    PROVE  LET list == InsertFreeSortedAndCoalesce(b)
           IN  /\ list \subseteq Block /\ IsFiniteSet(list) /\ NodesJoined(b) \in Nat
               /\ \A g \in list : /\ End(g) <= ArenaSize
                                  /\ \A h \in list : g # h => Apart(g, h)
               /\ \A x : /\ Solid(x) /\ Apart(x, b)
                         /\ \A f \in free : Apart(x, f)
                         => \A g \in list : Apart(x, g)
<1> DEFINE lo == IF LeftOf(b) = {} THEN b.addr ELSE (CHOOSE l \in LeftOf(b) : TRUE).addr
           hi == IF RightOf(b) = {} THEN End(b) ELSE End(CHOOSE r \in RightOf(b) : TRUE)
           j == [addr |-> lo, size |-> hi - lo]
           rest == free \ (LeftOf(b) \cup RightOf(b))
           list == InsertFreeSortedAndCoalesce(b)
<1>1. /\ lo \in Nat /\ hi \in Nat /\ lo <= b.addr /\ End(b) <= hi
      /\ lo = b.addr \/ \E l \in LeftOf(b) : l.addr = lo
      /\ hi = End(b) \/ \E r \in RightOf(b) : End(r) = hi
  BY JoinedSpan
<1>2. list = rest \cup {j} BY DEF InsertFreeSortedAndCoalesce
<1> HIDE DEF lo, hi, list
<1>3. LeftOf(b) \subseteq free /\ RightOf(b) \subseteq free BY DEF LeftOf, RightOf
<1>4. j \in Block /\ End(j) = hi /\ j.addr = lo BY <1>1 DEF Block, End
<1>5. hi <= ArenaSize BY <1>1, <1>3 DEF FreeApart
<1>6. IsFiniteSet(list) /\ NodesJoined(b) \in Nat
  <2>1. IsFiniteSet(rest) BY FS_Subset
  <2>2. IsFiniteSet(list) BY <2>1, <1>2, FS_AddElement
  <2>3. IsFiniteSet(LeftOf(b)) /\ IsFiniteSet(RightOf(b)) BY <1>3, FS_Subset
  <2>4. Cardinality(LeftOf(b)) \in Nat /\ Cardinality(RightOf(b)) \in Nat
    BY <2>3, FS_CardinalityType
  <2> QED BY <2>2, <2>4 DEF NodesJoined
<1>7. ASSUME NEW x, Solid(x), Apart(x, b),
             \A l \in LeftOf(b) : Apart(x, l), \A r \in RightOf(b) : Apart(x, r)
      PROVE  Apart(x, j)
  <2>1. x.addr \in Nat /\ End(x) \in Nat /\ x.addr < End(x) BY <1>7 DEF Solid, End
  <2>2. b.addr \in Nat /\ End(b) \in Nat /\ b.addr < End(b) BY DEF Block, End
  <2>3. End(x) <= lo \/ b.addr <= x.addr
    <3>1. CASE lo = b.addr BY <3>1, <1>7, <2>1, <2>2 DEF Apart
    <3>2. ASSUME NEW l \in LeftOf(b), l.addr = lo
          PROVE  End(x) <= lo \/ b.addr <= x.addr
      BY <3>2, <1>7 DEF LeftOf, Apart
    <3> QED BY <1>1, <3>1, <3>2
  <2>4. x.addr >= hi \/ End(x) <= End(b)
    <3>1. CASE hi = End(b) BY <3>1, <1>7, <2>1, <2>2 DEF Apart
    <3>2. ASSUME NEW r \in RightOf(b), End(r) = hi
          PROVE  x.addr >= hi \/ End(x) <= End(b)
      BY <3>2, <1>7, <1>1, <2>1 DEF RightOf, Apart
    <3> QED BY <1>1, <3>1, <3>2
  <2>5. End(x) <= b.addr \/ End(b) <= x.addr BY <1>7 DEF Apart
  <2>6. End(x) <= lo \/ hi <= x.addr BY <1>1, <2>1, <2>2, <2>3, <2>4, <2>5
  <2> QED BY <2>6, <1>4 DEF Apart
<1>8. \A g \in Block : Solid(g) BY DEF Block, Solid
<1>9. ASSUME NEW g \in rest PROVE Apart(g, j)
  <2>1. Apart(g, b) BY ApartSym
  <2>2. \A l \in LeftOf(b) \cup RightOf(b) : Apart(g, l) BY <1>3 DEF FreeApart
  <2> QED BY <2>1, <2>2, <1>7, <1>8
<1>10. ASSUME NEW g \in list
       PROVE  End(g) <= ArenaSize /\ \A h \in list : g # h => Apart(g, h)
  <2>1. CASE g \in rest
    <3>1. End(g) <= ArenaSize /\ \A h \in rest : g # h => Apart(g, h)
      BY <2>1 DEF FreeApart
    <3> QED BY <2>1, <3>1, <1>2, <1>9
  <2>2. CASE g = j
    <3>1. \A h \in rest : Apart(j, h) BY <1>9, ApartSym
    <3> QED BY <2>2, <3>1, <1>2, <1>4, <1>5
  <2> QED BY <2>1, <2>2, <1>2
<1>11. ASSUME NEW x, Solid(x), Apart(x, b), \A f \in free : Apart(x, f)
       PROVE  \A g \in list : Apart(x, g)
  <2>1. Apart(x, j) BY <1>11, <1>3, <1>7
  <2> QED BY <2>1, <1>11, <1>2
<1>12. list \subseteq Block BY <1>2, <1>4
<1> QED BY <1>6, <1>10, <1>11, <1>12 DEF list

\* Popping a cache takes its last address and leaves the others in place.
LEMMA PopFacts ==
    ASSUME NEW q \in Seq(Nat), q # <<>>
    PROVE  /\ Pop(q) \in Seq(Nat) /\ Len(Pop(q)) = Len(q) - 1
           /\ \A i \in 1 .. Len(Pop(q)) : Pop(q)[i] = q[i]
           /\ Len(q) \in Nat \ {0} /\ Top(q) \in Nat
<1>1. Len(q) \in Nat \ {0} /\ q \in [1 .. Len(q) -> Nat] BY EmptySeq, LenProperties
<1>2. \A i \in 1 .. (Len(q) - 1) : q[i] \in Nat BY <1>1
<1>3. Len(q) - 1 \in Nat BY <1>1
<1> DEFINE n == Len(q) - 1
<1>4. n \in Int /\ 1 \in Int BY <1>3
<1> HIDE DEF n
<1>5. \A i \in 1 .. n : q[i] \in Nat BY <1>2 DEF n
<1>6. /\ SubSeq(q, 1, n) \in Seq(Nat)
      /\ Len(SubSeq(q, 1, n)) = IF 1 <= n THEN n - 1 + 1 ELSE 0
      /\ \A i \in 1 .. n - 1 + 1 : SubSeq(q, 1, n)[i] = q[1 + i - 1]
  BY <1>4, <1>5, SubSeqProperties
<1>7. Len(SubSeq(q, 1, n)) = n /\ \A i \in 1 .. n : SubSeq(q, 1, n)[i] = q[i]
  <2>1. n \in Nat /\ n - 1 + 1 = n BY <1>3 DEF n
  <2>2. Len(SubSeq(q, 1, n)) = n BY <1>6, <2>1
  <2>3. ASSUME NEW i \in 1 .. n PROVE SubSeq(q, 1, n)[i] = q[i]
    <3>1. 1 + i - 1 = i /\ i \in 1 .. n - 1 + 1 BY <2>1
    <3> QED BY <1>6, <3>1
  <2> QED BY <2>2, <2>3
<1> QED BY <1>1, <1>6, <1>7 DEF Pop, Top, n

\* A block in a reuse cache is a block.
LEMMA CachedIsBlock ==
    ASSUME ArenaTypeOK, NEW c \in ClassSizes, NEW i \in 1 .. Len(cached[c])
    PROVE  CachedBlock(c, i) \in Block
<1>1. cached[c] \in Seq(Nat) BY DEF ArenaTypeOK
<1>2. cached[c][i] \in Nat BY <1>1
<1> QED BY <1>2, ClassSizeFacts DEF CachedBlock, Block

\* Popping one cache: the others keep their blocks, and the block that leaves
\* was its last one.
LEMMA PopCached ==
    ASSUME ArenaTypeOK, NEW k \in ClassSizes, cached[k] # <<>>,
           cached' = [cached EXCEPT ![k] = Pop(@)]
    PROVE  /\ cached' \in [ClassSizes -> Seq(Nat)]
           /\ Len(cached[k]) \in 1 .. Len(cached[k])
           /\ CachedBlock(k, Len(cached[k])) = [addr |-> Top(cached[k]), size |-> k]
           /\ \A c \in ClassSizes : \A i \in 1 .. Len(cached'[c]) :
                 /\ i \in 1 .. Len(cached[c])
                 /\ <<c, i>> # <<k, Len(cached[k])>>
                 /\ CachedBlock(c, i)' = CachedBlock(c, i)
<1>1. cached \in [ClassSizes -> Seq(Nat)] /\ cached[k] \in Seq(Nat) BY DEF ArenaTypeOK
<1>2. /\ Pop(cached[k]) \in Seq(Nat) /\ Len(Pop(cached[k])) = Len(cached[k]) - 1
      /\ \A i \in 1 .. Len(Pop(cached[k])) : Pop(cached[k])[i] = cached[k][i]
      /\ Len(cached[k]) \in Nat \ {0} /\ Top(cached[k]) \in Nat
  BY <1>1, PopFacts
<1>3. cached' \in [ClassSizes -> Seq(Nat)] BY <1>1, <1>2
<1>4. CachedBlock(k, Len(cached[k])) = [addr |-> Top(cached[k]), size |-> k]
  BY DEF CachedBlock, Top
<1>5. ASSUME NEW c \in ClassSizes, NEW i \in 1 .. Len(cached'[c])
      PROVE  /\ i \in 1 .. Len(cached[c])
             /\ <<c, i>> # <<k, Len(cached[k])>>
             /\ cached'[c][i] = cached[c][i]
  <2>1. CASE c = k
    <3>1. cached'[c] = Pop(cached[k]) BY <1>1, <2>1
    <3>2. i \in 1 .. (Len(cached[k]) - 1) BY <3>1, <1>2
    <3> QED BY <2>1, <3>1, <3>2, <1>2
  <2>2. CASE c # k
    <3>1. cached'[c] = cached[c] BY <1>1, <2>2
    <3> QED BY <2>2, <3>1
  <2> QED BY <2>1, <2>2
<1> QED BY <1>2, <1>3, <1>4, <1>5 DEF CachedBlock

\* Pushing an address on one cache adds one block and moves none.
LEMMA PushCached ==
    ASSUME ArenaTypeOK, NEW k \in ClassSizes, NEW a \in Nat,
           cached' = [cached EXCEPT ![k] = Append(@, a)]
    PROVE  /\ cached' \in [ClassSizes -> Seq(Nat)]
           /\ \A c \in ClassSizes : \A i \in 1 .. Len(cached'[c]) :
                 \/ i \in 1 .. Len(cached[c]) /\ CachedBlock(c, i)' = CachedBlock(c, i)
                 \/ /\ c = k /\ i = Len(cached[k]) + 1
                    /\ CachedBlock(c, i)' = [addr |-> a, size |-> k]
<1>1. cached \in [ClassSizes -> Seq(Nat)] /\ cached[k] \in Seq(Nat) BY DEF ArenaTypeOK
<1>2. /\ Append(cached[k], a) \in Seq(Nat)
      /\ Len(Append(cached[k], a)) = Len(cached[k]) + 1
      /\ \A i \in 1 .. Len(cached[k]) : Append(cached[k], a)[i] = cached[k][i]
      /\ Append(cached[k], a)[Len(cached[k]) + 1] = a
      /\ Len(cached[k]) \in Nat
  BY <1>1, AppendProperties, LenProperties
<1>3. cached' \in [ClassSizes -> Seq(Nat)] BY <1>1, <1>2
<1>4. ASSUME NEW c \in ClassSizes, NEW i \in 1 .. Len(cached'[c])
      PROVE  \/ i \in 1 .. Len(cached[c]) /\ cached'[c][i] = cached[c][i]
             \/ c = k /\ i = Len(cached[k]) + 1 /\ cached'[c][i] = a
  <2>1. CASE c = k
    <3>1. cached'[c] = Append(cached[k], a) BY <1>1, <2>1
    <3> QED BY <2>1, <3>1, <1>2
  <2>2. CASE c # k
    <3>1. cached'[c] = cached[c] BY <1>1, <2>2
    <3> QED BY <2>2, <3>1
  <2> QED BY <2>1, <2>2
<1> QED BY <1>3, <1>4 DEF CachedBlock

-----------------------------------------------------------------------------
(* The actions *)

\* A call that holds the lock has a size whose slot size is positive.
LEMMA CallFacts ==
    ASSUME ArenaInv, call.stage \in {"search", "drain"}
    PROVE  /\ call.size \in Sizes /\ call.top \in BOOLEAN
           /\ need \in ClassSizes /\ need \in Nat \ {0}
           /\ phase = "up"
<1>1. call # NoCall BY DEF NoCall
<1>2. call.size \in Sizes /\ call.top \in BOOLEAN BY <1>1 DEF ArenaInv, ArenaTypeOK
<1>3. need \in ClassSizes BY <1>2 DEF need, ClassSizes
<1>4. phase = "up" BY <1>1 DEF ArenaInv, ArenaTypeOK, PhaseOK
<1> QED BY <1>2, <1>3, <1>4, ClassSizeFacts

\* Steps that leave the lists and the held slots alone.
LEMMA ListsUnchanged ==
    ASSUME ArenaInv, UNCHANGED <<free, cached, live>>
    PROVE  IsFiniteSet(free)' /\ NoOverlap' /\ SlotsCoverRequests'
<1>1. FreeApart' BY DEF ArenaInv, NoOverlap, FreeApart
<1>2. LiveApart' BY DEF ArenaInv, NoOverlap, LiveApart
<1>3. CachedApart' BY DEF ArenaInv, NoOverlap, CachedApart, CachedBlock
<1> QED BY <1>1, <1>2, <1>3 DEF ArenaInv, NoOverlap, SlotsCoverRequests

\* Initialize lists the whole arena as one block.
LEMMA InitializeInv == ASSUME ArenaInv, Initialize PROVE ArenaInv'
<1> USE DEF ArenaInv
<1>0. ArenaSize \in Nat \ {0} /\ NodeCap \in Nat \ {0} BY ArenaAssumption
<1>1. ArenaTypeOK'
  BY <1>0 DEF Initialize, ArenaTypeOK, arenaCounters, NoCall
<1>2. IsFiniteSet(free)' BY FS_Singleton DEF Initialize
<1>3. FreeApart' BY <1>0 DEF Initialize, FreeApart, End
<1>4. live' = {} /\ freeing' = {} /\ \A c \in ClassSizes : cached'[c] = <<>>
  BY DEF Initialize, PhaseOK
<1>5. LiveApart' /\ SlotsCoverRequests' BY <1>4 DEF LiveApart, SlotsCoverRequests
<1>6. CachedApart'
  <2>1. \A c \in ClassSizes : 1 .. Len(cached'[c]) = {} BY <1>4
  <2> QED BY <2>1 DEF CachedApart
<1>7. PhaseOK' BY <1>4 DEF Initialize, PhaseOK
<1> QED BY <1>1, <1>2, <1>3, <1>5, <1>6, <1>7 DEF NoOverlap

\* A failed Initialize leaves only the node pool behind.
LEMMA InitializeFailsInv == ASSUME ArenaInv, InitializeFails PROVE ArenaInv'
<1>1. ArenaTypeOK'
  BY ArenaAssumption DEF ArenaInv, InitializeFails, ArenaTypeOK, arenaCounters
<1>2. PhaseOK' BY DEF ArenaInv, InitializeFails, PhaseOK
<1> QED BY <1>1, <1>2, ListsUnchanged DEF ArenaInv, InitializeFails

\* Shutdown leaves nothing listed and nothing held.
LEMMA ShutdownInv == ASSUME ArenaInv, Shutdown PROVE ArenaInv'
<1>1. ArenaTypeOK' BY DEF ArenaInv, Shutdown, ArenaTypeOK
<1>2. IsFiniteSet(free)' BY FS_EmptySet DEF Shutdown
<1>3. FreeApart' /\ LiveApart' /\ SlotsCoverRequests'
  BY DEF Shutdown, FreeApart, LiveApart, SlotsCoverRequests
<1>4. CachedApart'
  BY DEF ArenaInv, NoOverlap, Shutdown, CachedApart, CachedBlock
<1>5. PhaseOK' BY DEF ArenaInv, Shutdown, PhaseOK
<1> QED BY <1>1, <1>2, <1>3, <1>4, <1>5 DEF ArenaInv, NoOverlap

\* The steps of Allocate that only count or move the call along, and Free's
\* test of the address.
LEMMA CountingInv ==
    ASSUME ArenaInv,
           \/ AllocateWithoutArena \/ AllocateReclaim \/ AllocateFail
           \/ \E size \in Sizes : \E top \in Directions(size) : AllocateEnter(size, top)
           \/ \E s \in live : FreeEnter(s)
    PROVE  ArenaInv'
<1>1. CASE AllocateWithoutArena
  <2>1. ArenaTypeOK' BY <1>1 DEF ArenaInv, ArenaTypeOK, AllocateWithoutArena, arenaLists
  <2>2. PhaseOK' BY <1>1 DEF ArenaInv, PhaseOK, AllocateWithoutArena, arenaLists
  <2> QED BY <1>1, <2>1, <2>2, ListsUnchanged DEF ArenaInv, AllocateWithoutArena, arenaLists
<1>2. CASE AllocateReclaim
  <2>1. call # NoCall BY <1>2 DEF AllocateReclaim, NoCall
  <2>2. call' \in [stage : {"search", "drain"}, size : Sizes, top : BOOLEAN]
    BY <1>2, <2>1 DEF ArenaInv, ArenaTypeOK, AllocateReclaim
  <2>3. ArenaTypeOK'
    BY <1>2, <2>2 DEF ArenaInv, ArenaTypeOK, AllocateReclaim, arenaLists, arenaCounters
  <2>4. PhaseOK' BY <1>2, <2>1 DEF ArenaInv, PhaseOK, AllocateReclaim, arenaLists
  <2> QED BY <1>2, <2>3, <2>4, ListsUnchanged DEF ArenaInv, AllocateReclaim, arenaLists
<1>3. CASE AllocateFail
  <2>1. ArenaTypeOK' BY <1>3 DEF ArenaInv, ArenaTypeOK, AllocateFail, arenaLists
  <2>2. PhaseOK' BY <1>3 DEF ArenaInv, PhaseOK, AllocateFail, arenaLists
  <2> QED BY <1>3, <2>1, <2>2, ListsUnchanged DEF ArenaInv, AllocateFail, arenaLists
<1>4. ASSUME NEW size \in Sizes, NEW top \in Directions(size), AllocateEnter(size, top)
      PROVE  ArenaInv'
  <2>1. top \in BOOLEAN BY DEF Directions
  <2>2. call' \in [stage : {"search", "drain"}, size : Sizes, top : BOOLEAN]
    BY <1>4, <2>1 DEF AllocateEnter
  <2>3. ArenaTypeOK'
    BY <1>4, <2>2 DEF ArenaInv, ArenaTypeOK, AllocateEnter, arenaLists
  <2>4. PhaseOK' BY <1>4 DEF ArenaInv, PhaseOK, AllocateEnter, arenaLists
  <2> QED BY <1>4, <2>3, <2>4, ListsUnchanged DEF ArenaInv, AllocateEnter, arenaLists
<1>5. ASSUME NEW s \in live, FreeEnter(s) PROVE ArenaInv'
  <2>1. ArenaTypeOK'
    BY <1>5 DEF ArenaInv, ArenaTypeOK, FreeEnter, arenaLists, arenaCounters
  <2>2. PhaseOK' BY <1>5 DEF ArenaInv, PhaseOK, FreeEnter, IsProxyAddress, arenaLists
  <2> QED BY <1>5, <2>1, <2>2, ListsUnchanged DEF ArenaInv, FreeEnter, arenaLists
<1> QED BY <1>1, <1>2, <1>3, <1>4, <1>5

\* The slot Allocate grants joins the held ones: it is apart from them, from
\* the list that is left and from every block that stays cached.
LEMMA GrantInv ==
    ASSUME ArenaInv, call.stage \in {"search", "drain"},
           NEW slot \in Block, slot.size >= need, End(slot) <= ArenaSize, GrantSlot(slot),
           free' \subseteq Block, IsFiniteSet(free)', FreeApart', nodes' \in Nat,
           classSizes' = classSizes, classCached' \in Nat, reused' \in Nat,
           cached' \in [ClassSizes -> Seq(Nat)],
           \A s \in live : Apart(slot, s) /\ \A f \in free' : Apart(s, f),
           \A f \in free' : Apart(slot, f),
           \A c \in ClassSizes : \A i \in 1 .. Len(cached'[c]) :
              /\ i \in 1 .. Len(cached[c])
              /\ CachedBlock(c, i)' = CachedBlock(c, i)
              /\ Apart(CachedBlock(c, i), slot)
              /\ \A f \in free' : Apart(CachedBlock(c, i), f)
    PROVE  ArenaInv'
<1> DEFINE held == [addr |-> slot.addr, size |-> slot.size, req |-> call.size]
<1>0. /\ call.size \in Sizes /\ phase = "up" BY CallFacts
<1>1. /\ live' = live \cup {held} /\ call' = NoCall
      /\ freeing' = freeing /\ phase' = phase
  BY DEF GrantSlot
<1>2. held \in [addr : Nat, size : Nat \ {0}, req : Sizes] BY <1>0 DEF Block
<1>3. ArenaTypeOK'
  <2>1. /\ used' \in Nat /\ liveRequested' \in Nat /\ active' \in Nat /\ granted' \in Nat
        /\ UNCHANGED <<requests, failures, freed, lost>>
    <3>1. call.size \in Nat /\ slot.size \in Nat BY <1>0, ArenaAssumption DEF Block
    <3>2. used \in Nat /\ liveRequested \in Nat /\ active \in Nat /\ granted \in Nat
      BY DEF ArenaInv, ArenaTypeOK
    <3>3. /\ used' = used + slot.size /\ liveRequested' = liveRequested + call.size
          /\ active' = active + 1 /\ granted' = granted + slot.size
      BY DEF GrantSlot
    <3>4. UNCHANGED <<requests, failures, freed, lost>> BY DEF GrantSlot
    <3>5. active' \in Nat BY <3>2, <3>3, NatSum
    <3> QED BY <3>1, <3>2, <3>3, <3>4, <3>5, NatSum, Zenon
  <2>2. live' \subseteq [addr : Nat, size : Nat \ {0}, req : Sizes]
    BY <1>1, <1>2 DEF ArenaInv, ArenaTypeOK
  <2> QED BY <1>1, <2>1, <2>2 DEF ArenaInv, ArenaTypeOK, Block
<1>4. \A x : /\ Apart(x, held) <=> Apart(x, slot)
             /\ Apart(held, x) <=> Apart(slot, x)
  BY DEF Apart, End
<1>5. LiveApart'
  <2> SUFFICES ASSUME NEW s \in live'
               PROVE  /\ End(s) <= ArenaSize
                      /\ \A t \in live' : s # t => Apart(s, t)
                      /\ \A f \in free' : Apart(s, f)
    BY DEF LiveApart
  <2>1. CASE s \in live
    <3>1. End(s) <= ArenaSize /\ \A t \in live : s # t => Apart(s, t)
      BY <2>1 DEF ArenaInv, NoOverlap, LiveApart
    <3>2. Apart(s, held) BY <2>1, <1>4, ApartSym
    <3> QED BY <2>1, <3>1, <3>2, <1>1
  <2>2. CASE s = held
    <3>1. End(s) <= ArenaSize BY <2>2 DEF End
    <3> QED BY <2>2, <3>1, <1>1, <1>4
  <2> QED BY <2>1, <2>2, <1>1
<1>6. CachedApart'
  <2> SUFFICES ASSUME NEW c \in ClassSizes, NEW i \in 1 .. Len(cached'[c])
               PROVE  /\ End(CachedBlock(c, i)') <= ArenaSize
                      /\ \A f \in free' : Apart(CachedBlock(c, i)', f)
                      /\ \A s \in live' : Apart(CachedBlock(c, i)', s)
                      /\ \A d \in ClassSizes : \A j \in 1 .. Len(cached'[d]) :
                            <<c, i>> # <<d, j>> => Apart(CachedBlock(c, i)', CachedBlock(d, j)')
    BY DEF CachedApart
  <2>1. /\ End(CachedBlock(c, i)) <= ArenaSize
        /\ \A s \in live : Apart(CachedBlock(c, i), s)
        /\ \A d \in ClassSizes : \A j \in 1 .. Len(cached[d]) :
              <<c, i>> # <<d, j>> => Apart(CachedBlock(c, i), CachedBlock(d, j))
    BY DEF ArenaInv, NoOverlap, CachedApart
  <2>2. Apart(CachedBlock(c, i), held) BY <1>4
  <2> QED BY <2>1, <2>2, <1>1
<1>7. PhaseOK' BY <1>0, <1>1 DEF ArenaInv, PhaseOK
<1>8. SlotsCoverRequests'
  <2>1. AlignUp(held.req) <= held.size BY DEF need
  <2> QED BY <2>1, <1>1 DEF ArenaInv, SlotsCoverRequests
<1> QED BY <1>3, <1>5, <1>6, <1>7, <1>8 DEF ArenaInv, NoOverlap

\* A reused block moves from its cache to the held slots.
LEMMA AllocateReuseInv == ASSUME ArenaInv, AllocateReuse PROVE ArenaInv'
<1> DEFINE slot == [addr |-> Top(cached[need]), size |-> need]
           last == Len(cached[need])
<1>0. /\ call.stage \in {"search", "drain"} /\ cached[need] # <<>>
      /\ cached' = [cached EXCEPT ![need] = Pop(@)]
      /\ free' = free /\ classSizes' = classSizes /\ GrantSlot(slot)
  BY DEF AllocateReuse
<1>1. need \in ClassSizes /\ need \in Nat \ {0} BY <1>0, CallFacts
<1>2. ArenaTypeOK BY DEF ArenaInv
<1>3. /\ cached' \in [ClassSizes -> Seq(Nat)]
      /\ last \in 1 .. last
      /\ CachedBlock(need, last) = slot
      /\ \A c \in ClassSizes : \A i \in 1 .. Len(cached'[c]) :
            /\ i \in 1 .. Len(cached[c])
            /\ <<c, i>> # <<need, last>>
            /\ CachedBlock(c, i)' = CachedBlock(c, i)
  BY <1>0, <1>1, <1>2, PopCached
<1>4. slot \in Block BY <1>1, <1>2, <1>3, CachedIsBlock
<1>5. /\ End(slot) <= ArenaSize
      /\ \A f \in free : Apart(slot, f)
      /\ \A s \in live : Apart(slot, s)
  BY <1>1, <1>3 DEF ArenaInv, NoOverlap, CachedApart
<1>6. \A c \in ClassSizes : \A i \in 1 .. Len(cached'[c]) :
         /\ Apart(CachedBlock(c, i), slot)
         /\ \A f \in free : Apart(CachedBlock(c, i), f)
  BY <1>1, <1>3 DEF ArenaInv, NoOverlap, CachedApart
<1>7. \A s \in live : \A f \in free : Apart(s, f) BY DEF ArenaInv, NoOverlap, LiveApart
<1>8. FreeApart' BY <1>0 DEF ArenaInv, NoOverlap, FreeApart
<1>9. /\ free \subseteq Block /\ IsFiniteSet(free)'
      /\ nodes' \in Nat /\ classCached' \in Nat /\ reused' \in Nat
  BY <1>0, <1>1 DEF ArenaInv, ArenaTypeOK, AllocateReuse, DropCovered, Block
<1>10. slot.size >= need BY <1>1
<1> HIDE DEF slot, last
<1> QED BY <1>0, <1>3, <1>4, <1>5, <1>6, <1>7, <1>8, <1>9, <1>10, GrantInv

\* A carved slot comes out of one block of the list.
LEMMA AllocateCarveInv == ASSUME ArenaInv, AllocateCarve PROVE ArenaInv'
<1>0. call.stage \in {"search", "drain"} BY DEF AllocateCarve, Searching
<1>1. need \in Nat \ {0} /\ call.top \in BOOLEAN BY <1>0, CallFacts
<1>2. PICK f \in Fitting(need) :
         /\ free' = FreeAfterTake(f, need, call.top)
         /\ nodes' = IF TakesWhole(f, need) THEN nodes + 1 ELSE nodes
         /\ GrantSlot(TakenSlot(f, need, call.top))
  BY DEF AllocateCarve
<1> DEFINE slot == TakenSlot(f, need, call.top)
<1>3. free \subseteq Block /\ IsFiniteSet(free) /\ FreeApart
  BY DEF ArenaInv, ArenaTypeOK, NoOverlap, Block
<1>4. /\ slot \in Block /\ slot.size >= need /\ End(slot) <= ArenaSize
      /\ free' \subseteq Block /\ IsFiniteSet(free')
      /\ \A g \in free' : /\ End(g) <= ArenaSize
                          /\ Apart(slot, g)
                          /\ \A h \in free' : g # h => Apart(g, h)
      /\ \A x : Solid(x) /\ (\A g \in free : Apart(x, g))
                   => Apart(x, slot) /\ \A g \in free' : Apart(x, g)
  BY <1>1, <1>2, <1>3, TakeFacts
<1> HIDE DEF slot
<1>5. FreeApart' BY <1>4 DEF FreeApart
<1>6. /\ classSizes' = classSizes /\ classCached' \in Nat /\ reused' \in Nat
      /\ cached' = cached /\ cached \in [ClassSizes -> Seq(Nat)] /\ nodes' \in Nat
  BY <1>2 DEF ArenaInv, ArenaTypeOK, AllocateCarve
<1>7. \A s \in live : Apart(slot, s) /\ \A g \in free' : Apart(s, g)
  <2> SUFFICES ASSUME NEW s \in live PROVE Apart(slot, s) /\ \A g \in free' : Apart(s, g)
    OBVIOUS
  <2>1. Solid(s) BY DEF ArenaInv, ArenaTypeOK, Solid
  <2>2. \A g \in free : Apart(s, g) BY DEF ArenaInv, NoOverlap, LiveApart
  <2> QED BY <1>4, <2>1, <2>2, ApartSym
<1>8. \A c \in ClassSizes : \A i \in 1 .. Len(cached'[c]) :
         /\ i \in 1 .. Len(cached[c])
         /\ CachedBlock(c, i)' = CachedBlock(c, i)
         /\ Apart(CachedBlock(c, i), slot)
         /\ \A g \in free' : Apart(CachedBlock(c, i), g)
  <2> SUFFICES ASSUME NEW c \in ClassSizes, NEW i \in 1 .. Len(cached[c])
               PROVE  /\ Apart(CachedBlock(c, i), slot)
                      /\ \A g \in free' : Apart(CachedBlock(c, i), g)
    BY <1>6 DEF CachedBlock
  <2>1. Solid(CachedBlock(c, i)) BY CachedIsBlock DEF ArenaInv, Block, Solid
  <2>2. \A g \in free : Apart(CachedBlock(c, i), g)
    BY DEF ArenaInv, NoOverlap, CachedApart
  <2> QED BY <1>4, <2>1, <2>2
<1>9. GrantSlot(slot) BY <1>2 DEF slot
<1>10. \A g \in free' : Apart(slot, g) BY <1>4
<1> QED BY <1>0, <1>4, <1>5, <1>6, <1>7, <1>8, <1>9, <1>10, GrantInv

\* ReclaimCache moves a cached block to the list, or drops it.
LEMMA ReclaimCacheBlockInv == ASSUME ArenaInv, ReclaimCacheBlock PROVE ArenaInv'
<1>0. call.stage \in {"search", "drain"} BY DEF ReclaimCacheBlock
<1>1. phase = "up" BY <1>0, CallFacts
<1>2. PICK i \in 1 .. Len(classSizes) :
         LET c == classSizes[i]
             b == [addr |-> Top(cached[c]), size |-> c]
         IN  /\ DrainsNext(i)
             /\ cached' = [cached EXCEPT ![c] = Pop(@)]
             /\ classCached' = DropCovered(classCached, c)
             /\ IF nodes > 0
                THEN /\ free' = InsertFreeSortedAndCoalesce(b)
                     /\ nodes' = nodes + NodesJoined(b)
                     /\ UNCHANGED lost
                ELSE /\ lost' = lost \cup {b}
                     /\ nodes' = nodes + 1
                     /\ UNCHANGED free
  BY DEF ReclaimCacheBlock
<1> DEFINE k == classSizes[i]
           b == [addr |-> Top(cached[k]), size |-> k]
           last == Len(cached[k])
<1>3. k \in ClassSizes /\ ArenaTypeOK BY DEF ArenaInv, ArenaTypeOK
<1>4. /\ UNCHANGED <<phase, classSizes, used, liveRequested, active, requests,
                     failures, granted, freed, reused, call, freeing, live>>
      /\ cached[k] # <<>>
  BY <1>2 DEF ReclaimCacheBlock, DrainsNext
<1>5. /\ cached' \in [ClassSizes -> Seq(Nat)]
      /\ last \in 1 .. last
      /\ CachedBlock(k, last) = b
      /\ \A c \in ClassSizes : \A j \in 1 .. Len(cached'[c]) :
            /\ j \in 1 .. Len(cached[c])
            /\ <<c, j>> # <<k, last>>
            /\ CachedBlock(c, j)' = CachedBlock(c, j)
  BY <1>2, <1>3, <1>4, PopCached
<1>6. b \in Block BY <1>3, <1>5, CachedIsBlock
<1>7. /\ End(b) <= ArenaSize
      /\ \A f \in free : Apart(b, f)
      /\ \A s \in live : Apart(b, s)
      /\ \A c \in ClassSizes : \A j \in 1 .. Len(cached'[c]) : Apart(CachedBlock(c, j), b)
  BY <1>3, <1>5 DEF ArenaInv, NoOverlap, CachedApart
<1>8. free \subseteq Block /\ IsFiniteSet(free) /\ FreeApart
  BY DEF ArenaInv, ArenaTypeOK, NoOverlap, Block
<1>9. /\ free' \subseteq Block /\ IsFiniteSet(free') /\ nodes' \in Nat
      /\ FreeApart'
      /\ lost' \subseteq Block
      /\ \A x : /\ Solid(x) /\ Apart(x, b)
                /\ \A f \in free : Apart(x, f)
                => \A g \in free' : Apart(x, g)
  <2>1. nodes \in Nat /\ lost \subseteq Block BY <1>3 DEF ArenaTypeOK, Block
  <2>2. CASE nodes > 0
    <3>1. /\ free' = InsertFreeSortedAndCoalesce(b) /\ nodes' = nodes + NodesJoined(b)
          /\ lost' = lost
      BY <1>2, <2>2
    <3>2. /\ free' \subseteq Block /\ IsFiniteSet(free') /\ NodesJoined(b) \in Nat
          /\ \A g \in free' : /\ End(g) <= ArenaSize
                              /\ \A h \in free' : g # h => Apart(g, h)
          /\ \A x : /\ Solid(x) /\ Apart(x, b)
                    /\ \A f \in free : Apart(x, f)
                    => \A g \in free' : Apart(x, g)
      BY <1>6, <1>7, <1>8, <3>1, InsertFacts
    <3>3. FreeApart' BY <3>2 DEF FreeApart
    <3> QED BY <2>1, <3>1, <3>2, <3>3
  <2>3. CASE ~(nodes > 0)
    <3>1. free' = free /\ nodes' = nodes + 1 /\ lost' = lost \cup {b} BY <1>2, <2>3
    <3>2. FreeApart' BY <1>8, <3>1 DEF FreeApart
    <3> QED BY <2>1, <3>1, <3>2, <1>6, <1>8
  <2> QED BY <2>2, <2>3
<1>10. classCached' \in Nat
  BY <1>2, <1>3, ClassSizeFacts DEF ArenaTypeOK, DropCovered
<1> HIDE DEF b, last
<1>11. ArenaTypeOK'
  BY <1>3, <1>4, <1>5, <1>9, <1>10 DEF ArenaTypeOK, Block
<1>12. LiveApart'
  <2>1. \A s \in live : Solid(s) BY <1>3 DEF ArenaTypeOK, Solid
  <2>2. \A s \in live : Apart(s, b) BY <1>7, ApartSym
  <2>3. \A s \in live : \A f \in free : Apart(s, f) BY DEF ArenaInv, NoOverlap, LiveApart
  <2>4. \A s \in live : \A g \in free' : Apart(s, g) BY <1>9, <2>1, <2>2, <2>3
  <2> QED BY <2>4, <1>4 DEF ArenaInv, NoOverlap, LiveApart
<1>13. CachedApart'
  <2> SUFFICES ASSUME NEW c \in ClassSizes, NEW j \in 1 .. Len(cached'[c])
               PROVE  /\ End(CachedBlock(c, j)') <= ArenaSize
                      /\ \A f \in free' : Apart(CachedBlock(c, j)', f)
                      /\ \A s \in live' : Apart(CachedBlock(c, j)', s)
                      /\ \A d \in ClassSizes : \A m \in 1 .. Len(cached'[d]) :
                            <<c, j>> # <<d, m>> => Apart(CachedBlock(c, j)', CachedBlock(d, m)')
    BY DEF CachedApart
  <2>1. /\ End(CachedBlock(c, j)) <= ArenaSize
        /\ \A f \in free : Apart(CachedBlock(c, j), f)
        /\ \A s \in live : Apart(CachedBlock(c, j), s)
        /\ \A d \in ClassSizes : \A m \in 1 .. Len(cached[d]) :
              <<c, j>> # <<d, m>> => Apart(CachedBlock(c, j), CachedBlock(d, m))
    BY <1>5 DEF ArenaInv, NoOverlap, CachedApart
  <2>2. Solid(CachedBlock(c, j)) BY <1>3, <1>5, CachedIsBlock DEF Block, Solid
  <2>3. \A f \in free' : Apart(CachedBlock(c, j), f) BY <2>1, <2>2, <1>7, <1>9
  <2> QED BY <2>1, <2>3, <1>4, <1>5
<1>14. PhaseOK' BY <1>1, <1>4 DEF ArenaInv, PhaseOK
<1>15. SlotsCoverRequests' BY <1>4 DEF ArenaInv, SlotsCoverRequests
<1> QED BY <1>9, <1>11, <1>12, <1>13, <1>14, <1>15 DEF ArenaInv, NoOverlap

\* The counters of Free stay numbers.
LEMMA SaturateFacts ==
    /\ \A m, n \in Nat : Saturate(m, n) \in Nat
    /\ \A m \in Nat : Saturate(m, 1) \in Nat
  BY DEF Saturate

\* Free's body: the block goes to a cache, to the list, or is dropped; what
\* remains held, listed and cached was apart from the slot it was part of.
LEMMA FreeLockedInv ==
    ASSUME ArenaInv, NEW s \in freeing, FreeLocked(s)
    PROVE  ArenaInv'
<1> DEFINE sz == AlignUp(s.req)
           b == [addr |-> s.addr, size |-> sz]
<1>0. ArenaTypeOK /\ IsFiniteSet(free) BY DEF ArenaInv
<1>1. s.addr \in Nat /\ s.size \in Nat \ {0} /\ s.req \in Sizes /\ s.req \in Nat \ {0}
  BY <1>0, ArenaAssumption DEF ArenaTypeOK
<1>2. sz \in Nat \ {0} /\ sz \in ClassSizes BY <1>1, AlignUpFacts DEF ClassSizes
<1>3. b \in Block BY <1>1, <1>2 DEF Block
<1>4. /\ call = NoCall /\ freeing' = freeing \ {s} /\ live' = live \ {s}
      /\ classSizes' = (IF KnownClass(sz) \/ ~ClassRegistered(sz)
                        THEN classSizes ELSE Append(classSizes, sz))
      /\ used' = Saturate(used, sz) /\ liveRequested' = Saturate(liveRequested, s.req)
      /\ active' = Saturate(active, 1) /\ freed' = freed + sz
      /\ UNCHANGED <<phase, requests, failures, granted, reused, call>>
  BY DEF FreeLocked
<1>5. \/ /\ CanPush(sz)
         /\ cached' = [cached EXCEPT ![sz] = Append(@, s.addr)]
         /\ nodes' = nodes - 1
         /\ classCached' = classCached + sz
         /\ UNCHANGED <<free, lost>>
      \/ /\ ~CanPush(sz) /\ nodes > 0
         /\ free' = InsertFreeSortedAndCoalesce(b)
         /\ nodes' = (nodes - 1) + NodesJoined(b)
         /\ UNCHANGED <<cached, classCached, lost>>
      \/ /\ ~CanPush(sz) /\ nodes = 0
         /\ lost' = lost \cup {b}
         /\ UNCHANGED <<free, cached, nodes, classCached>>
  BY DEF FreeLocked
<1> HIDE DEF sz, b
<1>6. classSizes' \in Seq(ClassSizes)
  <2>1. classSizes \in Seq(ClassSizes) BY <1>0 DEF ArenaTypeOK
  <2>2. Append(classSizes, sz) \in Seq(ClassSizes) BY <2>1, <1>2, AppendProperties
  <2> QED BY <2>1, <2>2, <1>4
<1>7. /\ used' \in Nat /\ liveRequested' \in Nat /\ active' \in Nat /\ freed' \in Nat
  <2>1. used \in Nat /\ liveRequested \in Nat /\ active \in Nat /\ freed \in Nat
    BY <1>0 DEF ArenaTypeOK
  <2> QED BY <2>1, <1>1, <1>2, <1>4, SaturateFacts, NatSum
<1>8. ASSUME /\ free' \subseteq Block /\ cached' \in [ClassSizes -> Seq(Nat)]
             /\ nodes' \in Nat /\ classCached' \in Nat /\ lost' \subseteq Block
      PROVE  ArenaTypeOK'
  <2>1. /\ freeing' \subseteq [addr : Nat, size : Nat \ {0}, req : Sizes]
        /\ live' \subseteq [addr : Nat, size : Nat \ {0}, req : Sizes]
    BY <1>0, <1>4 DEF ArenaTypeOK
  <2> QED BY <1>0, <1>4, <1>6, <1>7, <1>8, <2>1 DEF ArenaTypeOK, Block
<1>9. free \subseteq Block /\ lost \subseteq Block /\ nodes \in Nat /\ classCached \in Nat
      /\ cached \in [ClassSizes -> Seq(Nat)]
  BY <1>0 DEF ArenaTypeOK, Block
<1>10. SlotsCoverRequests' BY <1>4 DEF ArenaInv, SlotsCoverRequests
<1>11. CASE phase # "up"
  <2>1. phase = "down" /\ nodes = 0 /\ free = {} /\ live = {}
    BY <1>0, <1>11 DEF ArenaInv, ArenaTypeOK, PhaseOK
  <2>2. lost' = lost \cup {b} /\ UNCHANGED <<free, cached, nodes, classCached>>
    BY <1>5, <2>1 DEF CanPush
  <2>3. UNCHANGED <<free, cached, live>> BY <2>1, <2>2, <1>4
  <2>4. ArenaTypeOK' BY <1>3, <1>8, <1>9, <2>2
  <2>5. PhaseOK' BY <1>4, <2>1, <2>2 DEF ArenaInv, PhaseOK
  <2> QED BY <2>3, <2>4, <2>5, ListsUnchanged DEF ArenaInv
<1>12. CASE phase = "up"
  <2>1. s \in live BY <1>12 DEF ArenaInv, PhaseOK
  <2>2. sz <= s.size BY <2>1 DEF ArenaInv, SlotsCoverRequests, sz
  <2>3. Solid(s) /\ Solid(b) /\ s.addr <= b.addr /\ End(b) <= End(s)
    BY <1>1, <1>2, <2>2 DEF Solid, b, End
  <2>4. /\ End(s) <= ArenaSize
        /\ \A t \in live' : Apart(t, s)
        /\ \A f \in free : Apart(f, s)
        /\ \A c \in ClassSizes : \A i \in 1 .. Len(cached[c]) : Apart(CachedBlock(c, i), s)
    BY <1>4, <2>1, ApartSym DEF ArenaInv, NoOverlap, LiveApart, CachedApart
  <2>5. End(b) <= ArenaSize
    BY <1>1, <1>3, <2>3, <2>4, ArenaAssumption DEF End, Block
  <2>6. \A t \in live' : Solid(t) BY <1>0, <1>4 DEF ArenaTypeOK, Solid
  <2>7. \A f \in free : Solid(f) BY <1>9 DEF Block, Solid
  <2>8. \A c \in ClassSizes : \A i \in 1 .. Len(cached[c]) : Solid(CachedBlock(c, i))
    BY <1>0, CachedIsBlock DEF Block, Solid
  <2>9. \A t \in live' : Apart(t, b) BY <2>3, <2>4, <2>6, PartApart
  <2>10. \A f \in free : Apart(f, b) BY <2>3, <2>4, <2>7, PartApart
  <2>11. \A c \in ClassSizes : \A i \in 1 .. Len(cached[c]) : Apart(CachedBlock(c, i), b)
    BY <2>3, <2>4, <2>8, PartApart
  <2>12. /\ \A f \in free : Apart(b, f)
         /\ \A t \in live' : Apart(b, t)
         /\ \A c \in ClassSizes : \A i \in 1 .. Len(cached[c]) : Apart(b, CachedBlock(c, i))
    BY <2>9, <2>10, <2>11, ApartSym
  <2>13. PhaseOK' BY <1>4, <1>12 DEF ArenaInv, PhaseOK
  <2>14. /\ \A t \in live' : /\ End(t) <= ArenaSize
                             /\ \A u \in live' : t # u => Apart(t, u)
                             /\ \A f \in free : Apart(t, f)
    BY <1>4 DEF ArenaInv, NoOverlap, LiveApart
  <2>15. \A c \in ClassSizes : \A i \in 1 .. Len(cached[c]) :
            /\ End(CachedBlock(c, i)) <= ArenaSize
            /\ \A f \in free : Apart(CachedBlock(c, i), f)
            /\ \A t \in live' : Apart(CachedBlock(c, i), t)
            /\ \A d \in ClassSizes : \A j \in 1 .. Len(cached[d]) :
                  <<c, i>> # <<d, j>> => Apart(CachedBlock(c, i), CachedBlock(d, j))
    BY <1>4 DEF ArenaInv, NoOverlap, CachedApart
  <2>16. FreeApart BY DEF ArenaInv, NoOverlap
  <2>17. CASE /\ CanPush(sz)
              /\ cached' = [cached EXCEPT ![sz] = Append(@, s.addr)]
              /\ nodes' = nodes - 1
              /\ classCached' = classCached + sz
              /\ UNCHANGED <<free, lost>>
    <3>1. nodes' \in Nat /\ classCached' \in Nat
      BY <2>17, <1>2, <1>9 DEF CanPush
    <3>2. /\ cached' \in [ClassSizes -> Seq(Nat)]
          /\ \A c \in ClassSizes : \A i \in 1 .. Len(cached'[c]) :
                \/ i \in 1 .. Len(cached[c]) /\ CachedBlock(c, i)' = CachedBlock(c, i)
                \/ c = sz /\ i = Len(cached[sz]) + 1 /\ CachedBlock(c, i)' = b
      BY <2>17, <1>0, <1>1, <1>2, PushCached DEF b
    <3>3. ArenaTypeOK' BY <3>1, <3>2, <1>8, <1>9, <2>17
    <3>4. FreeApart' /\ IsFiniteSet(free)' BY <2>16, <2>17, <1>0 DEF FreeApart
    <3>5. LiveApart' BY <2>14, <2>17 DEF LiveApart
    <3>6. CachedApart'
      <4> SUFFICES ASSUME NEW c \in ClassSizes, NEW i \in 1 .. Len(cached'[c])
                   PROVE  /\ End(CachedBlock(c, i)') <= ArenaSize
                          /\ \A f \in free' : Apart(CachedBlock(c, i)', f)
                          /\ \A t \in live' : Apart(CachedBlock(c, i)', t)
                          /\ \A d \in ClassSizes : \A j \in 1 .. Len(cached'[d]) :
                                <<c, i>> # <<d, j>> =>
                                    Apart(CachedBlock(c, i)', CachedBlock(d, j)')
        BY DEF CachedApart
      <4>1. CASE i \in 1 .. Len(cached[c]) /\ CachedBlock(c, i)' = CachedBlock(c, i)
        BY <4>1, <2>11, <2>15, <2>17, <3>2
      <4>2. CASE c = sz /\ i = Len(cached[sz]) + 1 /\ CachedBlock(c, i)' = b
        <5>1. \A d \in ClassSizes : \A j \in 1 .. Len(cached'[d]) :
                 <<c, i>> # <<d, j>> => Apart(CachedBlock(c, i)', CachedBlock(d, j)')
          BY <4>2, <2>12, <3>2
        <5> QED BY <4>2, <5>1, <2>5, <2>12, <2>17
      <4> QED BY <3>2, <4>1, <4>2
    <3> QED BY <3>3, <3>4, <3>5, <3>6, <1>10, <2>13 DEF ArenaInv, NoOverlap
  <2>18. CASE /\ ~CanPush(sz) /\ nodes > 0
              /\ free' = InsertFreeSortedAndCoalesce(b)
              /\ nodes' = (nodes - 1) + NodesJoined(b)
              /\ UNCHANGED <<cached, classCached, lost>>
    <3>1. /\ free' \subseteq Block /\ IsFiniteSet(free') /\ NodesJoined(b) \in Nat
          /\ \A g \in free' : /\ End(g) <= ArenaSize
                              /\ \A h \in free' : g # h => Apart(g, h)
          /\ \A x : /\ Solid(x) /\ Apart(x, b)
                    /\ \A f \in free : Apart(x, f)
                    => \A g \in free' : Apart(x, g)
      BY <2>18, <1>0, <1>3, <1>9, <2>5, <2>12, <2>16, InsertFacts
    <3>2. nodes' \in Nat BY <3>1, <2>18, <1>9
    <3>3. ArenaTypeOK' BY <3>1, <3>2, <1>8, <1>9, <2>18
    <3>4. FreeApart' BY <3>1 DEF FreeApart
    <3>5. LiveApart' BY <3>1, <2>6, <2>9, <2>14 DEF LiveApart
    <3>6. CachedApart'
      <4>1. \A c \in ClassSizes : \A i \in 1 .. Len(cached[c]) :
               \A g \in free' : Apart(CachedBlock(c, i), g)
        BY <3>1, <2>8, <2>11, <2>15
      <4> QED BY <4>1, <2>15, <2>18 DEF CachedApart, CachedBlock
    <3> QED BY <3>1, <3>3, <3>4, <3>5, <3>6, <1>10, <2>13 DEF ArenaInv, NoOverlap
  <2>19. CASE /\ ~CanPush(sz) /\ nodes = 0
              /\ lost' = lost \cup {b}
              /\ UNCHANGED <<free, cached, nodes, classCached>>
    <3>1. ArenaTypeOK' BY <2>19, <1>3, <1>8, <1>9
    <3>2. FreeApart' /\ IsFiniteSet(free)' BY <2>16, <2>19, <1>0 DEF FreeApart
    <3>3. LiveApart' BY <2>14, <2>19 DEF LiveApart
    <3>4. CachedApart' BY <2>15, <2>19 DEF CachedApart, CachedBlock
    <3> QED BY <3>1, <3>2, <3>3, <3>4, <1>10, <2>13 DEF ArenaInv, NoOverlap
  <2> QED BY <1>5, <2>17, <2>18, <2>19
<1> QED BY <1>11, <1>12

-----------------------------------------------------------------------------
(* The theorems *)

\* The initial state satisfies ArenaInv.
LEMMA ArenaInitInv == ArenaInit => ArenaInv
<1> SUFFICES ASSUME ArenaInit PROVE ArenaInv OBVIOUS
<1>1. ArenaTypeOK
  <2>1. <<>> \in Seq(ClassSizes) /\ <<>> \in Seq(Nat) BY EmptySeq
  <2> QED BY <2>1 DEF ArenaInit, ArenaTypeOK
<1>2. IsFiniteSet(free) BY FS_EmptySet DEF ArenaInit
<1>3. FreeApart /\ LiveApart /\ SlotsCoverRequests
  BY DEF ArenaInit, FreeApart, LiveApart, SlotsCoverRequests
<1>4. CachedApart
  <2>1. \A c \in ClassSizes : 1 .. Len(cached[c]) = {} BY DEF ArenaInit
  <2> QED BY <2>1 DEF CachedApart
<1>5. PhaseOK BY DEF ArenaInit, PhaseOK
<1> QED BY <1>1, <1>2, <1>3, <1>4, <1>5 DEF ArenaInv, NoOverlap

\* Every step of ProxyAllocator keeps ArenaInv.
LEMMA ArenaStepInv == ArenaInv /\ [ArenaNext]_arenaVars => ArenaInv'
<1> SUFFICES ASSUME ArenaInv, [ArenaNext]_arenaVars PROVE ArenaInv' OBVIOUS
<1>1. CASE UNCHANGED arenaVars
  <2>1. /\ UNCHANGED <<free, classSizes, cached, nodes>>
        /\ UNCHANGED <<used, liveRequested, classCached, active,
                       requests, failures, granted, freed, reused>>
        /\ UNCHANGED <<phase, call, freeing, live, lost>>
    BY <1>1 DEF arenaVars, arenaLists, arenaCounters
  <2>2. ArenaTypeOK' BY <2>1 DEF ArenaInv, ArenaTypeOK
  <2>3. PhaseOK' BY <2>1 DEF ArenaInv, PhaseOK
  <2> QED BY <2>1, <2>2, <2>3, ListsUnchanged DEF ArenaInv
<1>2. CASE ArenaNext
  <2>1. CASE Initialize \/ InitializeFails \/ Shutdown
    BY <2>1, InitializeInv, InitializeFailsInv, ShutdownInv
  <2>2. CASE AllocateReuse \/ AllocateCarve \/ ReclaimCacheBlock
    BY <2>2, AllocateReuseInv, AllocateCarveInv, ReclaimCacheBlockInv
  <2>3. CASE \E s \in freeing : FreeLocked(s) BY <2>3, FreeLockedInv
  <2>4. CASE \/ AllocateWithoutArena \/ AllocateReclaim \/ AllocateFail
             \/ \E size \in Sizes : \E top \in Directions(size) : AllocateEnter(size, top)
             \/ \E s \in live : FreeEnter(s)
    BY <2>4, CountingInv
  <2> QED BY <1>2, <2>1, <2>2, <2>3, <2>4 DEF ArenaNext
<1> QED BY <1>1, <1>2

\* ArenaInv holds in every reachable state of ProxyAllocator.
THEOREM ArenaInvariance == ArenaSpec => []ArenaInv
  BY ArenaInitInv, ArenaStepInv, PTL DEF ArenaSpec

\* ProxyAllocator's lists and counters keep their types; in particular no
\* unsigned counter is ever driven below zero, by a Free after Shutdown too.
THEOREM ArenaTypeCorrect == ArenaSpec => []ArenaTypeOK
<1>1. ArenaInv => ArenaTypeOK BY DEF ArenaInv
<1> QED BY <1>1, ArenaInvariance, PTL

\* No byte of the arena has two owners, for every arena size, granularity,
\* mix of request sizes and limits of the caches and of the node pool.
THEOREM NoOverlapAlways == ArenaSpec => []NoOverlap
<1>1. ArenaInv => NoOverlap BY DEF ArenaInv
<1> QED BY <1>1, ArenaInvariance, PTL

-----------------------------------------------------------------------------
(* ProxyArena implements ArenaContract *)

\* The held slots as the contract sees them.
Held == {[addr |-> s.addr, size |-> s.size] : s \in live}

\* A grant of Allocate is a grant of the contract.
LEMMA GrantRefines ==
    ASSUME ArenaInv, phase = "up", NEW slot \in Block, End(slot) <= ArenaSize,
           GrantSlot(slot), \A s \in live : Apart(slot, s)
    PROVE  Contract!Grant
<1>1. live' = live \cup {[addr |-> slot.addr, size |-> slot.size, req |-> call.size]}
      /\ phase' = phase
  BY DEF GrantSlot
<1>2. Held' = Held \cup {slot}
  <2> DEFINE new == [addr |-> slot.addr, size |-> slot.size, req |-> call.size]
  <2>1. slot = [addr |-> slot.addr, size |-> slot.size] BY DEF Block
  <2>2. [addr |-> new.addr, size |-> new.size] = slot BY <2>1
  <2>3. live' = live \cup {new} BY <1>1
  <2> HIDE DEF new
  <2> QED BY <2>2, <2>3 DEF Held
<1>3. \A h \in Held : Contract!Apart(slot, h)
  BY DEF Held, Contract!Apart, Apart, End
<1>4. /\ slot.addr \in 0 .. ArenaSize /\ slot.size \in 1 .. ArenaSize
      /\ slot = [addr |-> slot.addr, size |-> slot.size] /\ Contract!Inside(slot)
  BY ArenaAssumption DEF Block, End, Contract!Inside
<1> QED BY <1>1, <1>2, <1>3, <1>4 DEF Contract!Grant, Held

\* Removing a slot that is apart from all others removes one slot of the
\* contract.
LEMMA ReturnRefines ==
    ASSUME ArenaInv, phase = "up", NEW s \in live, live' = live \ {s}, phase' = phase
    PROVE  Contract!Return
<1> DEFINE v == [addr |-> s.addr, size |-> s.size]
<1>1. \A t \in live : t # s => [addr |-> t.addr, size |-> t.size] # v
  <2>1. \A t \in live : t.addr \in Nat /\ t.size \in Nat \ {0}
    BY DEF ArenaInv, ArenaTypeOK
  <2>2. \A t \in live : t # s => Apart(t, s) BY DEF ArenaInv, NoOverlap, LiveApart
  <2> QED BY <2>1, <2>2 DEF Apart, End
<1>2. v \in Held BY DEF Held
<1>3. Held' = Held \ {v} BY <1>1 DEF Held
<1> QED BY <1>2, <1>3 DEF Contract!Return, Held

\* Every step of ProxyAllocator is a step of the contract or invisible to it.
LEMMA StepRefines ==
    ArenaInv /\ [ArenaNext]_arenaVars => [Contract!ContractNext]_Contract!contractVars
<1> SUFFICES ASSUME ArenaInv, [ArenaNext]_arenaVars
             PROVE  Contract!ContractNext \/ UNCHANGED <<phase, Held>>
  BY DEF Contract!contractVars, Held
<1> USE DEF Contract!ContractNext
<1>1. ASSUME UNCHANGED <<phase, live>> PROVE UNCHANGED <<phase, Held>>
  BY <1>1 DEF Held
<1>2. CASE UNCHANGED arenaVars BY <1>1, <1>2 DEF arenaVars
<1>3. CASE InitializeFails \/ AllocateWithoutArena \/ AllocateReclaim \/ AllocateFail
  BY <1>1, <1>3 DEF InitializeFails, AllocateWithoutArena, AllocateReclaim, AllocateFail
<1>4. CASE ReclaimCacheBlock BY <1>1, <1>4 DEF ReclaimCacheBlock
<1>5. CASE \E size \in Sizes : \E top \in Directions(size) : AllocateEnter(size, top)
  BY <1>1, <1>5 DEF AllocateEnter
<1>6. CASE \E s \in live : FreeEnter(s) BY <1>1, <1>6 DEF FreeEnter
<1>7. CASE Initialize
  <2>1. phase = "new" /\ phase' = "up" /\ live' = live BY <1>7 DEF Initialize
  <2> QED BY <2>1 DEF Contract!Open, Held
<1>8. CASE Shutdown
  <2>1. phase # "down" /\ phase' = "down" /\ live' = {} BY <1>8 DEF Shutdown
  <2> QED BY <2>1 DEF Contract!Close, Held
<1>9. CASE AllocateReuse
  <2> DEFINE slot == [addr |-> Top(cached[need]), size |-> need]
  <2>1. /\ call.stage \in {"search", "drain"} /\ cached[need] # <<>>
        /\ cached' = [cached EXCEPT ![need] = Pop(@)] /\ GrantSlot(slot)
    BY <1>9 DEF AllocateReuse
  <2>2. need \in ClassSizes /\ phase = "up" BY <2>1, CallFacts
  <2>3. ArenaTypeOK BY DEF ArenaInv
  <2>4. /\ Len(cached[need]) \in 1 .. Len(cached[need])
        /\ CachedBlock(need, Len(cached[need])) = slot
    BY <2>1, <2>2, <2>3, PopCached
  <2>5. slot \in Block BY <2>2, <2>3, <2>4, CachedIsBlock
  <2>6. End(slot) <= ArenaSize /\ \A s \in live : Apart(slot, s)
    BY <2>2, <2>4 DEF ArenaInv, NoOverlap, CachedApart
  <2> HIDE DEF slot
  <2> QED BY <2>1, <2>2, <2>5, <2>6, GrantRefines
<1>10. CASE AllocateCarve
  <2>1. call.stage \in {"search", "drain"} BY <1>10 DEF AllocateCarve, Searching
  <2>2. need \in Nat \ {0} /\ call.top \in BOOLEAN /\ phase = "up" BY <2>1, CallFacts
  <2>3. PICK f \in Fitting(need) : GrantSlot(TakenSlot(f, need, call.top))
    BY <1>10 DEF AllocateCarve
  <2> DEFINE slot == TakenSlot(f, need, call.top)
  <2>4. free \subseteq Block /\ IsFiniteSet(free) /\ FreeApart
    BY DEF ArenaInv, ArenaTypeOK, NoOverlap, Block
  <2>5. /\ slot \in Block /\ End(slot) <= ArenaSize
        /\ \A x : Solid(x) /\ (\A g \in free : Apart(x, g)) => Apart(x, slot)
    BY <2>2, <2>3, <2>4, TakeFacts
  <2> HIDE DEF slot
  <2>6. \A s \in live : Solid(s) /\ \A g \in free : Apart(s, g)
    BY DEF ArenaInv, ArenaTypeOK, NoOverlap, LiveApart, Solid
  <2>7. \A s \in live : Apart(slot, s) BY <2>5, <2>6, ApartSym
  <2>8. GrantSlot(slot) BY <2>3 DEF slot
  <2> QED BY <2>2, <2>5, <2>7, <2>8, GrantRefines
<1>11. ASSUME NEW s \in freeing, FreeLocked(s)
       PROVE  Contract!ContractNext \/ UNCHANGED <<phase, Held>>
  <2>1. live' = live \ {s} /\ phase' = phase BY <1>11 DEF FreeLocked
  <2>2. CASE phase = "up"
    <3>1. s \in live BY <2>2 DEF ArenaInv, PhaseOK
    <3> QED BY <2>1, <2>2, <3>1, ReturnRefines
  <2>3. CASE phase # "up"
    <3>1. live = {} BY <2>3 DEF ArenaInv, PhaseOK
    <3> QED BY <1>1, <2>1, <3>1
  <2> QED BY <2>2, <2>3
<1> QED
  BY <1>2, <1>3, <1>4, <1>5, <1>6, <1>7, <1>8, <1>9, <1>10, <1>11 DEF ArenaNext

\* ProxyAllocator implements the arena contract the hooks rely on: every grant
\* is inside the arena and apart from every slot that is out.
THEOREM ArenaRefinement == ArenaSpec => ImplementsContract
<1>1. ArenaInit => Contract!ContractInit BY DEF ArenaInit, Contract!ContractInit
<1> QED
  BY <1>1, StepRefines, ArenaInvariance, PTL
  DEF ArenaSpec, ImplementsContract, Contract!ContractSpec

-----------------------------------------------------------------------------
(* After Shutdown *)

\* Without an arena the counters of what is out are zero.
NothingOut == phase # "up" => used = 0 /\ active = 0

\* No step brings the counters of a closed arena back.
LEMMA NothingOutStep ==
    ASSUME ArenaInv, NothingOut, [ArenaNext]_arenaVars PROVE NothingOut'
<1> USE DEF NothingOut
<1>1. CASE phase = "up"
  <2>1. phase' = "up" \/ Shutdown
    BY <1>1 DEF ArenaNext, arenaVars, Initialize, InitializeFails, AllocateWithoutArena,
       AllocateEnter, AllocateReuse, AllocateCarve, AllocateReclaim, ReclaimCacheBlock,
       AllocateFail, FreeEnter, FreeLocked, GrantSlot
  <2> QED BY <2>1 DEF Shutdown
<1>2. CASE phase # "up"
  <2>1. call = NoCall /\ used = 0 /\ active = 0 BY <1>2 DEF ArenaInv, PhaseOK
  <2>2. call.stage = "idle" BY <2>1 DEF NoCall
  <2>3. ASSUME NEW s \in freeing, FreeLocked(s) PROVE used' = 0 /\ active' = 0
    <3>1. s.req \in Nat \ {0} BY ArenaAssumption DEF ArenaInv, ArenaTypeOK
    <3>2. AlignUp(s.req) \in Nat \ {0} BY <3>1, AlignUpFacts
    <3> QED BY <2>1, <2>3, <3>2 DEF FreeLocked, Saturate
  <2>4. CASE \/ Initialize \/ InitializeFails \/ Shutdown \/ AllocateWithoutArena
             \/ (\E s \in live : FreeEnter(s)) \/ UNCHANGED arenaVars
    BY <2>1, <2>4 DEF Initialize, InitializeFails, Shutdown, AllocateWithoutArena, FreeEnter,
                arenaVars, arenaCounters
  <2>5. ~ \E size \in Sizes : \E top \in Directions(size) : AllocateEnter(size, top)
    BY <1>2 DEF AllocateEnter
  <2>6. ~ (AllocateReuse \/ AllocateCarve \/ AllocateReclaim \/ ReclaimCacheBlock \/ AllocateFail)
    BY <2>2 DEF AllocateReuse, AllocateCarve, AllocateReclaim, ReclaimCacheBlock, AllocateFail,
                Searching
  <2> QED BY <2>3, <2>4, <2>5, <2>6 DEF ArenaNext
<1> QED BY <1>1, <1>2

\* A late Free has no node to list its block with.
LEMMA ShutdownStep ==
    ASSUME ArenaInv, NothingOut, [ArenaNext]_arenaVars, phase = "down"
    PROVE  /\ phase' = "down" /\ free' = {} /\ live' = {} /\ cached' = cached
           /\ used' = 0 /\ active' = 0
<1>1. call = NoCall /\ nodes = 0 /\ free = {} /\ live = {} BY DEF ArenaInv, PhaseOK
<1>2. call.stage = "idle" BY <1>1 DEF NoCall
<1>3. ~ (AllocateReuse \/ AllocateCarve \/ AllocateReclaim \/ ReclaimCacheBlock \/ AllocateFail)
  BY <1>2 DEF AllocateReuse, AllocateCarve, AllocateReclaim, ReclaimCacheBlock, AllocateFail,
              Searching
<1>4. /\ ~ (Initialize \/ InitializeFails \/ Shutdown)
      /\ ~ \E size \in Sizes : \E top \in Directions(size) : AllocateEnter(size, top)
  BY DEF Initialize, InitializeFails, Shutdown, AllocateEnter
<1>5. ASSUME NEW s \in freeing, FreeLocked(s)
      PROVE  UNCHANGED <<phase, free, cached>> /\ live' = live \ {s}
  <2>1. ~ CanPush(AlignUp(s.req)) /\ ~ (nodes > 0) BY <1>1 DEF CanPush
  <2> QED BY <1>5, <2>1 DEF FreeLocked
<1>6. ASSUME AllocateWithoutArena \/ (\E s \in live : FreeEnter(s)) \/ UNCHANGED arenaVars
      PROVE  UNCHANGED <<phase, free, live, cached>>
  BY <1>6 DEF AllocateWithoutArena, FreeEnter, arenaVars, arenaLists
<1>7. /\ phase' = "down" /\ free' = {} /\ live' = {} /\ cached' = cached
  BY <1>1, <1>3, <1>4, <1>5, <1>6 DEF ArenaNext
<1> QED BY <1>7, NothingOutStep DEF NothingOut

\* NothingOut holds in every reachable state.
LEMMA NothingOutInvariance == ArenaSpec => []NothingOut
<1>1. ArenaInit => NothingOut BY DEF ArenaInit, NothingOut
<1>2. ArenaInv /\ NothingOut /\ [ArenaNext]_arenaVars => NothingOut' BY NothingOutStep
<1> QED BY <1>1, <1>2, ArenaInvariance, PTL DEF ArenaSpec

\* After Shutdown nothing comes back and nothing is handed out.
THEOREM ShutdownIsFinalAlways == ArenaSpec => ShutdownIsFinal
<1>1. ArenaInv /\ NothingOut /\ [ArenaNext]_arenaVars
        => [phase = "down" => /\ phase' = "down"
                              /\ free' = {} /\ live' = {} /\ cached' = cached
                              /\ used' = 0 /\ active' = 0]_arenaVars
  BY ShutdownStep
<1> QED BY <1>1, ArenaInvariance, NothingOutInvariance, PTL DEF ArenaSpec, ShutdownIsFinal

-----------------------------------------------------------------------------
(* Multiples of the granularity *)

Even(n) == n % Granularity = 0

\* A multiple has a factor, and what has one is a multiple.
LEMMA EvenFactor ==
    ASSUME NEW n \in Nat
    PROVE  Even(n) <=> \E k \in Nat : n = k * Granularity
<1>1. Granularity \in Nat \ {0} BY ArenaAssumption
<1> PICK g \in Nat \ {0} : g = Granularity BY <1>1
<1> DEFINE q == n \div g
<1>2. q \in Nat /\ n % g \in 0 .. g - 1 /\ n = q * g + (n % g) OBVIOUS
<1> HIDE DEF q
<1>3. ASSUME n % g = 0 PROVE \E k \in Nat : n = k * g
  <2>1. q * g \in Nat BY <1>2
  <2>2. n = q * g BY <1>2, <1>3, <2>1
  <2> QED BY <1>2, <2>2
<1>4. ASSUME NEW k \in Nat, n = k * g PROVE n % g = 0
  <2>1. PICK r \in 0 .. g - 1 : r = n % g BY <1>2
  <2>2. k * g = q * g + r BY <1>2, <1>4, <2>1
  <2>3. (k - q) * g = r
    <3>1. (k - q) * g = k * g - q * g BY <1>2
    <3>2. k * g \in Nat /\ q * g \in Nat BY <1>2
    <3> QED BY <2>1, <2>2, <3>1, <3>2
  <2>4. k - q >= 1 => (k - q) * g >= g BY <1>2
  <2>5. k - q <= 0 - 1 => (k - q) * g <= 0 - g BY <1>2
  <2>6. k - q \in Int BY <1>2
  <2>7. k = q BY <1>2, <2>1, <2>3, <2>4, <2>5, <2>6
  <2> QED BY <2>1, <2>2, <2>7, <1>2
<1> QED BY <1>3, <1>4 DEF Even

\* Sums and differences of multiples, and how far two of them are apart.
LEMMA EvenSum ==
    ASSUME NEW m \in Nat, NEW n \in Nat, Even(m), Even(n)
    PROVE  /\ Even(m + n)
           /\ m >= n => Even(m - n)
           /\ m > n => m - n >= Granularity
<1>1. Granularity \in Nat \ {0} BY ArenaAssumption
<1> PICK g \in Nat \ {0} : g = Granularity BY <1>1
<1>2. PICK j \in Nat : m = j * g BY EvenFactor
<1>3. PICK k \in Nat : n = k * g BY EvenFactor
<1>4. m + n = (j + k) * g /\ m - n = (j - k) * g BY <1>2, <1>3
<1>5. Even(m + n)
  <2>1. m + n \in Nat /\ j + k \in Nat OBVIOUS
  <2> QED BY <1>4, <2>1, EvenFactor
<1>6. j < k => j * g <= k * g - g
  <2>1. j < k => (k - j - 1) \in Nat OBVIOUS
  <2>2. \A d \in Nat : d * g >= 0 OBVIOUS
  <2>3. (k - j - 1) * g = k * g - j * g - g OBVIOUS
  <2> QED BY <2>1, <2>2, <2>3
<1>7. j > k => j * g >= k * g + g
  <2>1. j > k => (j - k - 1) \in Nat OBVIOUS
  <2>2. \A d \in Nat : d * g >= 0 OBVIOUS
  <2>3. (j - k - 1) * g = j * g - k * g - g OBVIOUS
  <2> QED BY <2>1, <2>2, <2>3
<1>8. m >= n => j - k \in Nat BY <1>2, <1>3, <1>6
<1>9. m >= n => Even(m - n)
  <2> SUFFICES ASSUME m >= n PROVE Even(m - n) OBVIOUS
  <2>1. m - n \in Nat /\ j - k \in Nat BY <1>8
  <2> QED BY <1>4, <2>1, EvenFactor
<1>10. m > n => m - n >= Granularity
  <2>1. m > n => j > k
    <3>1. j = k => m = n BY <1>2, <1>3
    <3> QED BY <3>1, <1>8
  <2> QED BY <1>2, <1>3, <1>7, <2>1
<1> QED BY <1>5, <1>9, <1>10

\* Slot sizes are multiples.
LEMMA EvenSlot ==
    ASSUME NEW v \in Nat \ {0} PROVE Even(AlignUp(v))
<1>1. Granularity \in Nat \ {0} BY ArenaAssumption
<1> PICK g \in Nat \ {0} : g = Granularity BY <1>1
<1> DEFINE x == v + (g - 1)
           q == x \div g
<1>2. x \in Nat OBVIOUS
<1> HIDE DEF x
<1>3. q \in Nat /\ x = q * g + (x % g) /\ x % g \in 0 .. g - 1 BY <1>2
<1> HIDE DEF q
<1>4. x - (x % g) = q * g BY <1>2, <1>3
<1>5. AlignUp(v) = q * g BY <1>4 DEF AlignUp, x
<1>6. AlignUp(v) \in Nat BY AlignUpFacts
<1> QED BY <1>3, <1>5, <1>6, EvenFactor

-----------------------------------------------------------------------------
(* The shape of the free list *)

Coalesced(list) == \A f, g \in list : End(f) # g.addr

\* A carve touches no other block, and takes exactly what was asked for.
LEMMA TakeShape ==
    ASSUME free \subseteq Block, FreeApart, Coalesced(free), \A f \in free : Even(f.size),
           NEW n \in Nat \ {0}, Even(n), NEW f \in Fitting(n), NEW top \in BOOLEAN
    PROVE  LET left == FreeAfterTake(f, n, top)
           IN  /\ Coalesced(left) /\ \A g \in left : Even(g.size)
               /\ TakenSlot(f, n, top).size = n
<1> DEFINE rest == Remainder(f, n, top)
           left == FreeAfterTake(f, n, top)
<1>1. f \in free /\ f \in Block /\ f.size >= n /\ Even(f.size) BY DEF Fitting
<1>2. f.addr \in Nat /\ f.size \in Nat /\ End(f) = f.addr + f.size BY <1>1 DEF Block, End
<1>3. TakenSlot(f, n, top).size = n
  <2>1. TakesWhole(f, n) => f.size = n
    <3>1. f.size > n => f.size - n >= Granularity BY <1>1, <1>2, EvenSum
    <3> QED BY <1>1, <1>2, <3>1, ArenaAssumption DEF TakesWhole
  <2> QED BY <2>1 DEF TakenSlot
<1>4. ASSUME ~ TakesWhole(f, n)
      PROVE  /\ rest.size = f.size - n /\ rest.size \in Nat \ {0} /\ Even(rest.size)
             /\ \/ rest.addr = f.addr /\ End(rest) = End(f) - n
                \/ rest.addr = f.addr + n /\ End(rest) = End(f)
  <2>1. rest.size = f.size - n BY DEF Remainder
  <2>2. f.size - n \in Nat \ {0} BY <1>1, <1>2, <1>4, ArenaAssumption DEF TakesWhole
  <2>3. Even(rest.size) BY <1>1, <1>2, <2>1, EvenSum
  <2>4. top => rest.addr = f.addr /\ End(rest) = End(f) - n
    BY <1>1, <1>2 DEF Remainder, End
  <2>5. ~top => rest.addr = f.addr + n /\ End(rest) = End(f)
    BY <1>1, <1>2 DEF Remainder, End
  <2> QED BY <2>1, <2>2, <2>3, <2>4, <2>5
<1>5. left = (free \ {f}) \cup (IF TakesWhole(f, n) THEN {} ELSE {rest}) BY DEF FreeAfterTake
<1> HIDE DEF rest, left
<1>6. ASSUME ~ TakesWhole(f, n), NEW g \in free \ {f}
      PROVE  End(g) # rest.addr /\ End(rest) # g.addr
  <2>1. g.addr \in Nat /\ End(g) \in Nat /\ g.addr < End(g) BY DEF Block, End
  <2>2. End(g) <= f.addr \/ End(f) <= g.addr BY <1>1 DEF FreeApart, Apart
  <2>3. End(g) # f.addr /\ End(f) # g.addr BY <1>1 DEF Coalesced
  <2>4. PICK ra, re : ra = rest.addr /\ re = End(rest) OBVIOUS
  <2>5. \/ ra = f.addr /\ re = End(f) - n
        \/ ra = f.addr + n /\ re = End(f)
    BY <1>4, <1>6, <2>4
  <2>6. PICK a \in Nat, e \in Nat, c \in Nat, d \in Nat :
            a = f.addr /\ e = End(f) /\ c = g.addr /\ d = End(g)
    BY <1>2, <2>1
  <2>7. /\ c < d /\ (d <= a \/ e <= c) /\ d # a /\ e # c /\ a + n <= e
        /\ \/ ra = a /\ re = e - n
           \/ ra = a + n /\ re = e
    BY <1>1, <1>2, <2>1, <2>2, <2>3, <2>5, <2>6
  <2>8. d # ra /\ re # c BY <2>7
  <2> QED BY <2>4, <2>6, <2>8
<1>7. ~ TakesWhole(f, n) => End(rest) # rest.addr
  BY <1>2, <1>4 DEF End
<1>8. Coalesced(left) BY <1>5, <1>6, <1>7 DEF Coalesced
<1>9. \A g \in left : Even(g.size) BY <1>4, <1>5
<1> QED BY <1>3, <1>8, <1>9 DEF left

\* An insertion leaves no two touching blocks.
LEMMA InsertShape ==
    ASSUME free \subseteq Block, FreeApart, Coalesced(free), \A f \in free : Even(f.size),
           NEW b \in Block, Even(b.size), \A f \in free : Apart(b, f)
    PROVE  LET list == InsertFreeSortedAndCoalesce(b)
           IN  Coalesced(list) /\ \A g \in list : Even(g.size)
<1> DEFINE lo == IF LeftOf(b) = {} THEN b.addr ELSE (CHOOSE l \in LeftOf(b) : TRUE).addr
           hi == IF RightOf(b) = {} THEN End(b) ELSE End(CHOOSE r \in RightOf(b) : TRUE)
           j == [addr |-> lo, size |-> hi - lo]
           rest == free \ (LeftOf(b) \cup RightOf(b))
           list == InsertFreeSortedAndCoalesce(b)
<1>1. /\ lo \in Nat /\ hi \in Nat /\ lo <= b.addr /\ End(b) <= hi
      /\ lo = b.addr \/ \E l \in LeftOf(b) : l.addr = lo
      /\ hi = End(b) \/ \E r \in RightOf(b) : End(r) = hi
  BY JoinedSpan
<1>2. list = rest \cup {j} BY DEF InsertFreeSortedAndCoalesce
<1> HIDE DEF lo, hi, list
<1>3. LeftOf(b) \subseteq free /\ RightOf(b) \subseteq free BY DEF LeftOf, RightOf
<1>4. b.addr \in Nat /\ b.size \in Nat \ {0} /\ End(b) = b.addr + b.size BY DEF Block, End
<1>5. j.addr = lo /\ j.size = hi - lo /\ End(j) = hi /\ lo < hi BY <1>1, <1>4 DEF End
<1>6. \A g \in rest : End(g) # lo /\ hi # g.addr
  <2> TAKE g \in rest
  <2>1. End(g) # lo
    <3>1. CASE lo = b.addr BY <3>1 DEF LeftOf
    <3>2. CASE \E l \in LeftOf(b) : l.addr = lo BY <3>2, <1>3 DEF Coalesced
    <3> QED BY <1>1, <3>1, <3>2
  <2>2. hi # g.addr
    <3>1. CASE hi = End(b) BY <3>1 DEF RightOf
    <3>2. CASE \E r \in RightOf(b) : End(r) = hi BY <3>2, <1>3 DEF Coalesced
    <3> QED BY <1>1, <3>1, <3>2
  <2> QED BY <2>1, <2>2
<1>7. Coalesced(list)
  <2>1. \A g, h \in rest : End(g) # h.addr BY DEF Coalesced
  <2>2. End(j) # j.addr BY <1>1, <1>5
  <2>3. \A g \in rest : End(g) # j.addr /\ End(j) # g.addr BY <1>5, <1>6
  <2> QED BY <1>2, <2>1, <2>2, <2>3 DEF Coalesced
<1>8. Even(hi - lo)
  <2>1. PICK u \in Nat : u = b.addr - lo BY <1>1, <1>4
  <2>2. PICK v \in Nat : v = hi - End(b) BY <1>1, <1>4
  <2>3. Even(0) /\ 0 \in Nat
    <3>1. 0 = 0 * Granularity BY ArenaAssumption
    <3> QED BY <3>1, EvenFactor
  <2>4. Even(u)
    <3>1. CASE lo = b.addr BY <2>1, <2>3, <3>1, <1>1
    <3>2. ASSUME NEW l \in LeftOf(b), l.addr = lo PROVE Even(u)
      <4>1. l \in Block /\ End(l) = b.addr /\ Even(l.size) BY <1>3 DEF LeftOf
      <4>2. u = l.size BY <2>1, <3>2, <4>1, <1>1, <1>4 DEF End, Block
      <4> QED BY <4>1, <4>2
    <3> QED BY <1>1, <3>1, <3>2
  <2>5. Even(v)
    <3>1. CASE hi = End(b) BY <2>2, <2>3, <3>1, <1>1
    <3>2. ASSUME NEW r \in RightOf(b), End(r) = hi PROVE Even(v)
      <4>1. r \in Block /\ r.addr = End(b) /\ Even(r.size) BY <1>3 DEF RightOf
      <4>2. v = r.size BY <2>2, <3>2, <4>1, <1>1, <1>4 DEF End, Block
      <4> QED BY <4>1, <4>2
    <3> QED BY <1>1, <3>1, <3>2
  <2>6. Even(u + b.size) /\ u + b.size \in Nat BY <2>4, <1>4, EvenSum
  <2>7. Even((u + b.size) + v) BY <2>5, <2>6, EvenSum
  <2>8. hi - lo = (u + b.size) + v BY <1>1, <1>4, <2>1, <2>2
  <2> QED BY <2>7, <2>8
<1>9. \A g \in list : Even(g.size) BY <1>2, <1>5, <1>8
<1> QED BY <1>7, <1>9 DEF list

-----------------------------------------------------------------------------
(* The list stays coalesced *)

\* No two blocks of the list touch, every block is a multiple of the
\* granularity, and a held slot is exactly as large as its request rounds to.
ShapeInv ==
    /\ FreeListCoalesced
    /\ \A f \in free : Even(f.size)
    /\ \A s \in live : s.size = AlignUp(s.req)

\* The block on top of a cache is apart from everything else.
LEMMA TopBlock ==
    ASSUME ArenaInv, NEW c \in ClassSizes, cached[c] # <<>>
    PROVE  LET b == [addr |-> Top(cached[c]), size |-> c]
           IN  /\ b \in Block /\ Even(b.size) /\ End(b) <= ArenaSize
               /\ b = CachedBlock(c, Len(cached[c]))
               /\ Len(cached[c]) \in 1 .. Len(cached[c])
               /\ \A f \in free : Apart(b, f)
<1> DEFINE b == [addr |-> Top(cached[c]), size |-> c]
<1>1. cached[c] \in Seq(Nat) /\ ArenaTypeOK BY DEF ArenaInv, ArenaTypeOK
<1>2. Len(cached[c]) \in 1 .. Len(cached[c]) BY <1>1, PopFacts
<1>3. b = CachedBlock(c, Len(cached[c])) BY DEF CachedBlock, Top
<1>4. b \in Block BY <1>1, <1>2, <1>3, CachedIsBlock
<1>5. End(b) <= ArenaSize /\ \A f \in free : Apart(b, f)
  BY <1>2, <1>3 DEF ArenaInv, NoOverlap, CachedApart
<1>6. Even(b.size)
  <2>1. PICK r \in Sizes : c = AlignUp(r) BY DEF ClassSizes
  <2>2. r \in Nat \ {0} BY ArenaAssumption
  <2> QED BY <2>1, <2>2, EvenSlot
<1> QED BY <1>2, <1>3, <1>4, <1>5, <1>6

\* The block a Free hands back is the slot it names.
LEMMA FreedBlock ==
    ASSUME ArenaInv, ShapeInv, phase = "up", NEW s \in freeing
    PROVE  LET b == [addr |-> s.addr, size |-> AlignUp(s.req)]
           IN  /\ s \in live /\ s.size = AlignUp(s.req)
               /\ AlignUp(s.req) \in ClassSizes /\ AlignUp(s.req) \in Nat \ {0}
               /\ b \in Block /\ Even(b.size)
               /\ End(b) = End(s) /\ End(b) <= ArenaSize
               /\ \A f \in free : Apart(b, f)
               /\ \A c \in ClassSizes : \A i \in 1 .. Len(cached[c]) : Apart(CachedBlock(c, i), b)
<1> DEFINE b == [addr |-> s.addr, size |-> AlignUp(s.req)]
<1>1. s \in live /\ s.size = AlignUp(s.req) BY DEF ArenaInv, PhaseOK, ShapeInv
<1>2. s.addr \in Nat /\ s.req \in Sizes /\ s.req \in Nat \ {0}
  BY ArenaAssumption DEF ArenaInv, ArenaTypeOK
<1>3. AlignUp(s.req) \in ClassSizes /\ AlignUp(s.req) \in Nat \ {0} /\ Even(AlignUp(s.req))
  BY <1>2, AlignUpFacts, EvenSlot DEF ClassSizes
<1>4. b \in Block BY <1>2, <1>3 DEF Block
<1>5. End(b) = End(s) /\ End(s) <= ArenaSize /\ \A f \in free : Apart(s, f)
  BY <1>1 DEF End, ArenaInv, NoOverlap, LiveApart
<1>6. \A f \in free : Apart(b, f) BY <1>5 DEF Apart
<1>7. \A c \in ClassSizes : \A i \in 1 .. Len(cached[c]) : Apart(CachedBlock(c, i), b)
  <2>1. \A c \in ClassSizes : \A i \in 1 .. Len(cached[c]) : Apart(CachedBlock(c, i), s)
    BY <1>1 DEF ArenaInv, NoOverlap, CachedApart
  <2> QED BY <2>1, <1>5 DEF Apart
<1> QED BY <1>1, <1>3, <1>4, <1>5, <1>6, <1>7

\* What the steps that touch no list leave alone.
LEMMA QuietStep ==
    ASSUME \/ InitializeFails \/ AllocateWithoutArena \/ AllocateReclaim \/ AllocateFail
           \/ \E size \in Sizes : \E top \in Directions(size) : AllocateEnter(size, top)
           \/ \E s \in live : FreeEnter(s)
           \/ UNCHANGED arenaVars
    PROVE  /\ UNCHANGED <<phase, free, cached, live, lost, classCached>>
           /\ ~ InitializeFails => nodes' = nodes
  BY DEF InitializeFails, AllocateWithoutArena, AllocateReclaim, AllocateFail,
         AllocateEnter, FreeEnter, arenaVars, arenaLists, arenaCounters

\* A Free without an arena only drops its range.
LEMMA LateFree ==
    ASSUME ArenaInv, phase # "up", NEW s \in freeing, FreeLocked(s)
    PROVE  UNCHANGED <<phase, free, cached, nodes, classCached>> /\ live' = {}
<1>1. phase = "down" /\ nodes = 0 /\ live = {}
  BY DEF ArenaInv, ArenaTypeOK, PhaseOK
<1>2. ~ CanPush(AlignUp(s.req)) /\ ~ (nodes > 0) BY <1>1 DEF CanPush
<1> QED BY <1>1, <1>2 DEF FreeLocked

\* Every step keeps the shape of the list.
LEMMA ShapeStep ==
    ASSUME ArenaInv, ShapeInv, [ArenaNext]_arenaVars PROVE ShapeInv'
<1>0. /\ free \subseteq Block /\ IsFiniteSet(free) /\ FreeApart
      /\ Coalesced(free) /\ \A f \in free : Even(f.size)
  BY DEF ArenaInv, ArenaTypeOK, NoOverlap, Block, ShapeInv, FreeListCoalesced, Coalesced
<1>1. ASSUME \A s \in live' : s.size = AlignUp(s.req),
             free' = free \/ (Coalesced(free') /\ \A f \in free' : Even(f.size))
      PROVE  ShapeInv'
  BY <1>0, <1>1 DEF ShapeInv, FreeListCoalesced, Coalesced
<1>2. \A s \in live : s.size = AlignUp(s.req) BY DEF ShapeInv
<1>3. CASE Initialize
  <2>1. live' = {}
    BY <1>3 DEF Initialize, ArenaInv, PhaseOK
  <2>2. free' = {[addr |-> 0, size |-> ArenaSize]} BY <1>3 DEF Initialize
  <2>3. Coalesced(free') /\ \A f \in free' : Even(f.size)
    BY <2>2, ArenaAssumption DEF Coalesced, Even, End
  <2> QED BY <1>1, <2>1, <2>3
<1>4. CASE Shutdown
  <2>1. live' = {} /\ free' = {} BY <1>4 DEF Shutdown
  <2> QED BY <1>1, <2>1 DEF Coalesced
<1>5. CASE AllocateReuse
  <2>1. /\ free' = free
        /\ live' = live \cup {[addr |-> Top(cached[need]), size |-> need, req |-> call.size]}
    BY <1>5 DEF AllocateReuse, GrantSlot
  <2> QED BY <1>1, <1>2, <2>1 DEF need
<1>6. CASE AllocateCarve
  <2>1. call.stage \in {"search", "drain"} BY <1>6 DEF AllocateCarve, Searching
  <2>2. need \in Nat \ {0} /\ need \in ClassSizes /\ call.top \in BOOLEAN /\ call.size \in Sizes
    BY <2>1, CallFacts
  <2>3. call.size \in Nat \ {0} BY <2>2, ArenaAssumption
  <2>4. Even(need) BY <2>3, EvenSlot DEF need
  <2>5. PICK f \in Fitting(need) :
           free' = FreeAfterTake(f, need, call.top) /\ GrantSlot(TakenSlot(f, need, call.top))
    BY <1>6 DEF AllocateCarve
  <2>6. /\ Coalesced(free') /\ \A g \in free' : Even(g.size)
        /\ TakenSlot(f, need, call.top).size = need
    BY <1>0, <2>2, <2>4, <2>5, TakeShape
  <2>7. \A s \in live' : s.size = AlignUp(s.req)
    BY <1>2, <2>5, <2>6 DEF GrantSlot, need
  <2> QED BY <1>1, <2>6, <2>7
<1>7. CASE ReclaimCacheBlock
  <2>1. live' = live BY <1>7 DEF ReclaimCacheBlock
  <2>2. PICK c \in ClassSizes :
           /\ cached[c] # <<>>
           /\ \/ free' = free
              \/ free' = InsertFreeSortedAndCoalesce([addr |-> Top(cached[c]), size |-> c])
    BY <1>7 DEF ReclaimCacheBlock, DrainsNext, ArenaInv, ArenaTypeOK
  <2> DEFINE b == [addr |-> Top(cached[c]), size |-> c]
  <2>3. b \in Block /\ Even(b.size) /\ \A f \in free : Apart(b, f) BY <2>2, TopBlock
  <2> HIDE DEF b
  <2>4. LET list == InsertFreeSortedAndCoalesce(b)
        IN  Coalesced(list) /\ \A g \in list : Even(g.size)
    BY <1>0, <2>3, InsertShape
  <2> QED BY <1>1, <1>2, <2>1, <2>2, <2>4 DEF b
<1>8. ASSUME NEW s \in freeing, FreeLocked(s) PROVE ShapeInv'
  <2> DEFINE b == [addr |-> s.addr, size |-> AlignUp(s.req)]
  <2>1. live' = live \ {s} /\ (free' = free \/ free' = InsertFreeSortedAndCoalesce(b))
    BY <1>8 DEF FreeLocked
  <2>2. CASE phase = "up"
    <3>1. b \in Block /\ Even(b.size) /\ \A f \in free : Apart(b, f) BY <2>2, FreedBlock
    <3> HIDE DEF b
    <3>2. LET list == InsertFreeSortedAndCoalesce(b)
          IN  Coalesced(list) /\ \A g \in list : Even(g.size)
      BY <1>0, <3>1, InsertShape
    <3> QED BY <1>1, <1>2, <2>1, <3>2
  <2>3. CASE phase # "up" BY <1>1, <1>8, <2>3, LateFree
  <2> QED BY <2>2, <2>3
<1>9. CASE \/ InitializeFails \/ AllocateWithoutArena \/ AllocateReclaim \/ AllocateFail
           \/ \E size \in Sizes : \E top \in Directions(size) : AllocateEnter(size, top)
           \/ \E s \in live : FreeEnter(s)
           \/ UNCHANGED arenaVars
  BY <1>1, <1>2, <1>9, QuietStep
<1> QED BY <1>3, <1>4, <1>5, <1>6, <1>7, <1>8, <1>9 DEF ArenaNext

\* The shape holds in every reachable state.
LEMMA ShapeInvariance == ArenaSpec => []ShapeInv
<1>1. ArenaInit => ShapeInv BY DEF ArenaInit, ShapeInv, FreeListCoalesced
<1>2. ArenaInv /\ ShapeInv /\ [ArenaNext]_arenaVars => ShapeInv' BY ShapeStep
<1> QED BY <1>1, <1>2, ArenaInvariance, PTL DEF ArenaSpec

\* The free list never holds two touching blocks.
THEOREM FreeListCoalescedAlways == ArenaSpec => []FreeListCoalesced
<1>1. ShapeInv => FreeListCoalesced BY DEF ShapeInv
<1> QED BY <1>1, ShapeInvariance, PTL

-----------------------------------------------------------------------------
(* The list nodes *)

\* A carve keeps the number of blocks, or removes the one it takes whole.
LEMMA TakeCount ==
    ASSUME free \subseteq Block, IsFiniteSet(free), FreeApart,
           NEW n \in Nat \ {0}, NEW f \in Fitting(n), NEW top \in BOOLEAN
    PROVE  Cardinality(FreeAfterTake(f, n, top))
             = IF TakesWhole(f, n) THEN Cardinality(free) - 1 ELSE Cardinality(free)
<1> DEFINE rest == Remainder(f, n, top)
<1>1. f \in free /\ f \in Block /\ f.size >= n BY DEF Fitting
<1>2. /\ IsFiniteSet(free \ {f}) /\ Cardinality(free) \in Nat
      /\ Cardinality(free \ {f}) = Cardinality(free) - 1
  BY <1>1, FS_RemoveElement, FS_CardinalityType
<1>3. CASE TakesWhole(f, n)
  <2>1. FreeAfterTake(f, n, top) = free \ {f} BY <1>3 DEF FreeAfterTake
  <2> QED BY <2>1, <1>2, <1>3
<1>4. CASE ~ TakesWhole(f, n)
  <2>1. FreeAfterTake(f, n, top) = (free \ {f}) \cup {rest} BY <1>4 DEF FreeAfterTake
  <2>2. rest \in Block /\ f.addr <= rest.addr /\ End(rest) <= End(f)
    BY <1>1, <1>4, TakeParts
  <2> HIDE DEF rest
  <2>3. ~ Apart(rest, f)
    <3>1. /\ rest.addr \in Nat /\ rest.addr < End(rest) /\ End(rest) \in Nat
          /\ f.addr \in Nat /\ f.addr < End(f) /\ End(f) \in Nat
      BY <1>1, <2>2 DEF Block, End
    <3> QED BY <2>2, <3>1 DEF Apart
  <2>4. rest \notin free \ {f} BY <2>3, <1>1 DEF FreeApart
  <2>5. Cardinality((free \ {f}) \cup {rest}) = Cardinality(free \ {f}) + 1
    BY <1>2, <2>4, FS_AddElement
  <2> QED BY <2>1, <2>5, <1>2, <1>4
<1> QED BY <1>3, <1>4

\* What two disjoint subsets leave of a set.
LEMMA WithoutTwo ==
    ASSUME NEW S, IsFiniteSet(S), NEW L \in SUBSET S, NEW R \in SUBSET S, L \cap R = {}
    PROVE  /\ IsFiniteSet(S \ (L \cup R))
           /\ Cardinality(L) \in Nat /\ Cardinality(R) \in Nat /\ Cardinality(S) \in Nat
           /\ Cardinality(S \ (L \cup R)) = Cardinality(S) - (Cardinality(L) + Cardinality(R))
<1>1. IsFiniteSet(L) /\ IsFiniteSet(R) BY FS_Subset
<1>2. Cardinality(L) \in Nat /\ Cardinality(R) \in Nat /\ Cardinality(S) \in Nat
  BY <1>1, FS_CardinalityType
<1>3. Cardinality(L \cap R) = 0 BY FS_EmptySet
<1> DEFINE U == L \cup R
<1>4. Cardinality(U) = Cardinality(L) + Cardinality(R)
  <2>1. Cardinality(U) = Cardinality(L) + Cardinality(R) - Cardinality(L \cap R)
    BY ONLY <1>1, FS_Union, Zenon
  <2> HIDE DEF U
  <2> QED BY <1>2, <1>3, <2>1
<1>5. S \cap U = U OBVIOUS
<1> HIDE DEF U
<1>6. IsFiniteSet(S \ U) /\ Cardinality(S \ U) = Cardinality(S) - Cardinality(U)
  BY <1>5, FS_Difference
<1> QED BY <1>2, <1>4, <1>6 DEF U

\* An insertion adds one block and removes those it joins.
LEMMA InsertCount ==
    ASSUME free \subseteq Block, IsFiniteSet(free), FreeApart,
           NEW b \in Block, \A f \in free : Apart(b, f)
    PROVE  /\ NodesJoined(b) \in Nat
           /\ Cardinality(InsertFreeSortedAndCoalesce(b)) + NodesJoined(b)
                = Cardinality(free) + 1
<1> DEFINE lo == IF LeftOf(b) = {} THEN b.addr ELSE (CHOOSE l \in LeftOf(b) : TRUE).addr
           hi == IF RightOf(b) = {} THEN End(b) ELSE End(CHOOSE r \in RightOf(b) : TRUE)
           j == [addr |-> lo, size |-> hi - lo]
           rest == free \ (LeftOf(b) \cup RightOf(b))
<1>1. lo \in Nat /\ hi \in Nat /\ lo <= b.addr /\ End(b) <= hi BY JoinedSpan
<1>2. InsertFreeSortedAndCoalesce(b) = rest \cup {j} BY DEF InsertFreeSortedAndCoalesce
<1> HIDE DEF lo, hi
<1>3. b.addr \in Nat /\ End(b) \in Nat /\ b.addr < End(b) BY DEF Block, End
<1>4. j.addr = lo /\ End(j) = hi BY <1>1 DEF End
<1>5. j \notin free
  <2>1. ~ Apart(b, j) BY <1>1, <1>3, <1>4 DEF Apart
  <2> QED BY <2>1
<1> HIDE DEF j
<1>6. /\ LeftOf(b) \subseteq free /\ RightOf(b) \subseteq free
      /\ LeftOf(b) \cap RightOf(b) = {}
  <2>1. LeftOf(b) \subseteq free /\ RightOf(b) \subseteq free BY DEF LeftOf, RightOf
  <2>2. ASSUME NEW f \in LeftOf(b) \cap RightOf(b) PROVE FALSE
    <3>1. End(f) = b.addr /\ f.addr = End(b) /\ f.addr \in Nat /\ f.addr < End(f)
      BY <2>1 DEF LeftOf, RightOf, Block, End
    <3> QED BY <3>1, <1>3
  <2> QED BY <2>1, <2>2
<1>7. /\ IsFiniteSet(rest) /\ NodesJoined(b) \in Nat /\ Cardinality(free) \in Nat
      /\ Cardinality(rest) = Cardinality(free) - NodesJoined(b)
  <2>1. LeftOf(b) \in SUBSET free /\ RightOf(b) \in SUBSET free BY <1>6
  <2>2. /\ IsFiniteSet(rest)
        /\ Cardinality(LeftOf(b)) \in Nat /\ Cardinality(RightOf(b)) \in Nat
        /\ Cardinality(free) \in Nat
        /\ Cardinality(rest)
             = Cardinality(free) - (Cardinality(LeftOf(b)) + Cardinality(RightOf(b)))
    <3> DEFINE L == LeftOf(b)
               R == RightOf(b)
    <3>1. IsFiniteSet(free) /\ L \in SUBSET free /\ R \in SUBSET free /\ L \cap R = {}
      BY <1>6, <2>1
    <3> HIDE DEF L, R
    <3>2. /\ IsFiniteSet(free \ (L \cup R))
          /\ Cardinality(L) \in Nat /\ Cardinality(R) \in Nat /\ Cardinality(free) \in Nat
          /\ Cardinality(free \ (L \cup R))
               = Cardinality(free) - (Cardinality(L) + Cardinality(R))
      BY <3>1, WithoutTwo
    <3> QED BY <3>2 DEF L, R
  <2> HIDE DEF rest
  <2> QED BY <2>2 DEF NodesJoined
<1>8. j \notin rest BY <1>5
<1> HIDE DEF rest
<1>9. Cardinality(rest \cup {j}) = Cardinality(rest) + 1
  BY <1>7, <1>8, FS_AddElement
<1> QED BY <1>2, <1>7, <1>9

\* Popping a cache takes one place away.
LEMMA PopAt ==
    ASSUME ArenaTypeOK, \A c \in ClassSizes : Len(cached[c]) <= MaxCachedPerClass,
           IsFiniteSet(CachedAt),
           NEW k \in ClassSizes, cached[k] # <<>>,
           cached' = [cached EXCEPT ![k] = Pop(@)]
    PROVE  /\ \A c \in ClassSizes : Len(cached'[c]) <= MaxCachedPerClass
           /\ IsFiniteSet(CachedAt') /\ Cardinality(CachedAt) \in Nat
           /\ Cardinality(CachedAt') = Cardinality(CachedAt) - 1
<1> DEFINE last == Len(cached[k])
<1>1. cached \in [ClassSizes -> Seq(Nat)] /\ \A c \in ClassSizes : Len(cached[c]) \in Nat
  BY LenProperties DEF ArenaTypeOK
<1>2. last \in Nat \ {0} /\ Len(Pop(cached[k])) = last - 1 BY <1>1, PopFacts
<1>3. \A c \in ClassSizes : Len(cached'[c]) = IF c = k THEN last - 1 ELSE Len(cached[c])
  BY <1>1, <1>2
<1>4. MaxCachedPerClass \in Nat BY ArenaAssumption
<1>5. CachedAt' = {p \in ClassSizes \X (1 .. MaxCachedPerClass) : p[2] <= Len(cached'[p[1]])}
  BY DEF CachedAt
<1>6. last <= MaxCachedPerClass OBVIOUS
<1> HIDE DEF last
<1>7. CachedAt' = CachedAt \ {<<k, last>>}
  <2>1. ASSUME NEW c \in ClassSizes, NEW i \in 1 .. MaxCachedPerClass
        PROVE  i <= Len(cached'[c]) <=> i <= Len(cached[c]) /\ <<c, i>> # <<k, last>>
    <3>1. CASE c = k
      <4>1. Len(cached'[c]) = last - 1 /\ Len(cached[c]) = last BY <3>1, <1>3 DEF last
      <4>2. i <= last - 1 <=> i <= last /\ i # last BY <1>2
      <4> QED BY <3>1, <4>1, <4>2
    <3>2. CASE c # k BY <3>2, <1>3
    <3> QED BY <3>1, <3>2
  <2> QED BY <1>5, <2>1 DEF CachedAt
<1>8. <<k, last>> \in CachedAt
  <2>1. last \in 1 .. MaxCachedPerClass /\ last <= Len(cached[k])
    BY <1>2, <1>4, <1>6 DEF last
  <2> QED BY <2>1 DEF CachedAt
<1>9. \A c \in ClassSizes : Len(cached'[c]) <= MaxCachedPerClass
  BY <1>1, <1>2, <1>3, <1>4, <1>6
<1> QED BY <1>7, <1>8, <1>9, FS_RemoveElement, FS_CardinalityType

\* Pushing on a cache that is not full adds one place.
LEMMA PushAt ==
    ASSUME ArenaTypeOK, \A c \in ClassSizes : Len(cached[c]) <= MaxCachedPerClass,
           IsFiniteSet(CachedAt),
           NEW k \in ClassSizes, NEW a \in Nat, Len(cached[k]) < MaxCachedPerClass,
           cached' = [cached EXCEPT ![k] = Append(@, a)]
    PROVE  /\ \A c \in ClassSizes : Len(cached'[c]) <= MaxCachedPerClass
           /\ IsFiniteSet(CachedAt') /\ Cardinality(CachedAt) \in Nat
           /\ Cardinality(CachedAt') = Cardinality(CachedAt) + 1
<1> DEFINE last == Len(cached[k])
<1>1. cached \in [ClassSizes -> Seq(Nat)] /\ \A c \in ClassSizes : Len(cached[c]) \in Nat
  BY LenProperties DEF ArenaTypeOK
<1>2. last \in Nat /\ Len(Append(cached[k], a)) = last + 1
  <2>1. cached[k] \in Seq(Nat) BY <1>1
  <2> QED BY <1>1, <2>1, AppendProperties
<1>3. \A c \in ClassSizes : Len(cached'[c]) = IF c = k THEN last + 1 ELSE Len(cached[c])
  BY <1>1, <1>2
<1>4. MaxCachedPerClass \in Nat BY ArenaAssumption
<1>5. CachedAt' = {p \in ClassSizes \X (1 .. MaxCachedPerClass) : p[2] <= Len(cached'[p[1]])}
  BY DEF CachedAt
<1>6. last < MaxCachedPerClass OBVIOUS
<1> HIDE DEF last
<1>7. CachedAt' = CachedAt \cup {<<k, last + 1>>}
  <2>1. ASSUME NEW c \in ClassSizes, NEW i \in 1 .. MaxCachedPerClass
        PROVE  i <= Len(cached'[c]) <=> i <= Len(cached[c]) \/ <<c, i>> = <<k, last + 1>>
    <3>1. CASE c = k
      <4>1. Len(cached'[c]) = last + 1 /\ Len(cached[c]) = last BY <3>1, <1>3 DEF last
      <4>2. i <= last + 1 <=> i <= last \/ i = last + 1 BY <1>2
      <4> QED BY <3>1, <4>1, <4>2
    <3>2. CASE c # k BY <3>2, <1>3
    <3> QED BY <3>1, <3>2
  <2>2. last + 1 \in 1 .. MaxCachedPerClass BY <1>2, <1>4, <1>6
  <2> QED BY <1>5, <2>1, <2>2 DEF CachedAt
<1>8. <<k, last + 1>> \notin CachedAt
  <2>1. ~ (last + 1 <= Len(cached[k])) BY <1>2 DEF last
  <2> QED BY <2>1 DEF CachedAt
<1>9. \A c \in ClassSizes : Len(cached'[c]) <= MaxCachedPerClass
  BY <1>1, <1>2, <1>3, <1>4, <1>6
<1> QED BY <1>7, <1>8, <1>9, FS_AddElement, FS_CardinalityType

\* No cache is over its limit, and no node is on two lists or on none.
NodesInv ==
    /\ \A c \in ClassSizes : Len(cached[c]) <= MaxCachedPerClass
    /\ IsFiniteSet(CachedAt)
    /\ NodesAccounted

\* Every step of ProxyAllocator moves its node from one list to another.
LEMMA NodesStep ==
    ASSUME ArenaInv, ShapeInv, NodesInv, [ArenaNext]_arenaVars PROVE NodesInv'
<1>0. /\ free \subseteq Block /\ IsFiniteSet(free) /\ FreeApart /\ ArenaTypeOK
      /\ nodes \in Nat /\ NodeCap \in Nat
  BY ArenaAssumption DEF ArenaInv, ArenaTypeOK, NoOverlap, Block
<1>1. /\ \A c \in ClassSizes : Len(cached[c]) <= MaxCachedPerClass
      /\ IsFiniteSet(CachedAt) /\ Cardinality(CachedAt) \in Nat /\ Cardinality(free) \in Nat
      /\ phase = "up" => nodes + Cardinality(free) + Cardinality(CachedAt) = NodeCap
  BY <1>0, FS_CardinalityType DEF NodesInv, NodesAccounted
<1>2. ASSUME cached' = cached
      PROVE  /\ \A c \in ClassSizes : Len(cached'[c]) <= MaxCachedPerClass
             /\ CachedAt' = CachedAt /\ IsFiniteSet(CachedAt')
             /\ Cardinality(CachedAt') = Cardinality(CachedAt)
  BY <1>1, <1>2 DEF CachedAt
<1>3. ASSUME \A c \in ClassSizes : Len(cached'[c]) <= MaxCachedPerClass,
             IsFiniteSet(CachedAt'),
             phase' = "up" => nodes' + Cardinality(free') + Cardinality(CachedAt') = NodeCap
      PROVE  NodesInv'
  BY <1>3 DEF NodesInv, NodesAccounted
<1>4. CASE Initialize
  <2>1. /\ cached' = cached /\ nodes' = NodeCap - 1
        /\ free' = {[addr |-> 0, size |-> ArenaSize]}
        /\ \A c \in ClassSizes : cached[c] = <<>>
    BY <1>4 DEF Initialize, ArenaInv, PhaseOK
  <2>2. CachedAt = {} BY <2>1 DEF CachedAt
  <2>3. Cardinality(CachedAt) = 0 /\ Cardinality(free') = 1
    BY <2>1, <2>2, FS_EmptySet, FS_Singleton
  <2> QED BY <1>0, <1>2, <1>3, <2>1, <2>3
<1>5. CASE Shutdown
  <2>1. cached' = cached /\ phase' # "up" BY <1>5 DEF Shutdown
  <2> QED BY <1>2, <1>3, <2>1
<1>6. CASE AllocateReuse
  <2>1. /\ call.stage \in {"search", "drain"} /\ cached[need] # <<>>
        /\ cached' = [cached EXCEPT ![need] = Pop(@)]
        /\ nodes' = nodes + 1 /\ free' = free /\ phase' = phase
    BY <1>6 DEF AllocateReuse, GrantSlot
  <2>2. need \in ClassSizes BY <2>1, CallFacts
  <2>3. /\ \A c \in ClassSizes : Len(cached'[c]) <= MaxCachedPerClass
        /\ IsFiniteSet(CachedAt')
        /\ Cardinality(CachedAt') = Cardinality(CachedAt) - 1
    BY <1>0, <1>1, <2>1, <2>2, PopAt
  <2> QED BY <1>0, <1>1, <1>3, <2>1, <2>3
<1>7. CASE AllocateCarve
  <2>1. call.stage \in {"search", "drain"} BY <1>7 DEF AllocateCarve, Searching
  <2>2. need \in Nat \ {0} /\ call.top \in BOOLEAN BY <2>1, CallFacts
  <2>3. cached' = cached BY <1>7 DEF AllocateCarve
  <2>4. PICK f \in Fitting(need) :
           /\ free' = FreeAfterTake(f, need, call.top)
           /\ nodes' = IF TakesWhole(f, need) THEN nodes + 1 ELSE nodes
           /\ phase' = phase
    BY <1>7 DEF AllocateCarve, GrantSlot
  <2>5. Cardinality(free')
          = IF TakesWhole(f, need) THEN Cardinality(free) - 1 ELSE Cardinality(free)
    BY <1>0, <2>2, <2>4, TakeCount
  <2>6. nodes' + Cardinality(free') = nodes + Cardinality(free)
    BY <1>0, <1>1, <2>4, <2>5
  <2> QED BY <1>1, <1>2, <1>3, <2>3, <2>4, <2>6
<1>8. CASE ReclaimCacheBlock
  <2>0. PICK i \in 1 .. Len(classSizes) :
           LET c == classSizes[i]
               b == [addr |-> Top(cached[c]), size |-> c]
           IN  /\ cached[c] # <<>>
               /\ cached' = [cached EXCEPT ![c] = Pop(@)]
               /\ IF nodes > 0
                  THEN /\ free' = InsertFreeSortedAndCoalesce(b)
                       /\ nodes' = nodes + NodesJoined(b)
                  ELSE nodes' = nodes + 1 /\ UNCHANGED free
    BY <1>8 DEF ReclaimCacheBlock, DrainsNext
  <2>1. PICK c \in ClassSizes : c = classSizes[i] BY <1>0 DEF ArenaTypeOK
  <2> DEFINE b == [addr |-> Top(cached[c]), size |-> c]
  <2>2. b \in Block /\ \A f \in free : Apart(b, f) BY <2>0, <2>1, TopBlock
  <2>3. /\ cached[c] # <<>> /\ cached' = [cached EXCEPT ![c] = Pop(@)]
        /\ nodes > 0 => /\ free' = InsertFreeSortedAndCoalesce(b)
                        /\ nodes' = nodes + NodesJoined(b)
        /\ ~ (nodes > 0) => nodes' = nodes + 1 /\ free' = free
    BY <2>0, <2>1
  <2> HIDE DEF b
  <2>4. /\ \A d \in ClassSizes : Len(cached'[d]) <= MaxCachedPerClass
        /\ IsFiniteSet(CachedAt')
        /\ Cardinality(CachedAt') = Cardinality(CachedAt) - 1
    BY <1>0, <1>1, <2>3, PopAt
  <2>5. nodes > 0 => /\ NodesJoined(b) \in Nat
                     /\ Cardinality(free') + NodesJoined(b) = Cardinality(free) + 1
    BY <1>0, <2>2, <2>3, InsertCount
  <2>6. nodes' + Cardinality(free') = nodes + Cardinality(free) + 1
    <3>1. CASE nodes > 0
      <4>1. Cardinality(free') = Cardinality(free) + 1 - NodesJoined(b)
        <5>1. IsFiniteSet(free') BY ArenaStepInv DEF ArenaInv
        <5>2. Cardinality(free') \in Nat BY <5>1, FS_CardinalityType
        <5> QED BY <5>2, <3>1, <2>5, <1>1
      <4> QED BY <4>1, <3>1, <2>3, <2>5, <1>0, <1>1
    <3>2. CASE ~ (nodes > 0) BY <3>2, <2>3, <1>0, <1>1
    <3> QED BY <3>1, <3>2
  <2>7. phase' = phase /\ phase = "up"
    BY <1>8, CallFacts DEF ReclaimCacheBlock
  <2>8. nodes' + Cardinality(free') + Cardinality(CachedAt') = NodeCap
    BY <1>0, <1>1, <2>4, <2>6, <2>7
  <2> QED BY <1>3, <2>4, <2>8
<1>9. ASSUME NEW s \in freeing, FreeLocked(s), phase # "up" PROVE NodesInv'
  <2>1. UNCHANGED <<phase, cached>> BY <1>9, LateFree
  <2> QED BY <1>2, <1>3, <1>9, <2>1
<1>10. ASSUME NEW s \in freeing, FreeLocked(s), phase = "up" PROVE NodesInv'
  <2> DEFINE sz == AlignUp(s.req)
             b == [addr |-> s.addr, size |-> sz]
  <2>1. b \in Block /\ sz \in ClassSizes /\ s.addr \in Nat /\ \A f \in free : Apart(b, f)
    BY <1>10, FreedBlock DEF Block
  <2>2. /\ phase' = phase
        /\ \/ /\ CanPush(sz) /\ cached' = [cached EXCEPT ![sz] = Append(@, s.addr)]
              /\ nodes' = nodes - 1 /\ free' = free
           \/ /\ nodes > 0 /\ free' = InsertFreeSortedAndCoalesce(b)
              /\ nodes' = (nodes - 1) + NodesJoined(b) /\ cached' = cached
           \/ UNCHANGED <<free, cached, nodes>>
    BY <1>10 DEF FreeLocked
  <2> HIDE DEF sz, b
  <2>3. CASE /\ CanPush(sz) /\ cached' = [cached EXCEPT ![sz] = Append(@, s.addr)]
             /\ nodes' = nodes - 1 /\ free' = free
    <3>1. Len(cached[sz]) < MaxCachedPerClass BY <2>3 DEF CanPush
    <3>2. /\ \A d \in ClassSizes : Len(cached'[d]) <= MaxCachedPerClass
          /\ IsFiniteSet(CachedAt')
          /\ Cardinality(CachedAt') = Cardinality(CachedAt) + 1
      BY <1>0, <1>1, <2>1, <2>3, <3>1, PushAt
    <3> QED BY <1>0, <1>1, <1>3, <2>2, <2>3, <3>2
  <2>4. CASE /\ nodes > 0 /\ free' = InsertFreeSortedAndCoalesce(b)
             /\ nodes' = (nodes - 1) + NodesJoined(b) /\ cached' = cached
    <3>1. /\ NodesJoined(b) \in Nat
          /\ Cardinality(free') + NodesJoined(b) = Cardinality(free) + 1
      BY <1>0, <2>1, <2>4, InsertCount
    <3>2. Cardinality(free') \in Nat
      <4>1. IsFiniteSet(free') BY ArenaStepInv DEF ArenaInv
      <4> QED BY <4>1, FS_CardinalityType
    <3>3. nodes' + Cardinality(free') = nodes + Cardinality(free)
      BY <3>1, <3>2, <2>4, <1>0, <1>1
    <3> QED BY <1>1, <1>2, <1>3, <2>2, <2>4, <3>3
  <2>5. CASE UNCHANGED <<free, cached, nodes>> BY <1>1, <1>2, <1>3, <2>2, <2>5
  <2> QED BY <2>2, <2>3, <2>4, <2>5
<1>11. CASE InitializeFails
  <2>1. cached' = cached /\ phase' # "up" BY <1>11 DEF InitializeFails
  <2> QED BY <1>2, <1>3, <2>1
<1>12. CASE \/ AllocateWithoutArena \/ AllocateReclaim \/ AllocateFail
            \/ \E size \in Sizes : \E top \in Directions(size) : AllocateEnter(size, top)
            \/ \E s \in live : FreeEnter(s)
            \/ UNCHANGED arenaVars
  <2>1. UNCHANGED <<phase, free, cached>> BY <1>12, QuietStep
  <2>2. nodes' = nodes
    BY <1>12 DEF AllocateWithoutArena, AllocateReclaim, AllocateFail,
                 AllocateEnter, FreeEnter, arenaVars, arenaLists
  <2> QED BY <1>1, <1>2, <1>3, <2>1, <2>2
<1> QED BY <1>4, <1>5, <1>6, <1>7, <1>8, <1>9, <1>10, <1>11, <1>12 DEF ArenaNext

\* NodesInv holds in every reachable state.
LEMMA NodesInvariance == ArenaSpec => []NodesInv
<1>1. ArenaInit => NodesInv
  <2> SUFFICES ASSUME ArenaInit PROVE NodesInv OBVIOUS
  <2>1. \A c \in ClassSizes : Len(cached[c]) = 0 BY EmptySeq DEF ArenaInit
  <2>2. CachedAt = {} BY <2>1 DEF CachedAt
  <2>3. phase # "up" BY DEF ArenaInit
  <2> QED BY <2>1, <2>2, <2>3, FS_EmptySet, ArenaAssumption DEF NodesInv, NodesAccounted
<1>2. ArenaInv /\ ShapeInv /\ NodesInv /\ [ArenaNext]_arenaVars => NodesInv' BY NodesStep
<1> QED BY <1>1, <1>2, ArenaInvariance, ShapeInvariance, PTL DEF ArenaSpec

\* No list node leaks and none is on two lists, for every size of the pool.
THEOREM NodesAccountedAlways == ArenaSpec => []NodesAccounted
<1>1. NodesInv => NodesAccounted BY DEF NodesInv
<1> QED BY <1>1, NodesInvariance, PTL

-----------------------------------------------------------------------------
(* The bytes of the arena *)

In(x, b) == b.addr <= x /\ x < End(b)

Bytes(b) == b.addr .. (End(b) - 1)

\* The bytes the reuse caches hold.
CachedBytes ==
    {x \in 0 .. (ArenaSize - 1) :
        \E c \in ClassSizes : \E i \in 1 .. Len(cached[c]) : In(x, CachedBlock(c, i))}

\* A block has as many bytes as its size says.
LEMMA BytesFacts ==
    ASSUME NEW b \in Block, End(b) <= ArenaSize
    PROVE  /\ IsFiniteSet(Bytes(b)) /\ Cardinality(Bytes(b)) = b.size
           /\ \A x \in 0 .. (ArenaSize - 1) : x \in Bytes(b) <=> In(x, b)
           /\ Bytes(b) \subseteq 0 .. (ArenaSize - 1)
<1>1. PICK a \in Nat, n \in Nat \ {0} : a = b.addr /\ n = b.size BY DEF Block
<1>2. PICK size \in Nat : size = ArenaSize BY ArenaAssumption
<1>3. End(b) = a + n /\ a + n <= size BY <1>1, <1>2 DEF End
<1>4. Bytes(b) = a .. (a + n - 1) BY <1>1, <1>3 DEF Bytes
<1>5. IsFiniteSet(a .. (a + n - 1)) /\ Cardinality(a .. (a + n - 1)) = n
  <2>1. a \in Int /\ a + n - 1 \in Int /\ ~ (a > a + n - 1) /\ (a + n - 1) - a + 1 = n
    OBVIOUS
  <2> QED BY <2>1, FS_Interval
<1>6. \A x \in 0 .. (size - 1) : x \in a .. (a + n - 1) <=> a <= x /\ x < a + n
  OBVIOUS
<1>7. a .. (a + n - 1) \subseteq 0 .. (size - 1) BY <1>3
<1> QED BY <1>1, <1>2, <1>3, <1>4, <1>5, <1>6, <1>7 DEF In

\* No byte is in two blocks that are apart.
LEMMA ApartBytes ==
    ASSUME NEW x \in Nat, NEW b, Solid(b), NEW c, Solid(c), Apart(b, c)
    PROVE  ~ (In(x, b) /\ In(x, c))
  BY DEF Solid, Apart, In, End

\* A carve moves bytes from the list to the slot and loses none.
LEMMA TakeCovers ==
    ASSUME free \subseteq Block, NEW n \in Nat \ {0}, NEW f \in Fitting(n), NEW top \in BOOLEAN,
           NEW x \in Nat, NEW g \in free, In(x, g)
    PROVE  \/ In(x, TakenSlot(f, n, top))
           \/ \E h \in FreeAfterTake(f, n, top) : In(x, h)
<1>1. f \in free /\ f \in Block /\ f.size >= n BY DEF Fitting
<1>2. CASE g # f BY <1>2 DEF FreeAfterTake
<1>3. CASE g = f /\ TakesWhole(f, n) BY <1>3 DEF TakenSlot
<1>4. CASE g = f /\ ~ TakesWhole(f, n)
  <2>1. Remainder(f, n, top) \in FreeAfterTake(f, n, top) BY <1>4 DEF FreeAfterTake
  <2>2. In(x, TakenSlot(f, n, top)) \/ In(x, Remainder(f, n, top))
    <3>1. PICK a \in Nat, s \in Nat : a = f.addr /\ s = f.size /\ s >= n
      BY <1>1 DEF Block
    <3>2. a <= x /\ x < a + s BY <1>4, <3>1 DEF In, End
    <3>3. CASE top
      BY <1>4, <3>1, <3>2, <3>3 DEF In, End, TakenSlot, Remainder
    <3>4. CASE ~ top
      BY <1>4, <3>1, <3>2, <3>4 DEF In, End, TakenSlot, Remainder
    <3> QED BY <3>3, <3>4
  <2> QED BY <2>1, <2>2
<1> QED BY <1>2, <1>3, <1>4

\* An insertion loses no byte of the list or of the block.
LEMMA InsertCovers ==
    ASSUME free \subseteq Block, FreeApart, NEW b \in Block,
           NEW x \in Nat, In(x, b) \/ \E f \in free : In(x, f)
    PROVE  \E g \in InsertFreeSortedAndCoalesce(b) : In(x, g)
<1> DEFINE lo == IF LeftOf(b) = {} THEN b.addr ELSE (CHOOSE l \in LeftOf(b) : TRUE).addr
           hi == IF RightOf(b) = {} THEN End(b) ELSE End(CHOOSE r \in RightOf(b) : TRUE)
           j == [addr |-> lo, size |-> hi - lo]
           rest == free \ (LeftOf(b) \cup RightOf(b))
<1>1. lo \in Nat /\ hi \in Nat /\ lo <= b.addr /\ End(b) <= hi BY JoinedSpan
<1>2. InsertFreeSortedAndCoalesce(b) = rest \cup {j} BY DEF InsertFreeSortedAndCoalesce
<1>3. \A f, g \in free : \A y \in Nat : In(y, f) /\ In(y, g) => f = g
  <2>1. \A f \in free : Solid(f) BY DEF Block, Solid
  <2> QED BY <2>1, ApartBytes DEF FreeApart
<1>4. \A f \in LeftOf(b) : f.addr = lo
  <2> SUFFICES ASSUME NEW f \in LeftOf(b) PROVE f.addr = lo OBVIOUS
  <2>1. PICK l \in LeftOf(b) : l = CHOOSE k \in LeftOf(b) : TRUE OBVIOUS
  <2>2. f \in free /\ l \in free /\ End(f) = b.addr /\ End(l) = b.addr BY DEF LeftOf
  <2>3. In(b.addr - 1, f) /\ In(b.addr - 1, l) /\ b.addr - 1 \in Nat
    BY <2>2 DEF Block, End, In
  <2>4. f = l BY <1>3, <2>2, <2>3
  <2> QED BY <2>1, <2>4
<1>5. \A f \in RightOf(b) : End(f) = hi
  <2> SUFFICES ASSUME NEW f \in RightOf(b) PROVE End(f) = hi OBVIOUS
  <2>1. PICK r \in RightOf(b) : r = CHOOSE k \in RightOf(b) : TRUE OBVIOUS
  <2>2. f \in free /\ r \in free /\ f.addr = End(b) /\ r.addr = End(b) BY DEF RightOf
  <2>3. In(End(b), f) /\ In(End(b), r) /\ End(b) \in Nat
    BY <2>2 DEF Block, End, In
  <2>4. f = r BY <1>3, <2>2, <2>3
  <2> QED BY <2>1, <2>4
<1> HIDE DEF lo, hi
<1>6. j.addr = lo /\ End(j) = hi BY <1>1 DEF End
<1>7. b.addr \in Nat /\ End(b) \in Nat /\ b.addr < End(b) BY DEF Block, End
<1>8. ASSUME In(x, b) PROVE In(x, j)
  BY <1>1, <1>6, <1>7, <1>8 DEF In
<1>9. ASSUME NEW f \in LeftOf(b), In(x, f) PROVE In(x, j)
  <2>1. f.addr = lo /\ End(f) = b.addr BY <1>4 DEF LeftOf
  <2> QED BY <1>1, <1>6, <1>7, <1>9, <2>1 DEF In
<1>10. ASSUME NEW f \in RightOf(b), In(x, f) PROVE In(x, j)
  <2>1. f.addr = End(b) /\ End(f) = hi BY <1>5 DEF RightOf
  <2> QED BY <1>1, <1>6, <1>7, <1>10, <2>1 DEF In
<1> HIDE DEF j
<1> QED BY <1>2, <1>8, <1>9, <1>10

\* Popping a cache gives up exactly the bytes of its last block.
LEMMA PopBytes ==
    ASSUME ArenaInv, NEW k \in ClassSizes, cached[k] # <<>>,
           cached' = [cached EXCEPT ![k] = Pop(@)]
    PROVE  LET b == [addr |-> Top(cached[k]), size |-> k]
           IN  Bytes(b) \subseteq CachedBytes /\ CachedBytes' = CachedBytes \ Bytes(b)
<1> DEFINE b == [addr |-> Top(cached[k]), size |-> k]
           last == Len(cached[k])
<1>0. ArenaTypeOK BY DEF ArenaInv
<1>1. /\ b \in Block /\ End(b) <= ArenaSize
      /\ b = CachedBlock(k, last) /\ last \in 1 .. last
  BY TopBlock
<1>2. /\ Bytes(b) \subseteq 0 .. (ArenaSize - 1)
      /\ \A x \in 0 .. (ArenaSize - 1) : x \in Bytes(b) <=> In(x, b)
  BY <1>1, BytesFacts
<1>3. \A c \in ClassSizes : \A i \in 1 .. Len(cached'[c]) :
         /\ i \in 1 .. Len(cached[c])
         /\ <<c, i>> # <<k, last>>
         /\ CachedBlock(c, i)' = CachedBlock(c, i)
  BY <1>0, PopCached
<1>4. \A c \in ClassSizes : \A i \in 1 .. Len(cached[c]) :
         <<c, i>> # <<k, last>> => i \in 1 .. Len(cached'[c])
  <2>1. cached \in [ClassSizes -> Seq(Nat)] /\ cached[k] \in Seq(Nat)
    BY <1>0 DEF ArenaTypeOK
  <2>2. Len(Pop(cached[k])) = last - 1 /\ last \in Nat \ {0} BY <2>1, PopFacts
  <2>3. \A c \in ClassSizes : cached'[c] = IF c = k THEN Pop(cached[k]) ELSE cached[c]
    BY <2>1
  <2> HIDE DEF last
  <2>4. ASSUME NEW i \in 1 .. last, i # last PROVE i \in 1 .. (last - 1) BY <2>2, <2>4
  <2> QED BY <2>2, <2>3, <2>4 DEF last
<1> HIDE DEF last
<1>5. \A c \in ClassSizes : \A i \in 1 .. Len(cached[c]) :
         Solid(CachedBlock(c, i)) /\ (<<c, i>> # <<k, last>> => Apart(CachedBlock(c, i), b))
  <2>1. \A c \in ClassSizes : \A i \in 1 .. Len(cached[c]) : Solid(CachedBlock(c, i))
    BY <1>0, CachedIsBlock DEF Block, Solid
  <2> QED BY <2>1, <1>1 DEF ArenaInv, NoOverlap, CachedApart, last
<1>6. Solid(b) BY <1>1 DEF Block, Solid
<1>7. last \in 1 .. Len(cached[k]) /\ b = CachedBlock(k, last) BY <1>1 DEF last
<1> HIDE DEF b
<1>8. CachedBytes' = {x \in 0 .. (ArenaSize - 1) :
          \E c \in ClassSizes : \E i \in 1 .. Len(cached'[c]) : In(x, CachedBlock(c, i)')}
  BY DEF CachedBytes, In, End
<1>9. ASSUME NEW x \in 0 .. (ArenaSize - 1)
      PROVE  x \in CachedBytes' <=> x \in CachedBytes /\ ~ In(x, b)
  <2>1. x \in Nat BY ArenaAssumption
  <2>2. ASSUME x \in CachedBytes' PROVE x \in CachedBytes /\ ~ In(x, b)
    <3>1. PICK c \in ClassSizes : \E i \in 1 .. Len(cached'[c]) : In(x, CachedBlock(c, i)')
      BY <1>8, <2>2
    <3>2. PICK i \in 1 .. Len(cached'[c]) : In(x, CachedBlock(c, i)') BY <3>1
    <3>3. /\ i \in 1 .. Len(cached[c]) /\ <<c, i>> # <<k, last>>
          /\ In(x, CachedBlock(c, i))
      BY <1>3, <3>2
    <3>4. ~ In(x, b) BY <1>5, <1>6, <2>1, <3>3, ApartBytes
    <3> QED BY <3>3, <3>4 DEF CachedBytes
  <2>3. ASSUME x \in CachedBytes, ~ In(x, b) PROVE x \in CachedBytes'
    <3>1. PICK c \in ClassSizes : \E i \in 1 .. Len(cached[c]) : In(x, CachedBlock(c, i))
      BY <2>3 DEF CachedBytes
    <3>2. PICK i \in 1 .. Len(cached[c]) : In(x, CachedBlock(c, i)) BY <3>1
    <3>3. <<c, i>> # <<k, last>> BY <1>7, <2>3, <3>2
    <3>4. i \in 1 .. Len(cached'[c]) /\ CachedBlock(c, i)' = CachedBlock(c, i)
      BY <1>3, <1>4, <3>3
    <3> QED BY <1>8, <3>2, <3>4
  <2> QED BY <2>2, <2>3
<1>10. Bytes(b) \subseteq CachedBytes
  BY <1>2, <1>7 DEF CachedBytes
<1>11. CachedBytes \subseteq 0 .. (ArenaSize - 1) /\ CachedBytes' \subseteq 0 .. (ArenaSize - 1)
  BY <1>8 DEF CachedBytes
<1>12. CachedBytes' = CachedBytes \ Bytes(b) BY <1>2, <1>9, <1>11
<1> QED BY <1>10, <1>12 DEF b

\* Pushing a block on a cache adds exactly its bytes.
LEMMA PushBytes ==
    ASSUME ArenaInv, NEW k \in ClassSizes, NEW a \in Nat,
           cached' = [cached EXCEPT ![k] = Append(@, a)],
           a + k <= ArenaSize,
           \A c \in ClassSizes : \A i \in 1 .. Len(cached[c]) :
              Apart(CachedBlock(c, i), [addr |-> a, size |-> k])
    PROVE  LET b == [addr |-> a, size |-> k]
           IN  Bytes(b) \cap CachedBytes = {} /\ CachedBytes' = CachedBytes \cup Bytes(b)
<1> DEFINE b == [addr |-> a, size |-> k]
<1>0. ArenaTypeOK BY DEF ArenaInv
<1> PICK last \in Nat : last = Len(cached[k]) BY <1>0, LenProperties DEF ArenaTypeOK
<1>1. b \in Block /\ End(b) <= ArenaSize BY ClassSizeFacts DEF Block, End
<1>2. /\ Bytes(b) \subseteq 0 .. (ArenaSize - 1)
      /\ \A x \in 0 .. (ArenaSize - 1) : x \in Bytes(b) <=> In(x, b)
  BY <1>1, BytesFacts
<1>3. \A c \in ClassSizes : \A i \in 1 .. Len(cached'[c]) :
         \/ i \in 1 .. Len(cached[c]) /\ CachedBlock(c, i)' = CachedBlock(c, i)
         \/ CachedBlock(c, i)' = b
  BY <1>0, PushCached
<1>4. /\ \A c \in ClassSizes : \A i \in 1 .. Len(cached[c]) :
            i \in 1 .. Len(cached'[c]) /\ CachedBlock(c, i)' = CachedBlock(c, i)
      /\ last + 1 \in 1 .. Len(cached'[k]) /\ CachedBlock(k, last + 1)' = b
  <2>1. /\ cached \in [ClassSizes -> Seq(Nat)] /\ cached[k] \in Seq(Nat)
        /\ \A c \in ClassSizes : Len(cached[c]) \in Nat
    BY <1>0, LenProperties DEF ArenaTypeOK
  <2>2. /\ Len(Append(cached[k], a)) = last + 1
        /\ \A i \in 1 .. last : Append(cached[k], a)[i] = cached[k][i]
        /\ Append(cached[k], a)[last + 1] = a
    BY <2>1, AppendProperties
  <2>3. \A c \in ClassSizes : cached'[c] = IF c = k THEN Append(cached[k], a) ELSE cached[c]
    BY <2>1
  <2>5. last + 1 \in 1 .. (last + 1) /\ \A i \in 1 .. last : i \in 1 .. (last + 1)
    OBVIOUS
  <2>6. ASSUME NEW c \in ClassSizes, NEW i \in 1 .. Len(cached[c])
        PROVE  i \in 1 .. Len(cached'[c]) /\ cached'[c][i] = cached[c][i]
    <3>1. CASE c = k BY <3>1, <2>2, <2>3, <2>5
    <3>2. CASE c # k BY <3>2, <2>3
    <3> QED BY <3>1, <3>2
  <2>7. last + 1 \in 1 .. Len(cached'[k]) /\ cached'[k][last + 1] = a
    BY <2>2, <2>3, <2>5
  <2> QED BY <2>6, <2>7 DEF CachedBlock
<1>5. \A c \in ClassSizes : \A i \in 1 .. Len(cached[c]) :
         Solid(CachedBlock(c, i)) /\ Apart(CachedBlock(c, i), b)
  BY <1>0, CachedIsBlock DEF Block, Solid
<1>6. Solid(b) BY <1>1 DEF Block, Solid
<1> HIDE DEF b
<1>7. CachedBytes' = {x \in 0 .. (ArenaSize - 1) :
          \E c \in ClassSizes : \E i \in 1 .. Len(cached'[c]) : In(x, CachedBlock(c, i)')}
  BY DEF CachedBytes, In, End
<1>8. ASSUME NEW x \in 0 .. (ArenaSize - 1)
      PROVE  /\ x \in CachedBytes' <=> x \in CachedBytes \/ In(x, b)
             /\ ~ (x \in CachedBytes /\ In(x, b))
  <2>1. x \in Nat BY ArenaAssumption
  <2>2. ASSUME x \in CachedBytes' PROVE x \in CachedBytes \/ In(x, b)
    BY <1>3, <1>7, <2>2 DEF CachedBytes
  <2>3. ASSUME x \in CachedBytes \/ In(x, b) PROVE x \in CachedBytes'
    <3>1. CASE x \in CachedBytes BY <1>4, <1>7, <3>1 DEF CachedBytes
    <3>2. CASE In(x, b) BY <1>4, <1>7, <3>2
    <3> QED BY <2>3, <3>1, <3>2
  <2>4. ~ (x \in CachedBytes /\ In(x, b))
    BY <1>5, <1>6, <2>1, ApartBytes DEF CachedBytes
  <2> QED BY <2>2, <2>3, <2>4
<1>9. CachedBytes \subseteq 0 .. (ArenaSize - 1) /\ CachedBytes' \subseteq 0 .. (ArenaSize - 1)
  BY <1>7 DEF CachedBytes
<1>10. Bytes(b) \cap CachedBytes = {} BY <1>2, <1>8, <1>9
<1>11. CachedBytes' = CachedBytes \cup Bytes(b) BY <1>2, <1>8, <1>9
<1> QED BY <1>10, <1>11 DEF b

\* Byte x of the arena is on the list, held or dropped.
Listed(x) == \E b \in free \cup live \cup lost : In(x, b)

\* classCached counts the bytes the caches hold, and while there is an arena
\* each of its bytes is on the list, held, dropped or cached.
BytesInv ==
    /\ classCached = Cardinality(CachedBytes)
    /\ phase = "up" => \A x \in 0 .. (ArenaSize - 1) : Listed(x) \/ x \in CachedBytes

\* What leaves a cache was counted there.
LEMMA PopCount ==
    ASSUME ArenaInv, classCached = Cardinality(CachedBytes),
           NEW k \in ClassSizes, cached[k] # <<>>,
           cached' = [cached EXCEPT ![k] = Pop(@)], classCached' = DropCovered(classCached, k)
    PROVE  LET b == [addr |-> Top(cached[k]), size |-> k]
           IN  /\ classCached' = Cardinality(CachedBytes')
               /\ classCached = classCached' + k /\ classCached' \in Nat
               /\ \A x \in CachedBytes : x \in CachedBytes' \/ In(x, b)
<1> DEFINE b == [addr |-> Top(cached[k]), size |-> k]
<1>1. b \in Block /\ End(b) <= ArenaSize BY TopBlock
<1>2. /\ IsFiniteSet(Bytes(b)) /\ Cardinality(Bytes(b)) = k
      /\ \A x \in 0 .. (ArenaSize - 1) : x \in Bytes(b) <=> In(x, b)
  BY <1>1, BytesFacts
<1>3. Bytes(b) \subseteq CachedBytes /\ CachedBytes' = CachedBytes \ Bytes(b)
  BY PopBytes
<1> HIDE DEF b
<1>4. CachedBytes \subseteq 0 .. (ArenaSize - 1) BY DEF CachedBytes
<1>5. IsFiniteSet(CachedBytes) /\ Cardinality(CachedBytes) \in Nat
  <2>1. ArenaSize - 1 \in Int /\ 0 \in Int BY ArenaAssumption
  <2>2. IsFiniteSet(0 .. (ArenaSize - 1)) BY <2>1, FS_Interval
  <2> QED BY <1>4, <2>2, FS_Subset, FS_CardinalityType
<1>6. k <= Cardinality(CachedBytes) BY <1>2, <1>3, <1>5, FS_Subset
<1>7. Cardinality(CachedBytes') = Cardinality(CachedBytes) - k
  <2>1. CachedBytes \cap Bytes(b) = Bytes(b) BY <1>3
  <2> QED BY <1>2, <1>3, <1>5, <2>1, FS_Difference
<1>8. /\ classCached' = Cardinality(CachedBytes')
      /\ classCached = classCached' + k /\ classCached' \in Nat
  BY <1>5, <1>6, <1>7, ClassSizeFacts DEF DropCovered
<1> QED BY <1>2, <1>3, <1>4, <1>8 DEF b

\* Every step moves bytes from one place to another and loses none.
LEMMA BytesStep ==
    ASSUME ArenaInv, ShapeInv, BytesInv, [ArenaNext]_arenaVars PROVE BytesInv'
<1>0. free \subseteq Block /\ FreeApart /\ ArenaTypeOK /\ ArenaSize \in Nat
  BY ArenaAssumption DEF ArenaInv, ArenaTypeOK, NoOverlap, Block
<1>1. /\ classCached = Cardinality(CachedBytes)
      /\ phase = "up" => \A x \in 0 .. (ArenaSize - 1) : Listed(x) \/ x \in CachedBytes
  BY DEF BytesInv
<1>2. ASSUME cached' = cached PROVE CachedBytes' = CachedBytes
  BY <1>2 DEF CachedBytes, CachedBlock, In, End
<1>3. ASSUME classCached' = Cardinality(CachedBytes'),
             phase' = "up" => \A x \in 0 .. (ArenaSize - 1) :
                \/ \E b \in free' \cup live' \cup lost' : In(x, b)
                \/ x \in CachedBytes'
      PROVE  BytesInv'
  BY <1>3 DEF BytesInv, Listed, In, End
<1>4. CASE Initialize
  <2>1. /\ free' = {[addr |-> 0, size |-> ArenaSize]}
        /\ cached' = cached /\ classCached' = classCached
    BY <1>4 DEF Initialize, arenaCounters
  <2>2. \A x \in 0 .. (ArenaSize - 1) : \E b \in free' \cup live' \cup lost' : In(x, b)
    <3> DEFINE whole == [addr |-> 0, size |-> ArenaSize]
    <3>1. \A x \in 0 .. (ArenaSize - 1) : In(x, whole) BY <1>0 DEF In, End
    <3>2. whole \in free' BY <2>1
    <3> HIDE DEF whole
    <3> QED BY <3>1, <3>2
  <2> QED BY <1>1, <1>2, <1>3, <2>1, <2>2
<1>5. CASE Shutdown
  <2>1. cached' = cached /\ classCached' = classCached /\ phase' # "up"
    BY <1>5 DEF Shutdown
  <2> QED BY <1>1, <1>2, <1>3, <2>1
<1>6. CASE AllocateReuse
  <2> DEFINE b == [addr |-> Top(cached[need]), size |-> need]
             slot == [addr |-> b.addr, size |-> b.size, req |-> call.size]
  <2>1. /\ call.stage \in {"search", "drain"} /\ cached[need] # <<>>
        /\ cached' = [cached EXCEPT ![need] = Pop(@)]
        /\ classCached' = DropCovered(classCached, need)
        /\ free' = free /\ lost' = lost /\ phase' = phase /\ live' = live \cup {slot}
    BY <1>6 DEF AllocateReuse, GrantSlot
  <2>2. need \in ClassSizes /\ phase = "up" BY <2>1, CallFacts
  <2>3. /\ classCached' = Cardinality(CachedBytes')
        /\ \A x \in CachedBytes : x \in CachedBytes' \/ In(x, b)
    BY <1>1, <2>1, <2>2, PopCount
  <2>4. \A x : In(x, b) => In(x, slot) BY DEF In, End
  <2> HIDE DEF b, slot
  <2>5. \A x \in 0 .. (ArenaSize - 1) :
           \/ \E c \in free' \cup live' \cup lost' : In(x, c)
           \/ x \in CachedBytes'
    BY <1>1, <2>1, <2>2, <2>3, <2>4 DEF Listed
  <2> QED BY <1>3, <2>3, <2>5
<1>7. CASE AllocateCarve
  <2>1. call.stage \in {"search", "drain"} BY <1>7 DEF AllocateCarve, Searching
  <2>2. need \in Nat \ {0} /\ call.top \in BOOLEAN /\ phase = "up" BY <2>1, CallFacts
  <2>3. cached' = cached /\ classCached' = classCached BY <1>7 DEF AllocateCarve
  <2>4. PICK f \in Fitting(need) :
           /\ free' = FreeAfterTake(f, need, call.top)
           /\ GrantSlot(TakenSlot(f, need, call.top))
    BY <1>7 DEF AllocateCarve
  <2> DEFINE b == TakenSlot(f, need, call.top)
             slot == [addr |-> b.addr, size |-> b.size, req |-> call.size]
  <2>5. live' = live \cup {slot} /\ lost' = lost BY <2>4 DEF GrantSlot
  <2>6. \A x : In(x, b) => In(x, slot) BY DEF In, End
  <2>7. \A x \in Nat : \A g \in free : In(x, g) =>
           In(x, b) \/ \E h \in free' : In(x, h)
    BY <1>0, <2>2, <2>4, TakeCovers
  <2> HIDE DEF b, slot
  <2>8. ASSUME NEW x \in 0 .. (ArenaSize - 1), Listed(x)
        PROVE  \E c \in free' \cup live' \cup lost' : In(x, c)
    <3>1. x \in Nat BY <1>0
    <3>2. CASE \E c \in live \cup lost : In(x, c) BY <3>2, <2>5
    <3>3. CASE \E g \in free : In(x, g) BY <3>1, <3>3, <2>5, <2>6, <2>7
    <3> QED BY <2>8, <3>2, <3>3 DEF Listed
  <2> QED BY <1>1, <1>2, <1>3, <2>2, <2>3, <2>8
<1>8. CASE ReclaimCacheBlock
  <2>0. PICK i \in 1 .. Len(classSizes) :
           LET c == classSizes[i]
               b == [addr |-> Top(cached[c]), size |-> c]
           IN  /\ cached[c] # <<>>
               /\ cached' = [cached EXCEPT ![c] = Pop(@)]
               /\ classCached' = DropCovered(classCached, c)
               /\ IF nodes > 0
                  THEN free' = InsertFreeSortedAndCoalesce(b) /\ UNCHANGED lost
                  ELSE lost' = lost \cup {b} /\ UNCHANGED free
    BY <1>8 DEF ReclaimCacheBlock, DrainsNext
  <2>1. PICK c \in ClassSizes : c = classSizes[i] BY <1>0 DEF ArenaTypeOK
  <2> DEFINE b == [addr |-> Top(cached[c]), size |-> c]
  <2>2. b \in Block BY <2>0, <2>1, TopBlock
  <2>3. /\ cached[c] # <<>> /\ cached' = [cached EXCEPT ![c] = Pop(@)]
        /\ classCached' = DropCovered(classCached, c)
        /\ \/ free' = InsertFreeSortedAndCoalesce(b) /\ lost' = lost
           \/ free' = free /\ lost' = lost \cup {b}
    BY <2>0, <2>1
  <2>4. live' = live /\ phase' = phase /\ phase = "up"
    BY <1>8, CallFacts DEF ReclaimCacheBlock
  <2>5. /\ classCached' = Cardinality(CachedBytes')
        /\ \A x \in CachedBytes : x \in CachedBytes' \/ In(x, b)
    BY <1>1, <2>3, PopCount
  <2> HIDE DEF b
  <2>6. ASSUME NEW x \in 0 .. (ArenaSize - 1), Listed(x) \/ In(x, b)
        PROVE  \E d \in free' \cup live' \cup lost' : In(x, d)
    <3>1. x \in Nat BY <1>0
    <3>2. CASE \E d \in live \cup lost : In(x, d) BY <3>2, <2>3, <2>4
    <3>3. CASE In(x, b) \/ \E f \in free : In(x, f)
      <4>1. CASE free' = free /\ lost' = lost \cup {b} BY <3>3, <4>1
      <4>2. CASE free' = InsertFreeSortedAndCoalesce(b)
        <5>1. \E g \in free' : In(x, g) BY <1>0, <2>2, <3>1, <3>3, <4>2, InsertCovers
        <5> QED BY <5>1
      <4> QED BY <2>3, <4>1, <4>2
    <3> QED BY <2>6, <3>2, <3>3 DEF Listed
  <2> QED BY <1>1, <1>3, <2>4, <2>5, <2>6
<1>9. ASSUME NEW s \in freeing, FreeLocked(s), phase # "up" PROVE BytesInv'
  <2>1. UNCHANGED <<phase, cached, classCached>> BY <1>9, LateFree
  <2> QED BY <1>1, <1>2, <1>3, <1>9, <2>1
<1>10. ASSUME NEW s \in freeing, FreeLocked(s), phase = "up" PROVE BytesInv'
  <2> DEFINE sz == AlignUp(s.req)
             b == [addr |-> s.addr, size |-> sz]
  <2>1. /\ b \in Block /\ sz \in ClassSizes /\ s.addr \in Nat
        /\ b.addr = s.addr /\ b.size = sz /\ End(b) = End(s) /\ End(b) <= ArenaSize
        /\ s.addr + sz <= ArenaSize
        /\ \A c \in ClassSizes : \A i \in 1 .. Len(cached[c]) : Apart(CachedBlock(c, i), b)
    BY <1>10, FreedBlock DEF Block, End
  <2>2. /\ phase' = phase /\ live' = live \ {s}
        /\ \/ /\ cached' = [cached EXCEPT ![sz] = Append(@, s.addr)]
              /\ classCached' = classCached + sz /\ free' = free /\ lost' = lost
           \/ /\ free' = InsertFreeSortedAndCoalesce(b)
              /\ cached' = cached /\ classCached' = classCached /\ lost' = lost
           \/ /\ lost' = lost \cup {b}
              /\ free' = free /\ cached' = cached /\ classCached' = classCached
    BY <1>10 DEF FreeLocked
  <2>3. \A x : In(x, s) => In(x, b) BY <2>1 DEF In
  <2>4. CASE /\ cached' = [cached EXCEPT ![sz] = Append(@, s.addr)]
             /\ classCached' = classCached + sz /\ free' = free /\ lost' = lost
    <3>1. Bytes(b) \cap CachedBytes = {} /\ CachedBytes' = CachedBytes \cup Bytes(b)
      BY <2>1, <2>4, PushBytes
    <3>2. /\ IsFiniteSet(Bytes(b)) /\ Cardinality(Bytes(b)) = sz
          /\ \A x \in 0 .. (ArenaSize - 1) : x \in Bytes(b) <=> In(x, b)
      BY <2>1, BytesFacts
    <3>3. IsFiniteSet(CachedBytes) /\ Cardinality(CachedBytes) \in Nat
      <4>1. ArenaSize - 1 \in Int /\ 0 \in Int BY <1>0
      <4>2. IsFiniteSet(0 .. (ArenaSize - 1)) BY <4>1, FS_Interval
      <4>3. CachedBytes \subseteq 0 .. (ArenaSize - 1) BY DEF CachedBytes
      <4> QED BY <4>2, <4>3, FS_Subset, FS_CardinalityType
    <3> HIDE DEF b, sz
    <3>4. Cardinality(CachedBytes') = Cardinality(CachedBytes) + sz
      <4>1. Cardinality(CachedBytes \cap Bytes(b)) = 0
        <5>1. CachedBytes \cap Bytes(b) = {} BY <3>1
        <5> QED BY <5>1, FS_EmptySet
      <4>2. Cardinality(CachedBytes')
              = Cardinality(CachedBytes) + Cardinality(Bytes(b))
                  - Cardinality(CachedBytes \cap Bytes(b))
        BY <3>1, <3>2, <3>3, FS_Union, Zenon
      <4>3. sz \in Nat BY <2>1, ClassSizeFacts
      <4> QED BY <3>2, <3>3, <4>1, <4>2, <4>3
    <3>5. ASSUME NEW x \in 0 .. (ArenaSize - 1), Listed(x)
          PROVE  (\E d \in free' \cup live' \cup lost' : In(x, d)) \/ x \in CachedBytes'
      BY <2>2, <2>3, <2>4, <3>1, <3>2, <3>5 DEF Listed
    <3> QED BY <1>1, <1>3, <1>10, <2>4, <3>1, <3>4, <3>5
  <2>5. CASE /\ free' = InsertFreeSortedAndCoalesce(b)
             /\ cached' = cached /\ classCached' = classCached /\ lost' = lost
    <3> HIDE DEF b, sz
    <3>1. ASSUME NEW x \in 0 .. (ArenaSize - 1), Listed(x)
          PROVE  \E d \in free' \cup live' \cup lost' : In(x, d)
      <4>1. x \in Nat BY <1>0
      <4>2. CASE \E d \in (live \ {s}) \cup lost : In(x, d) BY <4>2, <2>2, <2>5
      <4>3. CASE In(x, s) \/ \E f \in free : In(x, f)
        <5>1. \E g \in free' : In(x, g) BY <1>0, <2>1, <2>3, <2>5, <4>1, <4>3, InsertCovers
        <5> QED BY <5>1
      <4> QED BY <3>1, <4>2, <4>3 DEF Listed
    <3> QED BY <1>1, <1>2, <1>3, <1>10, <2>5, <3>1
  <2>6. CASE /\ lost' = lost \cup {b}
             /\ free' = free /\ cached' = cached /\ classCached' = classCached
    <3> HIDE DEF b, sz
    <3>1. ASSUME NEW x \in 0 .. (ArenaSize - 1), Listed(x)
          PROVE  \E d \in free' \cup live' \cup lost' : In(x, d)
      BY <2>2, <2>3, <2>6, <3>1 DEF Listed
    <3> QED BY <1>1, <1>2, <1>3, <1>10, <2>6, <3>1
  <2> QED BY <2>2, <2>4, <2>5, <2>6
<1>11. CASE \/ InitializeFails \/ AllocateWithoutArena \/ AllocateReclaim \/ AllocateFail
            \/ \E size \in Sizes : \E top \in Directions(size) : AllocateEnter(size, top)
            \/ \E s \in live : FreeEnter(s)
            \/ UNCHANGED arenaVars
  <2>1. UNCHANGED <<phase, free, cached, live, lost, classCached>> BY <1>11, QuietStep
  <2> QED BY <1>1, <1>2, <1>3, <2>1 DEF Listed
<1> QED BY <1>4, <1>5, <1>6, <1>7, <1>8, <1>9, <1>10, <1>11 DEF ArenaNext

\* BytesInv holds in every reachable state.
LEMMA BytesInvariance == ArenaSpec => []BytesInv
<1>1. ArenaInit => BytesInv
  <2> SUFFICES ASSUME ArenaInit PROVE BytesInv OBVIOUS
  <2>1. \A c \in ClassSizes : 1 .. Len(cached[c]) = {} BY DEF ArenaInit
  <2>2. CachedBytes = {} BY <2>1 DEF CachedBytes
  <2>3. phase # "up" /\ classCached = 0 BY DEF ArenaInit
  <2> QED BY <2>2, <2>3, FS_EmptySet DEF BytesInv
<1>2. ArenaInv /\ ShapeInv /\ BytesInv /\ [ArenaNext]_arenaVars => BytesInv' BY BytesStep
<1> QED BY <1>1, <1>2, ArenaInvariance, ShapeInvariance, PTL DEF ArenaSpec

-----------------------------------------------------------------------------
(* What a refusal means *)

\* A hole that only free blocks cover is inside one of them.
LEMMA HoleFits ==
    ASSUME free \subseteq Block, FreeApart, FreeListCoalesced,
           NEW n \in Nat \ {0}, NEW a \in Nat, a + n <= ArenaSize,
           \A x \in a .. (a + n - 1) : \E f \in free : In(x, f)
    PROVE  Fitting(n) # {}
<1>1. PICK f \in free : In(a, f) OBVIOUS
<1>2. f.addr \in Nat /\ f.size \in Nat /\ End(f) \in Nat /\ End(f) = f.addr + f.size
      /\ f.addr <= a /\ a < End(f)
  BY <1>1 DEF Block, End, In
<1>3. CASE a + n <= End(f)
  <2>1. f.size >= n BY <1>2, <1>3
  <2> QED BY <2>1 DEF Fitting
<1>4. CASE ~ (a + n <= End(f))
  <2>1. End(f) \in a .. (a + n - 1) BY <1>2, <1>4
  <2>2. PICK g \in free : In(End(f), g) BY <2>1
  <2>3. g.addr \in Nat /\ End(g) \in Nat /\ g.addr <= End(f) /\ End(f) < End(g)
    BY <2>2 DEF Block, End, In
  <2>4. g # f BY <1>2, <2>3
  <2>5. End(f) <= g.addr \/ End(g) <= f.addr BY <2>4 DEF FreeApart, Apart
  <2>6. g.addr = End(f) BY <1>2, <2>3, <2>5
  <2> QED BY <2>6 DEF FreeListCoalesced
<1> QED BY <1>3, <1>4

\* A refusal finds every hole taken.
LEMMA RefusalJustified ==
    ASSUME ArenaInv, ShapeInv, BytesInv, AllocateFail
    PROVE  \A a \in 0 .. (ArenaSize - need) :
              \E s \in live \cup lost : ~ Apart([addr |-> a, size |-> need], s)
<1>1. call.stage \in {"search", "drain"} /\ Fitting(need) = {}
  BY DEF AllocateFail, Searching
<1>2. need \in Nat \ {0} /\ phase = "up" BY <1>1, CallFacts
<1>3. PICK n \in Nat \ {0} : n = need BY <1>2
<1>4. /\ free \subseteq Block /\ FreeApart /\ FreeListCoalesced /\ ArenaSize \in Nat
      /\ \A s \in live \cup lost : Solid(s)
  BY ArenaAssumption
  DEF ArenaInv, ArenaTypeOK, NoOverlap, ShapeInv, Block, Solid
<1>5. CachedBytes = {}
  <2>1. CASE classCached = 0
    <3>1. IsFiniteSet(CachedBytes)
      <4>1. ArenaSize - 1 \in Int /\ 0 \in Int BY <1>4
      <4>2. IsFiniteSet(0 .. (ArenaSize - 1)) BY <4>1, FS_Interval
      <4>3. CachedBytes \subseteq 0 .. (ArenaSize - 1) BY DEF CachedBytes
      <4> QED BY <4>2, <4>3, FS_Subset
    <3> QED BY <2>1, <3>1, FS_EmptySet DEF BytesInv
  <2>2. CASE CacheEmpty
    <3>1. \A c \in ClassSizes : Len(cached[c]) = 0 BY <2>2, EmptySeq DEF CacheEmpty
    <3> QED BY <3>1 DEF CachedBytes
  <2> QED BY <2>1, <2>2 DEF AllocateFail, Searching
<1> SUFFICES ASSUME NEW a \in 0 .. (ArenaSize - n),
                    \A s \in live \cup lost : Apart([addr |-> a, size |-> n], s)
             PROVE  FALSE
  BY <1>3
<1> DEFINE hole == [addr |-> a, size |-> n]
<1>6. a \in Nat /\ a + n <= ArenaSize BY <1>4
<1>7. Solid(hole) BY <1>6 DEF Solid
<1>8. ASSUME NEW x \in a .. (a + n - 1) PROVE \E f \in free : In(x, f)
  <2>1. x \in 0 .. (ArenaSize - 1) /\ x \in Nat /\ a <= x /\ x < a + n BY <1>4, <1>6
  <2>2. In(x, hole) BY <2>1 DEF In, End
  <2>3. Listed(x) BY <1>2, <1>5, <2>1 DEF BytesInv
  <2>4. \A s \in live \cup lost : ~ In(x, s)
    BY <1>4, <1>7, <2>1, <2>2, ApartBytes
  <2> QED BY <2>3, <2>4 DEF Listed
<1>9. Fitting(n) # {} BY <1>4, <1>6, <1>8, HoleFits
<1> QED BY <1>1, <1>3, <1>9

\* Allocate refuses only what could not be granted, for every arena, every
\* mix of sizes and every limit of the caches and of the node pool.
THEOREM FailureJustifiedAlways == ArenaSpec => FailureJustified
<1>1. ArenaInv /\ ShapeInv /\ BytesInv /\ [ArenaNext]_arenaVars
        => [(phase = "up" /\ failures' # failures) =>
              \A a \in 0 .. (ArenaSize - need) :
                  \E s \in live \cup lost : ~Apart([addr |-> a, size |-> need], s)]_arenaVars
  <2> SUFFICES ASSUME ArenaInv, ShapeInv, BytesInv, [ArenaNext]_arenaVars,
                      phase = "up", failures' # failures
               PROVE  AllocateFail
    BY RefusalJustified
  <2> QED BY DEF ArenaNext, arenaVars, arenaCounters, Initialize, InitializeFails, Shutdown,
                 AllocateWithoutArena, AllocateEnter, AllocateReuse, AllocateCarve,
                 AllocateReclaim, ReclaimCacheBlock, FreeEnter, FreeLocked, GrantSlot
<1> QED BY <1>1, ArenaInvariance, ShapeInvariance, BytesInvariance, PTL
        DEF ArenaSpec, FailureJustified

-----------------------------------------------------------------------------
(* What the list operations do to the sums *)

\* A carve moves the size of the slot out of the sum of the list.
LEMMA TakeSum ==
    ASSUME free \subseteq Block, IsFiniteSet(free), FreeApart,
           NEW n \in Nat \ {0}, NEW f \in Fitting(n), NEW top \in BOOLEAN
    PROVE  /\ SizeSum(free) = SizeSum(FreeAfterTake(f, n, top)) + TakenSlot(f, n, top).size
           /\ SizeSum(FreeAfterTake(f, n, top)) \in Nat
<1> DEFINE rest == Remainder(f, n, top)
<1>1. f \in free /\ f \in Block /\ f.size >= n /\ f.size \in Nat BY DEF Fitting, Block
<1>2. \A x \in free : x.size \in Nat BY DEF Block
<1>3. /\ SizeSum(free) = f.size + SizeSum(free \ {f}) /\ SizeSum(free \ {f}) \in Nat
      /\ IsFiniteSet(free \ {f})
  BY <1>1, <1>2, SizeMinus
<1>4. CASE TakesWhole(f, n)
  <2>1. FreeAfterTake(f, n, top) = free \ {f} /\ TakenSlot(f, n, top).size = f.size
    BY <1>4 DEF FreeAfterTake, TakenSlot
  <2> QED BY <2>1, <1>1, <1>3
<1>5. CASE ~ TakesWhole(f, n)
  <2>1. FreeAfterTake(f, n, top) = (free \ {f}) \cup {rest} BY <1>5 DEF FreeAfterTake
  <2>2. rest \in Block /\ f.addr <= rest.addr /\ End(rest) <= End(f)
    BY <1>1, <1>5, TakeParts
  <2>3. TakenSlot(f, n, top).size = n /\ rest.size = f.size - n
    BY <1>5 DEF TakenSlot, Remainder
  <2> HIDE DEF rest
  <2>4. ~ Apart(rest, f)
    <3>1. /\ rest.addr \in Nat /\ rest.addr < End(rest) /\ End(rest) \in Nat
          /\ f.addr \in Nat /\ f.addr < End(f) /\ End(f) \in Nat
      BY <1>1, <2>2 DEF Block, End
    <3> QED BY <2>2, <3>1 DEF Apart
  <2>5. rest \notin free \ {f} /\ rest.size \in Nat BY <2>2, <2>4, <1>1 DEF FreeApart, Block
  <2>6. SizeSum((free \ {f}) \cup {rest}) = SizeSum(free \ {f}) + rest.size
    BY <1>2, <1>3, <2>5, SizePlus
  <2> QED BY <2>1, <2>3, <2>5, <2>6, <1>1, <1>3
<1> QED BY <1>4, <1>5

\* Taking out a set of at most one element.
LEMMA SidesSum ==
    ASSUME NEW T, IsFiniteSet(T), \A x \in T : x.size \in Nat,
           NEW X, X \subseteq T, \A x, y \in X : x = y
    PROVE  /\ SizeSum(T) = SizeSum(T \ X) + (IF X = {} THEN 0 ELSE (CHOOSE x \in X : TRUE).size)
           /\ SizeSum(T \ X) \in Nat /\ IsFiniteSet(T \ X)
<1>1. CASE X = {}
  <2>1. T \ X = T BY <1>1
  <2>2. SizeSum(T) \in Nat BY SizeType
  <2> QED BY <1>1, <2>1, <2>2
<1>2. CASE X # {}
  <2>1. PICK a \in T : a \in X /\ a = CHOOSE x \in X : TRUE BY <1>2
  <2>2. X = {a} BY <2>1
  <2>3. /\ SizeSum(T) = a.size + SizeSum(T \ {a}) /\ SizeSum(T \ {a}) \in Nat
        /\ IsFiniteSet(T \ {a}) /\ a.size \in Nat
    BY SizeMinus
  <2>4. SizeSum(T) = SizeSum(T \ X) + a.size BY <2>2, <2>3
  <2> QED BY <1>2, <2>1, <2>2, <2>3, <2>4
<1> QED BY <1>1, <1>2

\* An insertion adds the size of the block, whatever it joins.
LEMMA InsertSum ==
    ASSUME free \subseteq Block, IsFiniteSet(free), FreeApart,
           NEW b \in Block, \A f \in free : Apart(b, f)
    PROVE  /\ SizeSum(InsertFreeSortedAndCoalesce(b)) = SizeSum(free) + b.size
           /\ SizeSum(free) \in Nat
<1> DEFINE lo == IF LeftOf(b) = {} THEN b.addr ELSE (CHOOSE l \in LeftOf(b) : TRUE).addr
           hi == IF RightOf(b) = {} THEN End(b) ELSE End(CHOOSE r \in RightOf(b) : TRUE)
           j == [addr |-> lo, size |-> hi - lo]
           left == IF LeftOf(b) = {} THEN 0 ELSE (CHOOSE l \in LeftOf(b) : TRUE).size
           right == IF RightOf(b) = {} THEN 0 ELSE (CHOOSE r \in RightOf(b) : TRUE).size
           rest == (free \ LeftOf(b)) \ RightOf(b)
<1>1. InsertFreeSortedAndCoalesce(b) = rest \cup {j} BY DEF InsertFreeSortedAndCoalesce
<1>2. /\ b.addr \in Nat /\ b.size \in Nat /\ End(b) = b.addr + b.size /\ b.addr < End(b)
      /\ \A f \in free : /\ f.addr \in Nat /\ f.size \in Nat \ {0} /\ End(f) = f.addr + f.size
  BY DEF Block, End
<1>3. /\ LeftOf(b) \subseteq free /\ RightOf(b) \subseteq free
      /\ \A f \in LeftOf(b) : End(f) = b.addr
      /\ \A f \in RightOf(b) : f.addr = End(b)
  BY DEF LeftOf, RightOf
<1>4. \A f, g \in free : f # g => End(f) <= g.addr \/ End(g) <= f.addr
  BY DEF FreeApart, Apart
<1>5. (\A x, y \in LeftOf(b) : x = y) /\ (\A x, y \in RightOf(b) : x = y)
      /\ LeftOf(b) \cap RightOf(b) = {}
  BY <1>2, <1>3, <1>4
<1>6. lo \in Nat /\ left \in Nat /\ b.addr - lo = left
  <2>1. CASE LeftOf(b) = {} BY <2>1, <1>2
  <2>2. CASE LeftOf(b) # {}
    <3>1. PICK l \in LeftOf(b) : l = CHOOSE k \in LeftOf(b) : TRUE BY <2>2
    <3>2. lo = l.addr /\ left = l.size BY <2>2, <3>1
    <3> QED BY <3>2, <1>2, <1>3
  <2> QED BY <2>1, <2>2
<1>7. hi \in Nat /\ right \in Nat /\ hi - End(b) = right
  <2>1. CASE RightOf(b) = {} BY <2>1, <1>2
  <2>2. CASE RightOf(b) # {}
    <3>1. PICK r \in RightOf(b) : r = CHOOSE k \in RightOf(b) : TRUE BY <2>2
    <3>2. hi = End(r) /\ right = r.size BY <2>2, <3>1
    <3> QED BY <3>2, <1>2, <1>3
  <2> QED BY <2>1, <2>2
<1>8. /\ SizeSum(free) = SizeSum(free \ LeftOf(b)) + left
      /\ SizeSum(free \ LeftOf(b)) \in Nat /\ IsFiniteSet(free \ LeftOf(b))
  <2> PICK L : L = LeftOf(b) OBVIOUS
  <2>1. /\ SizeSum(free) = SizeSum(free \ L) + (IF L = {} THEN 0 ELSE (CHOOSE x \in L : TRUE).size)
        /\ SizeSum(free \ L) \in Nat /\ IsFiniteSet(free \ L)
    BY <1>2, <1>3, <1>5, SidesSum
  <2> QED BY <2>1
<1>9. /\ SizeSum(free \ LeftOf(b)) = SizeSum(rest) + right
      /\ SizeSum(rest) \in Nat /\ IsFiniteSet(rest)
  <2> PICK T : T = free \ LeftOf(b) OBVIOUS
  <2> PICK R : R = RightOf(b) OBVIOUS
  <2>1. /\ SizeSum(T) = SizeSum(T \ R) + (IF R = {} THEN 0 ELSE (CHOOSE x \in R : TRUE).size)
        /\ SizeSum(T \ R) \in Nat /\ IsFiniteSet(T \ R)
    <3>1. R \subseteq T /\ (\A x \in T : x.size \in Nat) /\ \A x, y \in R : x = y
      BY <1>2, <1>3, <1>5
    <3> QED BY <1>8, <3>1, SidesSum
  <2> QED BY <2>1
<1> HIDE DEF lo, hi, left, right
<1>10. j.size = left + b.size + right /\ j.size \in Nat BY <1>2, <1>6, <1>7
<1>11. j \notin free
  <2>1. j.addr = lo /\ End(j) = hi /\ lo <= b.addr /\ End(b) <= hi BY <1>2, <1>6, <1>7 DEF End
  <2>2. ~ Apart(b, j) BY <2>1, <1>2, <1>6, <1>7 DEF Apart
  <2> QED BY <2>2
<1> HIDE DEF j
<1>12. SizeSum(rest \cup {j}) = SizeSum(rest) + j.size
  <2>1. j \notin rest /\ \A x \in rest : x.size \in Nat BY <1>2, <1>11
  <2> QED BY <1>9, <1>10, <2>1, SizePlus
<1> HIDE DEF rest
<1> QED BY <1>1, <1>2, <1>6, <1>7, <1>8, <1>9, <1>10, <1>12

-----------------------------------------------------------------------------
(* What an empty node pool dropped *)

\* A dropped range belongs to nobody any more.
Nobodys(x) ==
    /\ \A f \in free : Apart(x, f)
    /\ \A s \in live : Apart(x, s)
    /\ \A c \in ClassSizes : \A i \in 1 .. Len(cached[c]) : Apart(x, CachedBlock(c, i))

LostInv ==
    /\ phase = "new" => lost = {}
    /\ phase = "up" => \A x \in lost : Nobodys(x)

\* A block that leaves a cache is apart from all that stays.
LEMMA PoppedApart ==
    ASSUME ArenaInv, NEW k \in ClassSizes, cached[k] # <<>>,
           cached' = [cached EXCEPT ![k] = Pop(@)]
    PROVE  LET b == [addr |-> Top(cached[k]), size |-> k]
           IN  /\ \A f \in free : Apart(b, f)
               /\ \A s \in live : Apart(b, s)
               /\ \A c \in ClassSizes : \A i \in 1 .. Len(cached'[c]) : Apart(b, CachedBlock(c, i)')
<1> DEFINE b == [addr |-> Top(cached[k]), size |-> k]
<1>1. ArenaTypeOK /\ CachedApart BY DEF ArenaInv, NoOverlap
<1>2. PICK n \in 1 .. Len(cached[k]) : n = Len(cached[k]) /\ b = CachedBlock(k, n)
  BY <1>1, PopCached
<1>3. /\ \A f \in free : Apart(b, f)
      /\ \A s \in live : Apart(b, s)
      /\ \A d \in ClassSizes : \A j \in 1 .. Len(cached[d]) :
            <<k, n>> # <<d, j>> => Apart(b, CachedBlock(d, j))
  BY <1>1, <1>2 DEF CachedApart
<1>4. \A c \in ClassSizes : \A i \in 1 .. Len(cached'[c]) :
         /\ i \in 1 .. Len(cached[c]) /\ <<c, i>> # <<k, n>>
         /\ CachedBlock(c, i)' = CachedBlock(c, i)
  BY <1>1, <1>2, PopCached
<1> HIDE DEF b
<1>5. \A c \in ClassSizes : \A i \in 1 .. Len(cached'[c]) : Apart(b, CachedBlock(c, i)')
  BY <1>3, <1>4
<1> QED BY <1>3, <1>5 DEF b

\* What is dropped stays apart from the lists and the slots.
LEMMA LostStep ==
    ASSUME ArenaInv, ShapeInv, LostInv, [ArenaNext]_arenaVars PROVE LostInv'
<1>0. /\ free \subseteq Block /\ IsFiniteSet(free) /\ FreeApart /\ ArenaTypeOK
      /\ \A x \in lost : Solid(x)
  BY DEF ArenaInv, ArenaTypeOK, NoOverlap, Block, Solid
<1>1. /\ phase = "new" => lost = {}
      /\ phase = "up" => \A x \in lost :
            /\ \A f \in free : Apart(x, f)
            /\ \A s \in live : Apart(x, s)
            /\ \A c \in ClassSizes : \A i \in 1 .. Len(cached[c]) : Apart(x, CachedBlock(c, i))
  BY DEF LostInv, Nobodys
<1>2. ASSUME phase' = "up",
             \A x \in lost' :
                /\ \A f \in free' : Apart(x, f)
                /\ \A s \in live' : Apart(x, s)
                /\ \A c \in ClassSizes : \A i \in 1 .. Len(cached'[c]) :
                      Apart(x, CachedBlock(c, i)')
      PROVE  LostInv'
  BY <1>2 DEF LostInv, Nobodys, Apart, End
<1>3. ASSUME cached' = cached
      PROVE  \A c \in ClassSizes : \A i \in 1 .. Len(cached'[c]) :
                i \in 1 .. Len(cached[c]) /\ CachedBlock(c, i)' = CachedBlock(c, i)
  BY <1>3 DEF CachedBlock
<1>4. CASE Initialize
  <2>1. phase' = "up" /\ lost' = {} BY <1>1, <1>4 DEF Initialize
  <2> QED BY <1>2, <2>1
<1>5. CASE Shutdown BY <1>5 DEF Shutdown, LostInv
<1>6. CASE AllocateReuse
  <2> DEFINE b == [addr |-> Top(cached[need]), size |-> need]
             slot == [addr |-> b.addr, size |-> b.size, req |-> call.size]
  <2>1. /\ call.stage \in {"search", "drain"} /\ cached[need] # <<>>
        /\ cached' = [cached EXCEPT ![need] = Pop(@)]
        /\ free' = free /\ lost' = lost /\ phase' = phase /\ live' = live \cup {slot}
    BY <1>6 DEF AllocateReuse, GrantSlot
  <2>2. need \in ClassSizes /\ phase = "up" BY <2>1, CallFacts
  <2>3. PICK k \in ClassSizes : k = need BY <2>2
  <2>4. /\ Len(cached[k]) \in 1 .. Len(cached[k]) /\ b = CachedBlock(k, Len(cached[k]))
        /\ \A c \in ClassSizes : \A i \in 1 .. Len(cached'[c]) :
              i \in 1 .. Len(cached[c]) /\ CachedBlock(c, i)' = CachedBlock(c, i)
    BY <1>0, <2>1, <2>3, PopCached
  <2>5. \A x : Apart(x, b) => Apart(x, slot) BY DEF Apart, End
  <2> HIDE DEF b, slot
  <2>6. \A x \in lost : Apart(x, slot) BY <1>1, <2>2, <2>4, <2>5
  <2> QED BY <1>1, <1>2, <2>1, <2>2, <2>4, <2>6
<1>7. CASE AllocateCarve
  <2>1. call.stage \in {"search", "drain"} BY <1>7 DEF AllocateCarve, Searching
  <2>2. need \in Nat \ {0} /\ call.top \in BOOLEAN /\ phase = "up" BY <2>1, CallFacts
  <2>3. cached' = cached BY <1>7 DEF AllocateCarve
  <2>4. PICK f \in Fitting(need) :
           /\ free' = FreeAfterTake(f, need, call.top)
           /\ GrantSlot(TakenSlot(f, need, call.top))
    BY <1>7 DEF AllocateCarve
  <2> DEFINE b == TakenSlot(f, need, call.top)
             slot == [addr |-> b.addr, size |-> b.size, req |-> call.size]
  <2>5. live' = live \cup {slot} /\ lost' = lost /\ phase' = phase BY <2>4 DEF GrantSlot
  <2>6. \A x : Apart(x, b) => Apart(x, slot) BY DEF Apart, End
  <2>7. \A x : Solid(x) /\ (\A g \in free : Apart(x, g))
                  => Apart(x, b) /\ \A g \in free' : Apart(x, g)
    BY <1>0, <2>2, <2>4, TakeFacts
  <2> HIDE DEF b, slot
  <2> QED BY <1>0, <1>1, <1>2, <1>3, <2>2, <2>3, <2>5, <2>6, <2>7
<1>8. CASE ReclaimCacheBlock
  <2>0. PICK i \in 1 .. Len(classSizes) :
           LET c == classSizes[i]
               b == [addr |-> Top(cached[c]), size |-> c]
           IN  /\ cached[c] # <<>>
               /\ cached' = [cached EXCEPT ![c] = Pop(@)]
               /\ IF nodes > 0
                  THEN free' = InsertFreeSortedAndCoalesce(b) /\ UNCHANGED lost
                  ELSE lost' = lost \cup {b} /\ UNCHANGED free
    BY <1>8 DEF ReclaimCacheBlock, DrainsNext
  <2>1. PICK k \in ClassSizes : k = classSizes[i] BY <1>0 DEF ArenaTypeOK
  <2> DEFINE b == [addr |-> Top(cached[k]), size |-> k]
  <2>2. b \in Block /\ End(b) <= ArenaSize /\ \A f \in free : Apart(b, f)
    BY <2>0, <2>1, TopBlock
  <2>3. /\ cached[k] # <<>> /\ cached' = [cached EXCEPT ![k] = Pop(@)]
        /\ \/ free' = InsertFreeSortedAndCoalesce(b) /\ lost' = lost
           \/ free' = free /\ lost' = lost \cup {b}
    BY <2>0, <2>1
  <2>4. live' = live /\ phase' = phase /\ phase = "up"
    BY <1>8, CallFacts DEF ReclaimCacheBlock
  <2>5. /\ \A s \in live : Apart(b, s)
        /\ \A c \in ClassSizes : \A j \in 1 .. Len(cached'[c]) : Apart(b, CachedBlock(c, j)')
    BY <2>3, PoppedApart
  <2>6. /\ Len(cached[k]) \in 1 .. Len(cached[k]) /\ b = CachedBlock(k, Len(cached[k]))
        /\ \A c \in ClassSizes : \A j \in 1 .. Len(cached'[c]) :
              j \in 1 .. Len(cached[c]) /\ CachedBlock(c, j)' = CachedBlock(c, j)
    BY <1>0, <2>3, PopCached
  <2> HIDE DEF b
  <2>7. CASE free' = free /\ lost' = lost \cup {b}
    BY <1>1, <1>2, <2>2, <2>4, <2>5, <2>6, <2>7
  <2>8. CASE free' = InsertFreeSortedAndCoalesce(b) /\ lost' = lost
    <3>1. \A x \in lost : Apart(x, b) BY <1>1, <2>4, <2>6
    <3>2. \A x \in lost : \A g \in free' : Apart(x, g)
      BY <1>0, <1>1, <2>2, <2>4, <2>8, <3>1, InsertFacts
    <3> QED BY <1>1, <1>2, <2>4, <2>6, <2>8, <3>2
  <2> QED BY <2>3, <2>7, <2>8
<1>9. ASSUME NEW s \in freeing, FreeLocked(s), phase # "up" PROVE LostInv'
  <2>1. phase = "down" BY <1>9 DEF ArenaInv, ArenaTypeOK, PhaseOK
  <2>2. phase' = phase BY <1>9, LateFree
  <2> QED BY <2>1, <2>2 DEF LostInv
<1>10. ASSUME NEW s \in freeing, FreeLocked(s), phase = "up" PROVE LostInv'
  <2> DEFINE sz == AlignUp(s.req)
             b == [addr |-> s.addr, size |-> sz]
  <2>1. /\ b \in Block /\ sz \in ClassSizes /\ s.addr \in Nat /\ s \in live
        /\ End(b) = End(s) /\ End(b) <= ArenaSize /\ b.addr = s.addr
        /\ \A f \in free : Apart(b, f)
        /\ \A c \in ClassSizes : \A i \in 1 .. Len(cached[c]) : Apart(CachedBlock(c, i), b)
    BY <1>10, FreedBlock DEF Block
  <2>2. /\ phase' = phase /\ live' = live \ {s}
        /\ \/ /\ cached' = [cached EXCEPT ![sz] = Append(@, s.addr)]
              /\ free' = free /\ lost' = lost
           \/ /\ free' = InsertFreeSortedAndCoalesce(b)
              /\ cached' = cached /\ lost' = lost
           \/ /\ lost' = lost \cup {b}
              /\ free' = free /\ cached' = cached
    BY <1>10 DEF FreeLocked
  <2>3. \A x \in lost : Apart(x, b) BY <1>1, <1>10, <2>1 DEF Apart
  <2>4. CASE /\ cached' = [cached EXCEPT ![sz] = Append(@, s.addr)]
             /\ free' = free /\ lost' = lost
    <3>1. \A c \in ClassSizes : \A i \in 1 .. Len(cached'[c]) :
             \/ i \in 1 .. Len(cached[c]) /\ CachedBlock(c, i)' = CachedBlock(c, i)
             \/ CachedBlock(c, i)' = b
      BY <1>0, <2>1, <2>4, PushCached
    <3> HIDE DEF b, sz
    <3> QED BY <1>1, <1>2, <1>10, <2>2, <2>3, <2>4, <3>1
  <2>5. CASE /\ free' = InsertFreeSortedAndCoalesce(b)
             /\ cached' = cached /\ lost' = lost
    <3> HIDE DEF b, sz
    <3>1. \A x \in lost : \A g \in free' : Apart(x, g)
      BY <1>0, <1>1, <1>10, <2>1, <2>3, <2>5, InsertFacts
    <3> QED BY <1>1, <1>2, <1>3, <1>10, <2>2, <2>5, <3>1
  <2>6. CASE /\ lost' = lost \cup {b}
             /\ free' = free /\ cached' = cached
    <3>1. \A t \in live' : Apart(b, t)
      <4>1. \A t \in live : s # t => Apart(s, t) BY <2>1 DEF ArenaInv, NoOverlap, LiveApart
      <4> QED BY <2>1, <2>2, <4>1 DEF Apart
    <3> HIDE DEF b, sz
    <3>2. \A c \in ClassSizes : \A i \in 1 .. Len(cached[c]) : Apart(b, CachedBlock(c, i))
      BY <2>1, ApartSym
    <3> QED BY <1>1, <1>2, <1>3, <1>10, <2>1, <2>2, <2>6, <3>1, <3>2
  <2> QED BY <2>2, <2>4, <2>5, <2>6
<1>11. CASE \/ InitializeFails \/ AllocateWithoutArena \/ AllocateReclaim \/ AllocateFail
            \/ \E size \in Sizes : \E top \in Directions(size) : AllocateEnter(size, top)
            \/ \E s \in live : FreeEnter(s)
            \/ UNCHANGED arenaVars
  <2>1. UNCHANGED <<phase, free, cached, live, lost>> BY <1>11, QuietStep
  <2> QED BY <1>1, <2>1 DEF LostInv, Nobodys, CachedBlock, Apart, End
<1> QED BY <1>4, <1>5, <1>6, <1>7, <1>8, <1>9, <1>10, <1>11 DEF ArenaNext

\* LostInv holds in every reachable state.
LEMMA LostInvariance == ArenaSpec => []LostInv
<1>1. ArenaInit => LostInv BY DEF ArenaInit, LostInv
<1>2. ArenaInv /\ ShapeInv /\ LostInv /\ [ArenaNext]_arenaVars => LostInv' BY LostStep
<1> QED BY <1>1, <1>2, ArenaInvariance, ShapeInvariance, PTL DEF ArenaSpec

-----------------------------------------------------------------------------
(* The statistics *)

\* The books: the sums of StatsAddUp, and what they are before Initialize.
SumInv ==
    /\ IsFiniteSet(live) /\ IsFiniteSet(lost)
    /\ reused <= granted
    /\ phase = "new" => /\ liveRequested = 0 /\ classCached = 0
                        /\ granted = 0 /\ freed = 0 /\ lost = {}
    /\ phase = "up" =>
          /\ SizeSum(free) + used + classCached + SizeSum(lost) = ArenaSize
          /\ used = SizeSum(live) /\ liveRequested = ReqSum(live)
          /\ active = Cardinality(live) /\ granted = used + freed

\* A slot that is handed out enters the sums.
LEMMA GrantSums ==
    ASSUME ArenaInv, SumInv, call.stage \in {"search", "drain"},
           NEW slot \in Block, slot.size >= need, GrantSlot(slot),
           \A s \in live : Apart(slot, s)
    PROVE  /\ phase' = "up" /\ used' = used + slot.size /\ used' = SizeSum(live')
           /\ liveRequested' = ReqSum(live') /\ active' = Cardinality(live')
           /\ granted' = used' + freed' /\ granted' = granted + slot.size
           /\ lost' = lost /\ IsFiniteSet(live')
<1> DEFINE s == [addr |-> slot.addr, size |-> slot.size, req |-> call.size]
<1>1. phase = "up" /\ call.size \in Nat
  BY CallFacts, ArenaAssumption
<1>2. /\ used' = used + s.size /\ liveRequested' = liveRequested + s.req
      /\ active' = active + 1 /\ granted' = granted + s.size
      /\ live' = live \cup {s} /\ UNCHANGED <<phase, freed, lost>>
  BY DEF GrantSlot
<1>3. s.size \in Nat /\ s.req \in Nat /\ s.size = slot.size BY <1>1 DEF Block
<1>4. s \notin live
  <2>1. slot.addr \in Nat /\ slot.size \in Nat \ {0} BY DEF Block
  <2>2. ~ Apart(slot, s) BY <2>1 DEF Apart, End
  <2> QED BY <2>2
<1> HIDE DEF s
<1>5. \A x \in live : x.size \in Nat /\ x.req \in Nat
  BY ArenaAssumption DEF ArenaInv, ArenaTypeOK
<1>6. /\ IsFiniteSet(live) /\ used = SizeSum(live) /\ liveRequested = ReqSum(live)
      /\ active = Cardinality(live) /\ granted = used + freed
  BY <1>1 DEF SumInv
<1>7. SizeSum(live \cup {s}) = SizeSum(live) + s.size BY <1>3, <1>4, <1>5, <1>6, SizePlus
<1>8. ReqSum(live \cup {s}) = ReqSum(live) + s.req BY <1>3, <1>4, <1>5, <1>6, ReqPlus
<1>9. IsFiniteSet(live \cup {s}) /\ Cardinality(live \cup {s}) = Cardinality(live) + 1
  BY <1>4, <1>6, FS_AddElement
<1>10. used \in Nat /\ freed \in Nat BY DEF ArenaInv, ArenaTypeOK
<1> QED BY <1>1, <1>2, <1>3, <1>6, <1>7, <1>8, <1>9, <1>10

\* A range that nobody takes back is new among those dropped.
LEMMA DropSum ==
    ASSUME ArenaInv, SumInv, NEW b \in Block, \A x \in lost : Apart(x, b)
    PROVE  /\ SizeSum(lost \cup {b}) = SizeSum(lost) + b.size /\ SizeSum(lost) \in Nat
           /\ IsFiniteSet(lost \cup {b})
<1>1. b.addr \in Nat /\ b.size \in Nat \ {0} BY DEF Block
<1>2. ~ Apart(b, b) BY <1>1 DEF Apart, End
<1>3. IsFiniteSet(lost) /\ b \notin lost /\ \A x \in lost : x.size \in Nat
  BY <1>2 DEF SumInv, ArenaInv, ArenaTypeOK
<1> QED BY <1>1, <1>3, SizePlus, FS_AddElement

\* A slot that comes back leaves the sums, and no counter saturates.
LEMMA ReturnSums ==
    ASSUME ArenaInv, ShapeInv, SumInv, phase = "up", NEW s \in freeing, FreeLocked(s)
    PROVE  LET sz == AlignUp(s.req)
           IN  /\ sz \in Nat /\ used = used' + sz /\ used' = SizeSum(live')
               /\ liveRequested' = ReqSum(live') /\ active' = Cardinality(live')
               /\ granted' = used' + freed' /\ IsFiniteSet(live') /\ used' \in Nat
<1>1. PICK sz \in Nat : sz = AlignUp(s.req) BY FreedBlock
<1>2. s \in live /\ s.size = sz BY <1>1, FreedBlock
<1>3. /\ used' = Saturate(used, sz) /\ liveRequested' = Saturate(liveRequested, s.req)
      /\ active' = Saturate(active, 1) /\ freed' = freed + sz /\ granted' = granted
      /\ live' = live \ {s}
  BY <1>1 DEF FreeLocked
<1>4. \A x \in live : x.size \in Nat /\ x.req \in Nat
  BY ArenaAssumption DEF ArenaInv, ArenaTypeOK
<1>5. /\ IsFiniteSet(live) /\ used = SizeSum(live) /\ liveRequested = ReqSum(live)
      /\ active = Cardinality(live) /\ granted = used + freed
  BY DEF SumInv
<1>6. /\ SizeSum(live) = s.size + SizeSum(live \ {s}) /\ SizeSum(live \ {s}) \in Nat
      /\ IsFiniteSet(live \ {s})
  BY <1>2, <1>4, <1>5, SizeMinus
<1>7. ReqSum(live) = s.req + ReqSum(live \ {s}) /\ ReqSum(live \ {s}) \in Nat /\ s.req \in Nat
  BY <1>2, <1>4, <1>5, ReqMinus
<1>8. /\ Cardinality(live \ {s}) = Cardinality(live) - 1 /\ Cardinality(live \ {s}) \in Nat
      /\ Cardinality(live) \in Nat
  BY <1>2, <1>5, <1>6, FS_RemoveElement, FS_CardinalityType
<1>9. used = sz + SizeSum(live') /\ used' = SizeSum(live') /\ used' \in Nat
  BY <1>2, <1>3, <1>5, <1>6 DEF Saturate
<1>10. liveRequested' = ReqSum(live') BY <1>3, <1>5, <1>7 DEF Saturate
<1>11. active' = Cardinality(live') BY <1>3, <1>5, <1>8 DEF Saturate
<1>12. granted' = used' + freed'
  <2>1. freed \in Nat BY DEF ArenaInv, ArenaTypeOK
  <2> QED BY <1>3, <1>5, <1>9, <2>1
<1> QED BY <1>1, <1>3, <1>6, <1>9, <1>10, <1>11, <1>12

\* Every step keeps the books.
LEMMA SumStep ==
    ASSUME ArenaInv, ShapeInv, BytesInv, LostInv, NothingOut, SumInv, [ArenaNext]_arenaVars
    PROVE  SumInv'
<1>0. /\ free \subseteq Block /\ IsFiniteSet(free) /\ FreeApart /\ ArenaTypeOK
      /\ ArenaSize \in Nat /\ \A x \in free \cup lost : x.size \in Nat
      /\ used \in Nat /\ classCached \in Nat /\ granted \in Nat /\ reused \in Nat
  BY ArenaAssumption DEF ArenaInv, ArenaTypeOK, NoOverlap, Block
<1>1. /\ IsFiniteSet(live) /\ IsFiniteSet(lost) /\ reused <= granted
      /\ phase = "up" => SizeSum(free) + used + classCached + SizeSum(lost) = ArenaSize
  BY DEF SumInv
<1>2. SizeSum(free) \in Nat /\ SizeSum(lost) \in Nat BY <1>0, <1>1, SizeType
<1>3. ASSUME phase' = "up", IsFiniteSet(live'), IsFiniteSet(lost'), reused' <= granted',
             SizeSum(free') + used' + classCached' + SizeSum(lost') = ArenaSize,
             used' = SizeSum(live'), liveRequested' = ReqSum(live'),
             active' = Cardinality(live'), granted' = used' + freed'
      PROVE  SumInv'
  BY <1>3 DEF SumInv
<1>4. CASE Initialize
  <2>1. /\ phase = "new" /\ phase' = "up" /\ live = {} /\ used = 0 /\ active = 0
        /\ lost = {} /\ liveRequested = 0 /\ classCached = 0 /\ granted = 0 /\ freed = 0
    BY <1>4 DEF Initialize, ArenaInv, PhaseOK, NothingOut, SumInv
  <2>2. /\ free' = {[addr |-> 0, size |-> ArenaSize]}
        /\ UNCHANGED <<used, liveRequested, classCached, active, granted, freed, reused,
                       live, lost>>
    BY <1>4 DEF Initialize, arenaCounters
  <2>3. SizeSum(free') = ArenaSize
    <3>1. PICK b : b = [addr |-> 0, size |-> ArenaSize] OBVIOUS
    <3>2. b.size = ArenaSize /\ free' = {} \cup {b} BY <2>2, <3>1
    <3>3. SizeSum({} \cup {b}) = SizeSum({}) + b.size BY <1>0, <3>2, FS_EmptySet, SizePlus
    <3> QED BY <1>0, <3>2, <3>3, NoSize
  <2>4. SizeSum(live') = 0 /\ SizeSum(lost') = 0 /\ ReqSum(live') = 0 /\ Cardinality(live') = 0
    BY <2>1, <2>2, NoSize, FS_EmptySet
  <2> QED BY <1>0, <1>1, <1>3, <2>1, <2>2, <2>3, <2>4
<1>5. CASE Shutdown
  <2>1. live' = {} /\ phase' = "down" /\ UNCHANGED <<reused, granted, lost>>
    BY <1>5 DEF Shutdown
  <2> QED BY <1>1, <2>1, FS_EmptySet DEF SumInv
<1>6. CASE AllocateReuse
  <2> DEFINE b == [addr |-> Top(cached[need]), size |-> need]
  <2>1. /\ call.stage \in {"search", "drain"} /\ cached[need] # <<>>
        /\ cached' = [cached EXCEPT ![need] = Pop(@)]
        /\ classCached' = DropCovered(classCached, need) /\ reused' = reused + need
        /\ free' = free /\ GrantSlot(b)
    BY <1>6 DEF AllocateReuse
  <2>2. need \in ClassSizes /\ need \in Nat /\ phase = "up" BY <2>1, CallFacts
  <2>3. classCached = classCached' + need /\ classCached' \in Nat
    BY <2>1, <2>2, PopCount DEF BytesInv
  <2>4. b \in Block /\ b.size = need BY <2>1, <2>2, TopBlock
  <2>5. \A s \in live : Apart(b, s)
    <3> PICK k \in ClassSizes : k = need BY <2>2
    <3> QED BY <2>1, PoppedApart
  <2> HIDE DEF b
  <2>6. /\ phase' = "up" /\ used' = used + need /\ used' = SizeSum(live')
        /\ liveRequested' = ReqSum(live') /\ active' = Cardinality(live')
        /\ granted' = used' + freed' /\ granted' = granted + need
        /\ lost' = lost /\ IsFiniteSet(live')
    BY <2>1, <2>2, <2>4, <2>5, GrantSums
  <2>7. reused' <= granted' BY <1>0, <1>1, <2>1, <2>2, <2>6
  <2>8. SizeSum(free') + used' + classCached' + SizeSum(lost') = ArenaSize
    BY <1>0, <1>1, <1>2, <2>1, <2>2, <2>3, <2>6
  <2> QED BY <1>1, <1>3, <2>6, <2>7, <2>8
<1>7. CASE AllocateCarve
  <2>1. call.stage \in {"search", "drain"} BY <1>7 DEF AllocateCarve, Searching
  <2>2. need \in Nat \ {0} /\ call.top \in BOOLEAN /\ phase = "up" BY <2>1, CallFacts
  <2>3. classCached' = classCached /\ reused' = reused BY <1>7 DEF AllocateCarve
  <2>4. PICK f \in Fitting(need) :
           /\ free' = FreeAfterTake(f, need, call.top)
           /\ GrantSlot(TakenSlot(f, need, call.top))
    BY <1>7 DEF AllocateCarve
  <2> DEFINE b == TakenSlot(f, need, call.top)
  <2>5. b \in Block /\ b.size >= need /\ \A s \in live : Apart(b, s)
    <3>1. /\ b \in Block /\ b.size >= need
          /\ \A x : Solid(x) /\ (\A g \in free : Apart(x, g)) => Apart(x, b)
      BY <1>0, <2>2, TakeFacts
    <3>2. \A s \in live : Solid(s) /\ \A g \in free : Apart(s, g)
      BY DEF ArenaInv, ArenaTypeOK, NoOverlap, LiveApart, Solid
    <3> HIDE DEF b
    <3> QED BY <3>1, <3>2, ApartSym
  <2>6. SizeSum(free) = SizeSum(free') + b.size /\ SizeSum(free') \in Nat
    BY <1>0, <2>2, <2>4, TakeSum
  <2> HIDE DEF b
  <2>7. /\ phase' = "up" /\ used' = used + b.size /\ used' = SizeSum(live')
        /\ liveRequested' = ReqSum(live') /\ active' = Cardinality(live')
        /\ granted' = used' + freed' /\ granted' = granted + b.size
        /\ lost' = lost /\ IsFiniteSet(live')
    BY <2>1, <2>4, <2>5, GrantSums DEF b
  <2>8. b.size \in Nat BY <2>5 DEF Block
  <2>9. reused' <= granted' BY <1>0, <1>1, <2>3, <2>7, <2>8
  <2>10. SizeSum(free') + used' + classCached' + SizeSum(lost') = ArenaSize
    BY <1>0, <1>1, <1>2, <2>2, <2>3, <2>6, <2>7, <2>8
  <2> QED BY <1>1, <1>3, <2>7, <2>9, <2>10
<1>8. CASE ReclaimCacheBlock
  <2>0. PICK i \in 1 .. Len(classSizes) :
           LET c == classSizes[i]
               b == [addr |-> Top(cached[c]), size |-> c]
           IN  /\ cached[c] # <<>>
               /\ cached' = [cached EXCEPT ![c] = Pop(@)]
               /\ classCached' = DropCovered(classCached, c)
               /\ IF nodes > 0
                  THEN free' = InsertFreeSortedAndCoalesce(b) /\ UNCHANGED lost
                  ELSE lost' = lost \cup {b} /\ UNCHANGED free
    BY <1>8 DEF ReclaimCacheBlock, DrainsNext
  <2>1. PICK k \in ClassSizes : k = classSizes[i] BY <1>0 DEF ArenaTypeOK
  <2> DEFINE b == [addr |-> Top(cached[k]), size |-> k]
  <2>2. b \in Block /\ b.size = k /\ k \in Nat /\ \A f \in free : Apart(b, f)
    BY <2>0, <2>1, TopBlock, ClassSizeFacts
  <2>3. /\ cached[k] # <<>> /\ cached' = [cached EXCEPT ![k] = Pop(@)]
        /\ classCached' = DropCovered(classCached, k)
        /\ \/ free' = InsertFreeSortedAndCoalesce(b) /\ lost' = lost
           \/ free' = free /\ lost' = lost \cup {b}
    BY <2>0, <2>1
  <2>4. /\ phase' = phase /\ phase = "up"
        /\ UNCHANGED <<live, used, liveRequested, active, granted, freed, reused>>
    BY <1>8, CallFacts DEF ReclaimCacheBlock
  <2>5. classCached = classCached' + k /\ classCached' \in Nat
    BY <2>3, PopCount DEF BytesInv
  <2>6. \A x \in lost : Apart(x, b)
    <3>1. Len(cached[k]) \in 1 .. Len(cached[k]) /\ b = CachedBlock(k, Len(cached[k]))
      BY <1>0, <2>3, PopCached
    <3> HIDE DEF b
    <3> QED BY <2>4, <3>1 DEF LostInv, Nobodys
  <2> HIDE DEF b
  <2>7. /\ SizeSum(free') + SizeSum(lost') = SizeSum(free) + SizeSum(lost) + k
        /\ IsFiniteSet(lost')
    <3>1. CASE free' = InsertFreeSortedAndCoalesce(b) /\ lost' = lost
      <4>1. SizeSum(free') = SizeSum(free) + b.size BY <1>0, <2>2, <3>1, InsertSum
      <4> QED BY <1>1, <1>2, <2>2, <3>1, <4>1
    <3>2. CASE free' = free /\ lost' = lost \cup {b}
      <4>1. SizeSum(lost') = SizeSum(lost) + b.size /\ IsFiniteSet(lost')
        BY <2>2, <2>6, <3>2, DropSum
      <4> QED BY <1>2, <2>2, <3>2, <4>1
    <3> QED BY <2>3, <3>1, <3>2
  <2>8. SizeSum(free') \in Nat /\ SizeSum(lost') \in Nat
    <3>1. ArenaInv' BY ArenaStepInv
    <3>2. /\ IsFiniteSet(free') /\ \A x \in free' : x.size \in Nat
          /\ \A x \in lost' : x.size \in Nat
      BY <3>1 DEF ArenaInv, ArenaTypeOK
    <3> QED BY <2>7, <3>2, SizeType
  <2>9. SizeSum(free') + used' + classCached' + SizeSum(lost') = ArenaSize
    <3>1. used' = used /\ used \in Nat
          /\ SizeSum(free) + used + classCached + SizeSum(lost) = ArenaSize
      BY <1>0, <1>1, <2>4
    <3> PICK f \in Nat, l \in Nat : f = SizeSum(free) /\ l = SizeSum(lost) BY <1>2
    <3> PICK f1 \in Nat, l1 \in Nat : f1 = SizeSum(free') /\ l1 = SizeSum(lost') BY <2>8
    <3>2. f1 + l1 = f + l + k BY <2>7
    <3>3. PICK c \in Nat, u \in Nat : c = classCached' /\ u = used BY <2>5, <3>1
    <3>4. f + u + (c + k) + l = ArenaSize BY <2>5, <3>1, <3>3
    <3>5. f1 + u + c + l1 = ArenaSize BY ONLY <2>2, <3>2, <3>4
    <3> QED BY <3>1, <3>3, <3>5
  <2>10. /\ used' = SizeSum(live') /\ liveRequested' = ReqSum(live')
         /\ active' = Cardinality(live') /\ granted' = used' + freed'
    BY <2>4 DEF SumInv
  <2> QED BY <1>1, <1>3, <2>4, <2>7, <2>9, <2>10
<1>9. ASSUME NEW s \in freeing, FreeLocked(s), phase # "up" PROVE SumInv'
  <2>1. phase = "down" BY <1>9 DEF ArenaInv, ArenaTypeOK, PhaseOK
  <2>2. phase' = phase /\ live' = {} BY <1>9, LateFree
  <2>3. granted' = granted /\ reused' = reused BY <1>9 DEF FreeLocked
  <2>4. IsFiniteSet(lost')
    <3>1. lost' = lost \/ \E b : lost' = lost \cup {b} BY <1>9 DEF FreeLocked
    <3> QED BY <1>1, <3>1, FS_AddElement
  <2> QED BY <1>1, <2>1, <2>2, <2>3, <2>4, FS_EmptySet DEF SumInv
<1>10. ASSUME NEW s \in freeing, FreeLocked(s), phase = "up" PROVE SumInv'
  <2> DEFINE sz == AlignUp(s.req)
             b == [addr |-> s.addr, size |-> sz]
  <2>1. b \in Block /\ b.size = sz /\ s \in live /\ \A f \in free : Apart(b, f)
    BY <1>10, FreedBlock
  <2>2. /\ sz \in Nat /\ used = used' + sz /\ used' = SizeSum(live')
        /\ liveRequested' = ReqSum(live') /\ active' = Cardinality(live')
        /\ granted' = used' + freed' /\ IsFiniteSet(live') /\ used' \in Nat
    BY <1>10, ReturnSums
  <2>3. /\ phase' = phase /\ reused' = reused /\ granted' = granted
        /\ \/ free' = free /\ lost' = lost /\ classCached' = classCached + sz
           \/ /\ free' = InsertFreeSortedAndCoalesce(b)
              /\ lost' = lost /\ classCached' = classCached
           \/ free' = free /\ lost' = lost \cup {b} /\ classCached' = classCached
    BY <1>10 DEF FreeLocked
  <2>4. \A x \in lost : Apart(x, b)
    <3>1. b.addr = s.addr /\ End(b) = End(s) BY <1>10, FreedBlock
    <3>2. \A x \in lost : Apart(x, s) BY <1>10, <2>1 DEF LostInv, Nobodys
    <3> HIDE DEF b
    <3> QED BY <3>1, <3>2 DEF Apart
  <2> HIDE DEF sz, b
  <2>5. /\ SizeSum(free') + classCached' + SizeSum(lost')
             = SizeSum(free) + classCached + SizeSum(lost) + sz
        /\ IsFiniteSet(lost')
    <3>1. CASE free' = free /\ lost' = lost /\ classCached' = classCached + sz
      BY <1>0, <1>1, <1>2, <2>2, <3>1
    <3>2. CASE /\ free' = InsertFreeSortedAndCoalesce(b)
               /\ lost' = lost /\ classCached' = classCached
      <4>1. SizeSum(free') = SizeSum(free) + b.size BY <1>0, <2>1, <3>2, InsertSum
      <4> QED BY <1>0, <1>1, <1>2, <2>1, <2>2, <3>2, <4>1
    <3>3. CASE free' = free /\ lost' = lost \cup {b} /\ classCached' = classCached
      <4>1. SizeSum(lost') = SizeSum(lost) + b.size /\ IsFiniteSet(lost')
        BY <2>1, <2>4, <3>3, DropSum
      <4> QED BY <1>0, <1>2, <2>1, <2>2, <3>3, <4>1
    <3> QED BY <2>3, <3>1, <3>2, <3>3
  <2>6. SizeSum(free') \in Nat /\ SizeSum(lost') \in Nat /\ classCached' \in Nat
    <3>1. ArenaInv' BY ArenaStepInv
    <3>2. /\ IsFiniteSet(free') /\ \A x \in free' : x.size \in Nat
          /\ \A x \in lost' : x.size \in Nat
          /\ classCached' \in Nat
      BY <3>1 DEF ArenaInv, ArenaTypeOK
    <3> QED BY <2>5, <3>2, SizeType
  <2>7. SizeSum(free') + used' + classCached' + SizeSum(lost') = ArenaSize
    BY <1>0, <1>1, <1>2, <1>10, <2>2, <2>5, <2>6
  <2> QED BY <1>1, <1>3, <1>10, <2>2, <2>3, <2>5, <2>7
<1>11. CASE \/ InitializeFails \/ AllocateWithoutArena \/ AllocateReclaim \/ AllocateFail
            \/ \E size \in Sizes : \E top \in Directions(size) : AllocateEnter(size, top)
            \/ \E s \in live : FreeEnter(s)
            \/ UNCHANGED arenaVars
  <2>1. /\ UNCHANGED <<phase, free, live, lost, classCached>>
        /\ UNCHANGED <<used, liveRequested, active, granted, freed, reused>>
    BY <1>11, QuietStep
    DEF InitializeFails, AllocateWithoutArena, AllocateReclaim, AllocateFail,
        AllocateEnter, FreeEnter, arenaVars, arenaCounters
  <2> QED BY <2>1 DEF SumInv
<1> QED BY <1>4, <1>5, <1>6, <1>7, <1>8, <1>9, <1>10, <1>11 DEF ArenaNext

\* The free list, the slots callers hold, the caches and what was dropped add
\* up to the arena, and GetStats reports them so, for every arena, every mix of
\* sizes and every limit of the caches and of the node pool.
THEOREM StatsAddUpAlways == ArenaSpec => []StatsAddUp
<1>1. ArenaInit => SumInv
  BY FS_EmptySet DEF ArenaInit, SumInv
<1>2. ArenaInv /\ ShapeInv /\ BytesInv /\ LostInv /\ NothingOut /\ SumInv
        /\ [ArenaNext]_arenaVars => SumInv'
  BY SumStep
<1>3. ArenaInv /\ SumInv => StatsAddUp
  <2> SUFFICES ASSUME ArenaInv, SumInv PROVE StatsAddUp OBVIOUS
  <2>1. /\ GetStats.freeBytes = SizeSum(free) /\ GetStats.usedBytes = used
        /\ GetStats.classCachedBytes = classCached
        /\ phase = "up" => GetStats.arenaSize = ArenaSize
    BY DEF GetStats, SizeSum
  <2> QED BY <2>1 DEF SumInv, StatsAddUp, SizeSum, ReqSum
<1> QED BY <1>1, <1>2, <1>3, ArenaInvariance, ShapeInvariance, BytesInvariance,
           LostInvariance, NothingOutInvariance, PTL DEF ArenaSpec
=============================================================================
