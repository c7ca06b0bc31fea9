--------------------------- MODULE HeapShardsProofs ---------------------------
(***************************************************************************)
(* The shards, for every number of threads, heaps, shards and slots, every *)
(* shard size and every width of the round-robin counter.                  *)
(*                                                                         *)
(* BuildInv: the start-up leaves shards over different slots, each with    *)
(* its first page committed, and gives back every slot it could not use.   *)
(* BlocksInv: so the ranges are apart, and an address names one shard.     *)
(* NoteInv: the table of executable heaps holds every one that the game    *)
(* has and that the table was told of, as long as one thread writes it.    *)
(* TryInv: a call has been to the shards from its start on, around the     *)
(* ring, which takes arithmetic of the remainder.                          *)
(*                                                                         *)
(* GateInv, of SardineGate: the look-up of the caller is made for each     *)
(* request, by its module alone and whether or not the table of modules    *)
(* had room for it, so a thread past it has a caller that is no driver.    *)
(* The classification of the heap, which is raced for, is not needed.      *)
(***************************************************************************)
EXTENDS HeapShards, SardineGate, FiniteSetTheorems, TLAPS

-----------------------------------------------------------------------------
(* Arithmetic *)

\* A range that starts later starts at least a whole range later.
LEMMA AtLeastOneMore ==
    ASSUME NEW w \in Nat \ {0}, NEW a \in Nat, NEW b \in Nat, a < b
    PROVE  a * w + w <= b * w
<1>1. PICK d \in Nat : b = a + 1 + d
  <2> WITNESS b - a - 1 \in Nat
  <2> QED OBVIOUS
<1>2. b * w = a * w + w + d * w BY <1>1
<1>3. d * w \in Nat OBVIOUS
<1> QED BY <1>2, <1>3

\* Quotient and remainder are unique.
LEMMA ModUnique ==
    ASSUME NEW w \in Nat \ {0}, NEW q \in Nat, NEW r \in 0 .. w - 1
    PROVE  (q * w + r) % w = r /\ (q * w + r) \div w = q
<1> DEFINE x == q * w + r
           p == x \div w
           s == x % w
<1>1. x \in Nat /\ q * w \in Nat OBVIOUS
<1>2. p \in Nat /\ s \in 0 .. w - 1 /\ x = p * w + s
   BY <1>1
<1> HIDE DEF p, s
<1>3. ~(q < p)
  <2>1. ASSUME q < p PROVE FALSE
    <3>1. q * w + w <= p * w BY <1>2, <2>1, AtLeastOneMore
    <3>2. p * w \in Nat BY <1>2
    <3> QED BY <1>1, <1>2, <3>1, <3>2
  <2> QED BY <2>1
<1>4. ~(p < q)
  <2>1. ASSUME p < q PROVE FALSE
    <3>1. p * w + w <= q * w BY <1>2, <2>1, AtLeastOneMore
    <3>2. p * w \in Nat BY <1>2
    <3> QED BY <1>1, <1>2, <3>1, <3>2
  <2> QED BY <2>1
<1>5. p = q BY <1>2, <1>3, <1>4
<1>6. s = r BY <1>1, <1>2, <1>5
<1> QED BY <1>5, <1>6 DEF p, s

\* A number is its quotient times the divisor, and its remainder.
LEMMA DivMod ==
    ASSUME NEW w \in Nat \ {0}, NEW x \in Nat
    PROVE  /\ x \div w \in Nat /\ x % w \in 0 .. w - 1
           /\ x = (x \div w) * w + (x % w)
OBVIOUS

\* The remainder goes around the ring.
LEMMA ModShift ==
    ASSUME NEW w \in Nat \ {0}, NEW x \in Nat, NEW d \in 0 .. w - 1
    PROVE  (x + d) % w = IF (x % w) + d < w THEN (x % w) + d ELSE (x % w) + d - w
<1> DEFINE q == x \div w
           r == x % w
<1>1. q \in Nat /\ r \in 0 .. w - 1 /\ x = q * w + r BY DivMod
<1> HIDE DEF q, r
<1>2. q * w \in Nat /\ (q + 1) * w = q * w + w BY <1>1
<1>3. CASE r + d < w
  <2>1. x + d = q * w + (r + d) BY <1>1, <1>2
  <2>2. (q * w + (r + d)) % w = r + d BY <1>1, <1>3, ModUnique
  <2> QED BY <1>3, <2>1, <2>2 DEF r
<1>4. CASE r + d >= w
  <2>1. x + d = (q + 1) * w + (r + d - w) BY <1>1, <1>2
  <2>2. ((q + 1) * w + (r + d - w)) % w = r + d - w BY <1>1, <1>4, ModUnique
  <2> QED BY <1>1, <1>4, <2>1, <2>2 DEF r
<1> QED BY <1>1, <1>3, <1>4

-----------------------------------------------------------------------------
(* ProxyHeapInit *)

InRange(p, s) == lo[s] <= p /\ p < lo[s] + ShardSize

BuildTypeOK ==
    /\ init \in {"carve", "commit", "create", "fallback", "live"}
    /\ iter \in Nat /\ slot \in 0 .. ArenaSlots
    /\ lo \in [Shards -> Nat] /\ created \in 0 .. ShardCount
    /\ carved \subseteq 1 .. ArenaSlots /\ committed \subseteq 1 .. ArenaSlots

\* The loop counter is ahead of the shards built; the count is theirs, but 0
\* until all of them are; each is over a slot of its own that is committed, and
\* the slots out are theirs and the one in hand.
BuildInv ==
    /\ BuildTypeOK
    /\ IF init = "live" THEN count = created ELSE count = 0 /\ created < iter /\ iter <= ShardCount
    /\ slot # 0 <=> init \in {"commit", "create"}
    /\ init = "create" => slot \in committed
    /\ \A s \in 1 .. created :
           /\ Base(s) \in 1 .. Positions /\ lo[s] = Base(s) * ShardSize
           /\ Base(s) # slot
           /\ Base(s) <= ArenaSlots => Base(s) \in committed
           /\ \A r \in 1 .. created : r # s => Base(r) # Base(s)
    /\ carved = ({Base(s) : s \in 1 .. created} \cap (1 .. ArenaSlots)) \cup ({slot} \ {0})

\* Nothing is built before the first iteration.
LEMMA InitBuildInv == HeapShardsInit => BuildInv
BY ShardAssumption DEF HeapShardsInit, BuildInv, BuildTypeOK, Shards

\* A shard is entered over a slot that no shard has.
LEMMA AddShardInv ==
    ASSUME BuildInv, NEW b \in 1 .. Positions, AddShard(b), init # "live",
           \A s \in 1 .. created : Base(s) # b,
           b <= ArenaSlots => b \in committed,
           UNCHANGED <<carved, committed>>,
           slot = b \/ (slot = 0 /\ b > ArenaSlots)
    PROVE  BuildInv'
<1> USE ShardAssumption DEF BuildInv, BuildTypeOK, AddShard, NextShard, Shards
<1>0. PICK c \in 1 .. ShardCount : c = created + 1 OBVIOUS
<1>1. created' = c /\ slot' = 0 /\ 1 .. c = (1 .. created) \cup {c} /\ c \notin 1 .. created
  BY <1>0
<1>2. b * ShardSize \in Nat /\ (b * ShardSize) \div ShardSize = b
  <2>1. 0 \in 0 .. ShardSize - 1 /\ b \in Nat OBVIOUS
  <2>2. (b * ShardSize + 0) \div ShardSize = b BY <2>1, ModUnique
  <2>3. b * ShardSize \in Nat OBVIOUS
  <2> QED BY <2>2, <2>3
<1>3. lo' \in [Shards -> Nat] /\ lo'[c] = b * ShardSize BY <1>0, <1>2
<1>4. Base(c)' = b BY <1>2, <1>3 DEF Base
<1>5. \A s \in 1 .. created : lo'[s] = lo[s] /\ Base(s)' = Base(s) BY <1>0, <1>1 DEF Base
<1>6. BuildTypeOK' BY <1>1, <1>3
<1>7. (IF init = "live" THEN count = created
       ELSE count = 0 /\ created < iter /\ iter <= ShardCount)'
  BY <1>0, <1>1
<1>8. (slot # 0 <=> init \in {"commit", "create"})' BY <1>1
<1>9. \A s \in 1 .. created' :
           /\ Base(s)' \in 1 .. Positions /\ lo'[s] = Base(s)' * ShardSize
           /\ Base(s)' # slot'
           /\ Base(s)' <= ArenaSlots => Base(s)' \in committed'
           /\ \A r \in 1 .. created' : r # s => Base(r)' # Base(s)'
  <2>1. ASSUME NEW s \in 1 .. created'
        PROVE  /\ Base(s)' \in 1 .. Positions /\ lo'[s] = Base(s)' * ShardSize
               /\ Base(s)' # slot'
               /\ Base(s)' <= ArenaSlots => Base(s)' \in committed'
    <3>1. CASE s \in 1 .. created BY <1>1, <1>5, <3>1
    <3>2. CASE s = c BY <1>1, <1>3, <1>4, <3>2
    <3> QED BY <1>1, <3>1, <3>2
  <2>2. ASSUME NEW s \in 1 .. created', NEW r \in 1 .. created', r # s
        PROVE  Base(r)' # Base(s)'
    <3>1. CASE s = c BY <1>1, <1>4, <1>5, <2>2, <3>1
    <3>2. CASE r = c BY <1>1, <1>4, <1>5, <2>2, <3>2
    <3>3. CASE s # c /\ r # c BY <1>1, <1>5, <2>2, <3>3
    <3> QED BY <3>1, <3>2, <3>3
  <2> QED BY <2>1, <2>2
<1>10. carved' = ({Base(s)' : s \in 1 .. created'} \cap (1 .. ArenaSlots)) \cup ({slot'} \ {0})
  <2> DEFINE old == {Base(s) : s \in 1 .. created}
             all == {Base(s)' : s \in 1 .. created'}
  <2>1. all = old \cup {b} BY <1>1, <1>4, <1>5
  <2>2. carved = (old \cap (1 .. ArenaSlots)) \cup ({slot} \ {0}) OBVIOUS
  <2>3. carved' = carved /\ slot' = 0 BY <1>1
  <2>4. /\ b \in 1 .. Positions /\ ArenaSlots \in Nat /\ (slot = b \/ (slot = 0 /\ b > ArenaSlots))
        /\ slot \in 0 .. ArenaSlots /\ carved \subseteq 1 .. ArenaSlots /\ b \notin old
    OBVIOUS
  <2> HIDE DEF old, all
  <2>5. carved' = (all \cap (1 .. ArenaSlots)) \cup ({slot'} \ {0})
    BY ONLY <2>1, <2>2, <2>3, <2>4
  <2> QED BY <2>5 DEF all
<1> QED BY <1>6, <1>7, <1>8, <1>9, <1>10

\* A slot that cannot be used goes back, and only that one.
LEMMA GivesBackInv ==
    ASSUME BuildInv, init \in {"commit", "create"}, InitGivesBack, committed \subseteq committed',
           committed' \subseteq 1 .. ArenaSlots, UNCHANGED <<lo, created>>
    PROVE  BuildInv'
<1> USE ShardAssumption DEF BuildInv, BuildTypeOK, InitGivesBack, Shards
<1>1. BuildTypeOK' OBVIOUS
<1>2. \A s \in 1 .. created : lo'[s] = lo[s] /\ Base(s)' = Base(s) BY DEF Base
<1>3. (\A s \in 1 .. created :
           /\ Base(s) \in 1 .. Positions /\ lo[s] = Base(s) * ShardSize
           /\ Base(s) # slot
           /\ Base(s) <= ArenaSlots => Base(s) \in committed
           /\ \A r \in 1 .. created : r # s => Base(r) # Base(s))'
  <2>1. slot' = 0 /\ created' = created OBVIOUS
  <2>2. ASSUME NEW s \in 1 .. created
        PROVE  /\ Base(s) \in 1 .. Positions /\ lo[s] = Base(s) * ShardSize
               /\ Base(s) # 0 /\ Base(s) <= ArenaSlots => Base(s) \in committed'
               /\ \A r \in 1 .. created : r # s => Base(r) # Base(s)
    OBVIOUS
  <2> QED BY ONLY <1>2, <2>1, <2>2
<1>4. (carved = ({Base(s) : s \in 1 .. created} \cap (1 .. ArenaSlots)) \cup ({slot} \ {0}))'
  <2>1. {Base(s)' : s \in 1 .. created'} = {Base(s) : s \in 1 .. created} BY <1>2
  <2>2. slot \notin {Base(s) : s \in 1 .. created} OBVIOUS
  <2> QED BY <2>1, <2>2
<1> QED BY <1>1, <1>3, <1>4

\* Every step of ProxyHeapInit.
LEMMA BuildStep ==
    ASSUME BuildInv, InitCarve \/ InitCommit \/ InitCreate \/ InitFallback
    PROVE  BuildInv'
<1> USE ShardAssumption
<1>1. CASE InitCarve
  <2> USE DEF BuildInv, BuildTypeOK, InitCarve
  <2>1. BuildTypeOK' BY <1>1
  <2>2. \A s \in 1 .. created : Base(s)' = Base(s) BY <1>1 DEF Base
  <2>3. CASE UNCHANGED <<slot, carved>> BY <1>1, <2>1, <2>2, <2>3
  <2>4. CASE \E b \in (1 .. ArenaSlots) \ carved :
                slot' = b /\ carved' = carved \cup {b} /\ init' = "commit"
    <3>1. PICK b \in (1 .. ArenaSlots) \ carved :
                slot' = b /\ carved' = carved \cup {b} /\ init' = "commit"
      BY <2>4
    <3>2. slot = 0 /\ b \notin {Base(s) : s \in 1 .. created} BY <1>1, <3>1
    <3>3. {Base(s)' : s \in 1 .. created'} = {Base(s) : s \in 1 .. created} BY <1>1, <2>2
    <3> DEFINE old == {Base(s) : s \in 1 .. created}
               all == {Base(s)' : s \in 1 .. created'}
    <3>4. carved = (old \cap (1 .. ArenaSlots)) \cup ({slot} \ {0}) BY <1>1
    <3>5. /\ carved' = carved \cup {b} /\ slot' = b /\ ArenaSlots \in Nat
          /\ b \in 1 .. ArenaSlots
      BY <3>1
    <3> HIDE DEF old, all
    <3>6. carved' = (all \cap (1 .. ArenaSlots)) \cup ({slot'} \ {0})
      BY ONLY <3>2, <3>3, <3>4, <3>5 DEF old, all
    <3> QED BY <1>1, <2>1, <2>2, <3>1, <3>2, <3>6 DEF old, all
  <2> QED BY <1>1, <2>3, <2>4
<1>2. CASE InitCommit
  <2> USE DEF BuildInv, BuildTypeOK
  <2>1. CASE InitGivesBack /\ UNCHANGED committed
    BY <1>2, <2>1, GivesBackInv DEF InitCommit, InitGivesBack
  <2>2. CASE /\ committed' = committed \cup {slot} /\ init' = "create"
             /\ UNCHANGED <<iter, slot, lo, created, count, carved>>
    <3>1. \A s \in 1 .. created : Base(s)' = Base(s) BY <2>2 DEF Base
    <3> QED BY <1>2, <2>2, <3>1 DEF InitCommit
  <2> QED BY <1>2, <2>1, <2>2 DEF InitCommit
<1>3. CASE InitCreate
  <2> USE DEF BuildInv, BuildTypeOK
  <2>1. CASE AddShard(slot) /\ UNCHANGED carved
    <3>1. PICK b \in 1 .. Positions : b = slot BY <1>3 DEF InitCreate
    <3>2. AddShard(b) BY <2>1, <3>1 DEF AddShard
    <3>3. /\ init # "live" /\ \A s \in 1 .. created : Base(s) # b
          /\ b <= ArenaSlots => b \in committed
      BY <1>3, <3>1 DEF InitCreate
    <3>4. UNCHANGED <<carved, committed>> BY <1>3, <2>1 DEF InitCreate
    <3> QED BY <3>1, <3>2, <3>3, <3>4, AddShardInv
  <2>2. CASE InitGivesBack
    BY <1>3, <2>2, GivesBackInv DEF InitCreate, InitGivesBack
  <2> QED BY <1>3, <2>1, <2>2 DEF InitCreate
<1>4. CASE InitFallback
  <2> USE DEF BuildInv, BuildTypeOK
  <2>1. CASE \E b \in (ArenaSlots + 1 .. Positions) \ Bases : AddShard(b)
    <3>1. PICK b \in (ArenaSlots + 1 .. Positions) \ Bases : AddShard(b) BY <2>1
    <3>2. slot = 0 /\ b \in 1 .. Positions /\ b > ArenaSlots
          /\ \A s \in 1 .. created : Base(s) # b
      BY <1>4, <3>1 DEF InitFallback, Bases
    <3> QED BY <1>4, <3>1, <3>2, AddShardInv DEF InitFallback
  <2>2. CASE UNCHANGED <<lo, created>> /\ NextShard
    <3>1. \A s \in 1 .. created : Base(s)' = Base(s) BY <2>2 DEF Base
    <3>2. slot = 0 /\ slot' = 0 BY <1>4, <2>2 DEF InitFallback, NextShard
    <3> QED BY <1>4, <2>2, <3>1, <3>2 DEF InitFallback, NextShard
  <2> QED BY <1>4, <2>1, <2>2 DEF InitFallback
<1> QED BY <1>1, <1>2, <1>3, <1>4

-----------------------------------------------------------------------------
(* The round robin *)

CallTypeOK ==
    /\ pc \in [Threads -> {"game", "note", "publish", "try", "real"}]
    /\ heap \in [Threads -> Heaps \cup {NoHeap}]
    /\ start \in [Threads -> Int] /\ k \in [Threads -> Nat] /\ rr \in Int
    /\ tried \in [Threads -> SUBSET Nat]

\* The shards that d tries in a row have been to, from index r of the ring on.
Visited(c, r, d) == {s \in 1 .. c : IF s > r THEN s <= r + d ELSE s + c <= r + d}

TryInv ==
    /\ CallTypeOK
    /\ \A t \in Threads :
         /\ pc[t] # "game" => init = "live"
         /\ pc[t] \in {"try", "real"} =>
              /\ count \in Nat \ {0}
              /\ IF pc[t] = "try" THEN k[t] < count ELSE k[t] = count
              /\ start[t] >= 0 /\ start[t] + k[t] <= LongMax
                     => tried[t] = Visited(count, start[t] % count, k[t])

\* One more try has been to one more shard.
LEMMA VisitedNext ==
    ASSUME NEW c \in Nat \ {0}, NEW r \in 0 .. c - 1, NEW d \in 0 .. c - 1
    PROVE  LET i == IF r + d < c THEN r + d ELSE r + d - c
           IN  Visited(c, r, d + 1) = Visited(c, r, d) \cup {i + 1}
BY DEF Visited

\* No try has been nowhere, and count tries everywhere.
LEMMA VisitedEnds ==
    ASSUME NEW c \in Nat \ {0}, NEW r \in 0 .. c - 1
    PROVE  Visited(c, r, 0) = {} /\ Visited(c, r, c) = 1 .. c
BY DEF Visited

\* As long as the counter has not wrapped the index is the next of the ring,
\* and whatever it has done it is never above the last shard.
LEMMA IndexIs ==
    ASSUME NEW t \in Threads, CallTypeOK, count \in Nat \ {0}, LongMax \in Nat \ {0}
    PROVE  /\ Index(t) \in Int /\ Index(t) < count
           /\ start[t] >= 0 /\ start[t] + k[t] <= LongMax /\ k[t] < count
                => LET r == start[t] % count
                   IN  Index(t) = IF r + k[t] < count THEN r + k[t] ELSE r + k[t] - count
<1> DEFINE x == start[t] + k[t]
           sum == IF x > LongMax THEN x - 2 * (LongMax + 1) ELSE x
<1>1. start[t] \in Int /\ k[t] \in Nat /\ sum \in Int BY DEF CallTypeOK
<1>2. Index(t) = IF sum >= 0 THEN sum % count ELSE -((-sum) % count) BY DEF Index
<1>3. Index(t) \in Int /\ Index(t) < count
  <2> HIDE DEF sum
  <2>1. CASE sum >= 0 BY <1>1, <1>2, <2>1
  <2>2. CASE ~(sum >= 0)
    <3>1. (-sum) % count \in 0 .. count - 1 BY <1>1, <2>2
    <3> QED BY <1>2, <2>2, <3>1
  <2> QED BY <2>1, <2>2
<1>4. ASSUME start[t] >= 0, start[t] + k[t] <= LongMax, k[t] < count
      PROVE  LET r == start[t] % count
             IN  Index(t) = IF r + k[t] < count THEN r + k[t] ELSE r + k[t] - count
  <2>1. Index(t) = (start[t] + k[t]) % count BY <1>1, <1>2, <1>4
  <2>2. start[t] \in Nat /\ k[t] \in 0 .. count - 1 BY <1>1, <1>4
  <2> QED BY <2>1, <2>2, ModShift
<1> QED BY <1>3, <1>4

\* Nobody is in a hook before ProxyHeapInit is over.
LEMMA InitTryInv == HeapShardsInit => TryInv
BY DEF HeapShardsInit, TryInv, CallTypeOK

\* A try finds no room, or an index below the table, and goes on.
LEMMA GoesInv ==
    ASSUME BuildInv, TryInv, NEW t \in Threads, pc[t] = "try", Goes(t), NEW s,
           s = Index(t) + 1,
           tried' = IF s >= 1 THEN [tried EXCEPT ![t] = tried[t] \cup {s}] ELSE tried,
           UNCHANGED <<init, count, rr>>
    PROVE  TryInv'
<1> USE ShardAssumption DEF Goes
<1>1. count \in Nat \ {0} /\ CallTypeOK /\ k[t] < count /\ k[t] \in Nat /\ start[t] \in Int
  BY DEF TryInv, CallTypeOK
<1>2. s \in Int /\ s <= count BY <1>1, IndexIs
<1>3. /\ k' = [k EXCEPT ![t] = k[t] + 1] /\ UNCHANGED <<heap, start>>
      /\ pc' = [pc EXCEPT ![t] = IF k[t] + 1 < count THEN "try" ELSE "real"]
  OBVIOUS
<1>4. CallTypeOK'
  <2>1. tried' \in [Threads -> SUBSET Nat] BY <1>1, <1>2 DEF CallTypeOK
  <2> QED BY <1>1, <1>3, <2>1 DEF CallTypeOK
<1>5. ASSUME start[t] >= 0, start[t] + k'[t] <= LongMax
      PROVE  tried'[t] = Visited(count, start[t] % count, k'[t])
  <2>1. k'[t] = k[t] + 1 BY <1>1, <1>3 DEF CallTypeOK
  <2>2. start[t] + k[t] <= LongMax BY <1>1, <1>5, <2>1
  <2>3. PICK r \in 0 .. count - 1 : r = start[t] % count BY <1>1
  <2>4. tried[t] = Visited(count, r, k[t]) BY <1>5, <2>2, <2>3 DEF TryInv
  <2>5. PICK i \in Nat : i = IF r + k[t] < count THEN r + k[t] ELSE r + k[t] - count
    BY <1>1
  <2>6. s = i + 1 BY <1>1, <1>5, <2>2, <2>3, <2>5, IndexIs
  <2>7. tried'[t] = tried[t] \cup {s} BY <1>1, <2>6 DEF CallTypeOK
  <2>8. k[t] \in 0 .. count - 1 BY <1>1
  <2>9. Visited(count, r, k[t] + 1) = Visited(count, r, k[t]) \cup {i + 1}
    BY <1>1, <2>5, <2>8, VisitedNext
  <2> QED BY <2>1, <2>3, <2>4, <2>6, <2>7, <2>9
<1>6. k'[t] = k[t] + 1 /\ pc'[t] = IF k[t] + 1 < count THEN "try" ELSE "real"
  BY <1>1, <1>3 DEF CallTypeOK
<1> DEFINE P(u) ==
      /\ pc[u] # "game" => init = "live"
      /\ pc[u] \in {"try", "real"} =>
           /\ count \in Nat \ {0}
           /\ IF pc[u] = "try" THEN k[u] < count ELSE k[u] = count
           /\ start[u] >= 0 /\ start[u] + k[u] <= LongMax
                  => tried[u] = Visited(count, start[u] % count, k[u])
<1>7. P(t)'
  <2>1. init' = "live" BY <1>1 DEF TryInv
  <2>2. count' = count /\ start' = start BY <1>3
  <2> QED BY <1>1, <1>5, <1>6, <2>1, <2>2
<1>8. ASSUME NEW u \in Threads, u # t PROVE P(u)'
  <2>1. pc'[u] = pc[u] /\ k'[u] = k[u] /\ tried'[u] = tried[u] /\ start'[u] = start[u]
    BY <1>1, <1>3, <1>8 DEF CallTypeOK
  <2>2. P(u) BY DEF TryInv
  <2> QED BY <2>1, <2>2
<1> QED BY <1>4, <1>7, <1>8 DEF TryInv

\* A call begins, ends or notes a heap; what a try does is GoesInv's.
LEMMA CallInv ==
    ASSUME BuildInv, TryInv, NEW t \in Threads, init = "live",
           UNCHANGED <<init, count>>, CallTypeOK',
           pc'[t] \in {"game", "note", "publish"}
             \/ (/\ pc'[t] = "try" /\ count > 0 /\ k'[t] = 0 /\ tried'[t] = {}),
           \A u \in Threads \ {t} : pc'[u] = pc[u] /\ k'[u] = k[u] /\ tried'[u] = tried[u]
                                    /\ start'[u] = start[u]
    PROVE  TryInv'
<1> USE ShardAssumption
<1> DEFINE P(u) ==
      /\ pc[u] # "game" => init = "live"
      /\ pc[u] \in {"try", "real"} =>
           /\ count \in Nat \ {0}
           /\ IF pc[u] = "try" THEN k[u] < count ELSE k[u] = count
           /\ start[u] >= 0 /\ start[u] + k[u] <= LongMax
                  => tried[u] = Visited(count, start[u] % count, k[u])
<1>1. P(t)'
  <2>1. CASE pc'[t] \in {"game", "note", "publish"} BY <2>1
  <2>2. CASE pc'[t] = "try" /\ count > 0 /\ k'[t] = 0 /\ tried'[t] = {}
    <3>1. count \in Nat \ {0} BY <2>2 DEF BuildInv, BuildTypeOK
    <3>2. ASSUME start'[t] >= 0 PROVE start'[t] % count \in 0 .. count - 1
      BY <3>1, <3>2 DEF CallTypeOK
    <3>3. start'[t] >= 0 => Visited(count, start'[t] % count, 0) = {}
      BY <3>1, <3>2, VisitedEnds
    <3> QED BY <2>2, <3>1, <3>3
  <2> QED BY <2>1, <2>2
<1>2. ASSUME NEW u \in Threads, u # t PROVE P(u)'
  <2>1. P(u) BY DEF TryInv
  <2> QED BY <1>2, <2>1
<1> QED BY <1>1, <1>2 DEF TryInv

\* Every step keeps TryInv.
LEMMA TryStep ==
    ASSUME BuildInv, TryInv, HeapShardsNext
    PROVE  TryInv'
<1> USE ShardAssumption
<1>1. CASE InitCarve \/ InitCommit \/ InitCreate \/ InitFallback
  <2>1. init # "live" /\ InitOnly
    BY <1>1 DEF InitCarve, InitCommit, InitCreate, InitFallback
  <2>2. \A t \in Threads : pc[t] = "game" BY <2>1 DEF TryInv
  <2>3. CallTypeOK' BY <2>1 DEF InitOnly, callVars, ghosts, TryInv, CallTypeOK
  <2>4. \A t \in Threads : pc'[t] = "game" BY <2>1, <2>2 DEF InitOnly, callVars
  <2> QED BY <2>3, <2>4 DEF TryInv
<1>2. ASSUME UNCHANGED <<init, count, pc, heap, start, k, rr, tried>> PROVE TryInv'
  BY <1>2 DEF TryInv, CallTypeOK
<1>3. CASE BeginShutdown BY <1>2, <1>3 DEF BeginShutdown, initVars, callVars, ghosts
<1>4. ASSUME NEW t \in Threads, NEW h \in Heaps,
             HeapCreate(t, h) \/ RtlCreateHeap(t, h) \/ ProxyHeapAlloc(t, h)
      PROVE  TryInv'
  <2> USE DEF initVars, callVars, ghosts
  <2>1. CASE HeapCreate(t, h) BY <1>2, <2>1 DEF HeapCreate
  <2>2. CASE RtlCreateHeap(t, h)
    <3>1. CASE execCount >= MaxExec BY <1>2, <2>2, <3>1 DEF RtlCreateHeap
    <3>2. CASE ~(execCount >= MaxExec)
      <4>1. CallTypeOK' /\ pc'[t] = "note" BY <2>2, <3>2 DEF RtlCreateHeap, TryInv, CallTypeOK
      <4>2. \A u \in Threads \ {t} : pc'[u] = pc[u]
        BY <2>2, <3>2 DEF RtlCreateHeap, TryInv, CallTypeOK
      <4> QED BY <2>2, <3>2, <4>1, <4>2, CallInv DEF RtlCreateHeap, Ready
    <3> QED BY <3>1, <3>2
  <2>3. CASE ProxyHeapAlloc(t, h)
    <3>1. Increment(rr) \in Int BY DEF Increment, TryInv, CallTypeOK
    <3>2. CallTypeOK' BY <2>3, <3>1 DEF ProxyHeapAlloc, TryInv, CallTypeOK
    <3>3. pc'[t] = "try" /\ count > 0 /\ k'[t] = 0 /\ tried'[t] = {}
      BY <2>3 DEF ProxyHeapAlloc, TryInv, CallTypeOK
    <3>4. \A u \in Threads \ {t} : pc'[u] = pc[u] /\ k'[u] = k[u] /\ tried'[u] = tried[u]
                                   /\ start'[u] = start[u]
      BY <2>3 DEF ProxyHeapAlloc, TryInv, CallTypeOK
    <3>5. init = "live" /\ UNCHANGED <<init, count>> BY <2>3 DEF ProxyHeapAlloc, Ready
    <3> QED BY <3>2, <3>3, <3>4, <3>5, CallInv
  <2> QED BY <1>4, <2>1, <2>2, <2>3
<1>5. ASSUME NEW t \in Threads, NoteWrite(t) \/ NotePublish(t) \/ RealHeap(t)
      PROVE  TryInv'
  <2> USE DEF initVars, callVars, ghosts
  <2>1. pc[t] # "game" BY <1>5 DEF NoteWrite, NotePublish, RealHeap
  <2>2. init = "live" BY <2>1 DEF TryInv
  <2>3. CallTypeOK' BY <1>5 DEF NoteWrite, NotePublish, RealHeap, Returns, TryInv, CallTypeOK
  <2>4. pc'[t] \in {"publish", "game"}
    BY <1>5 DEF NoteWrite, NotePublish, RealHeap, Returns, TryInv, CallTypeOK
  <2>5. \A u \in Threads \ {t} : pc'[u] = pc[u] /\ k'[u] = k[u] /\ tried'[u] = tried[u]
                                 /\ start'[u] = start[u]
    BY <1>5 DEF NoteWrite, NotePublish, RealHeap, Returns, TryInv, CallTypeOK
  <2>6. UNCHANGED <<init, count>> BY <1>5 DEF NoteWrite, NotePublish, RealHeap
  <2> QED BY <2>2, <2>3, <2>4, <2>5, <2>6, CallInv
<1>6. ASSUME NEW t \in Threads, TryShard(t) PROVE TryInv'
  <2> USE DEF initVars, callVars, ghosts
  <2>1. pc[t] = "try" /\ UNCHANGED <<init, count, rr>> BY <1>6 DEF TryShard
  <2>2. PICK s : s = Index(t) + 1 OBVIOUS
  <2>3. CASE Returns(t)
    <3>1. CallTypeOK' /\ pc'[t] = "game" BY <2>1, <2>3 DEF Returns, TryInv, CallTypeOK
    <3>2. \A u \in Threads \ {t} : pc'[u] = pc[u] /\ k'[u] = k[u] /\ tried'[u] = tried[u]
                                   /\ start'[u] = start[u]
      BY <2>3 DEF Returns, TryInv, CallTypeOK
    <3>3. init = "live" BY <2>1 DEF TryInv
    <3> QED BY <2>1, <3>1, <3>2, <3>3, CallInv
  <2>4. CASE /\ Goes(t)
             /\ tried' = IF s >= 1 THEN [tried EXCEPT ![t] = tried[t] \cup {s}] ELSE tried
    BY <2>1, <2>2, <2>4, GoesInv
  <2>5. CASE UNCHANGED <<tried, pc, heap, start, k>> BY <1>2, <2>1, <2>5
  <2>6. Index(t) \in Int
    BY <2>1, IndexIs DEF TryInv
  <2> QED BY <1>6, <2>2, <2>3, <2>4, <2>5, <2>6 DEF TryShard
<1>7. ASSUME NEW t \in Threads, NEW p \in blocks,
             ProxyHeapFree(t, p) \/ HeapReAlloc(t, p) \/ RtlReAllocateHeap(t, p)
      PROVE  TryInv'
  <2>1. NoCall /\ Ready(t)
    BY <1>7 DEF ProxyHeapFree, HeapReAlloc, RtlReAllocateHeap
  <2> QED BY <1>2, <2>1 DEF NoCall, initVars, callVars
<1> QED BY <1>1, <1>3, <1>4, <1>5, <1>6, <1>7 DEF HeapShardsNext

-----------------------------------------------------------------------------
(* The blocks *)

BlocksInv ==
    /\ used \in [Shards -> SUBSET Nat] /\ blocks \subseteq Nat /\ stray \subseteq Nat
    /\ init # "live" => blocks = {} /\ stray = {} /\ \A s \in Shards : used[s] = {}
    /\ blocks \cap stray = {}
    /\ \A s \in Shards : \A p \in used[s] :
           s \in 1 .. count /\ InRange(p, s) /\ p \in blocks \cup stray
    /\ \A p \in blocks \cup stray : \E s \in Shards : p \in used[s]

\* The ranges of two shards are apart.
LEMMA RangesApart ==
    ASSUME BuildInv, init = "live", NEW s \in 1 .. count, NEW r \in 1 .. count, NEW p \in Nat,
           InRange(p, s), InRange(p, r)
    PROVE  s = r
<1> USE ShardAssumption
<1>1. PICK a \in Nat : a = Base(s) /\ lo[s] = a * ShardSize BY DEF BuildInv
<1>2. PICK b \in Nat : b = Base(r) /\ lo[r] = b * ShardSize BY DEF BuildInv
<1>3. a * ShardSize \in Nat /\ b * ShardSize \in Nat OBVIOUS
<1>4. ~(a < b)
  <2>1. ASSUME a < b PROVE FALSE
    <3>1. a * ShardSize + ShardSize <= b * ShardSize BY <2>1, AtLeastOneMore
    <3> QED BY <1>1, <1>2, <1>3, <3>1 DEF InRange
  <2> QED BY <2>1
<1>5. ~(b < a)
  <2>1. ASSUME b < a PROVE FALSE
    <3>1. b * ShardSize + ShardSize <= a * ShardSize BY <2>1, AtLeastOneMore
    <3> QED BY <1>1, <1>2, <1>3, <3>1 DEF InRange
  <2> QED BY <2>1
<1>6. Base(s) = Base(r) BY <1>1, <1>2, <1>4, <1>5
<1> QED BY <1>6 DEF BuildInv

\* ProxyHeapShardOf finds the shard whose range holds the address.
LEMMA ShardOfIs ==
    ASSUME BuildInv, init = "live", NEW s \in 1 .. count, NEW p \in Nat, InRange(p, s)
    PROVE  ShardOf(p) = s
<1> DEFINE over == {r \in 1 .. count : lo[r] <= p /\ p < lo[r] + ShardSize}
<1>1. over = {s} BY RangesApart DEF InRange
<1>2. ShardOf(p) = CHOOSE r \in over : \A q \in over : r <= q BY <1>1 DEF ShardOf
<1>3. s <= s OBVIOUS
<1> QED BY <1>1, <1>2, <1>3

\* A block is in the shard its address names, and in no other.
LEMMA BlockAtHome ==
    ASSUME BuildInv, BlocksInv, NEW p \in blocks
    PROVE  /\ init = "live" /\ ShardOf(p) \in 1 .. count /\ p \in used[ShardOf(p)]
           /\ \A s \in Shards : p \in used[s] => s = ShardOf(p)
<1>1. init = "live" /\ p \in Nat BY DEF BlocksInv
<1>2. PICK s \in Shards : p \in used[s] BY DEF BlocksInv
<1>3. ShardOf(p) = s BY <1>1, <1>2, ShardOfIs DEF BlocksInv
<1>4. \A r \in Shards : p \in used[r] => r = s BY <1>1, <1>3, ShardOfIs DEF BlocksInv
<1> QED BY <1>1, <1>2, <1>3, <1>4 DEF BlocksInv

\* A place in a shard's range that its heap has not handed out is nobody's.
LEMMA RoomIsFresh ==
    ASSUME BuildInv, BlocksInv, init = "live", NEW s \in 1 .. count, NEW q \in Room(s)
    PROVE  /\ q \in Nat /\ InRange(q, s) /\ q \notin blocks \cup stray
           /\ \A r \in Shards : q \notin used[r]
<1> USE ShardAssumption
<1>1. s \in Shards /\ lo[s] \in Nat BY DEF BuildInv, BuildTypeOK, Shards
<1>2. q \in Nat /\ InRange(q, s) /\ q \notin used[s] BY <1>1 DEF Room, InRange
<1>3. \A r \in Shards : q \in used[r] => r = s BY <1>2, RangesApart DEF BlocksInv
<1> QED BY <1>2, <1>3 DEF BlocksInv

\* The ranges and the count stay once the hooks are live.
LEMMA RangesStay ==
    ASSUME init = "live", UNCHANGED <<lo, count, init>>
    PROVE  \A s, p : InRange(p, s)' = InRange(p, s)
BY DEF InRange

\* Every step keeps BlocksInv.
LEMMA BlocksStep ==
    ASSUME BuildInv, BlocksInv, TryInv, HeapShardsNext
    PROVE  BlocksInv'
<1> USE ShardAssumption
<1>1. CASE InitCarve \/ InitCommit \/ InitCreate \/ InitFallback
  <2>1. init # "live" /\ InitOnly
    BY <1>1 DEF InitCarve, InitCommit, InitCreate, InitFallback
  <2>2. UNCHANGED <<used, blocks, stray>> BY <2>1 DEF InitOnly, ghosts
  <2> QED BY <2>1, <2>2 DEF BlocksInv
<1>2. ASSUME UNCHANGED <<init, count, lo, used, blocks, stray>> PROVE BlocksInv'
  BY <1>2 DEF BlocksInv, InRange
<1>3. CASE BeginShutdown BY <1>2, <1>3 DEF BeginShutdown, initVars, ghosts
<1>4. ASSUME NEW t \in Threads, NEW h \in Heaps,
             HeapCreate(t, h) \/ RtlCreateHeap(t, h) \/ ProxyHeapAlloc(t, h)
      PROVE  BlocksInv'
  BY <1>2, <1>4 DEF HeapCreate, RtlCreateHeap, ProxyHeapAlloc, initVars, ghosts
<1>5. ASSUME NEW t \in Threads, NoteWrite(t) \/ NotePublish(t) \/ RealHeap(t)
      PROVE  BlocksInv'
  BY <1>2, <1>5 DEF NoteWrite, NotePublish, RealHeap, initVars, ghosts
<1>6. ASSUME NEW t \in Threads, TryShard(t) PROVE BlocksInv'
  <2>0. UNCHANGED <<init, count, lo, stray>> /\ init = "live" /\ pc[t] = "try"
    BY <1>6 DEF TryShard, initVars, TryInv
  <2>1. CASE UNCHANGED <<used, blocks>> BY <1>2, <2>0, <2>1
  <2>2. CASE \E p \in Room(Index(t) + 1) :
                /\ used' = [used EXCEPT ![Index(t) + 1] = used[Index(t) + 1] \cup {p}]
                /\ blocks' = blocks \cup {p} /\ Index(t) + 1 >= 1
    <3>1. PICK s \in 1 .. count : s = Index(t) + 1
      BY <2>0, <2>2, IndexIs DEF TryInv
    <3>2. PICK p \in Room(s) :
                used' = [used EXCEPT ![s] = used[s] \cup {p}] /\ blocks' = blocks \cup {p}
      BY <2>2, <3>1
    <3>3. /\ p \in Nat /\ InRange(p, s) /\ p \notin blocks \cup stray
          /\ \A r \in Shards : p \notin used[r]
      BY <2>0, RoomIsFresh
    <3>4. s \in Shards BY DEF BuildInv, BuildTypeOK, Shards
    <3>5. \A r, q : InRange(q, r)' = InRange(q, r) BY <2>0, RangesStay
    <3>6. /\ used' \in [Shards -> SUBSET Nat]
          /\ \A r \in Shards : used'[r] = IF r = s THEN used[s] \cup {p} ELSE used[r]
      BY <3>2, <3>3, <3>4 DEF BlocksInv
    <3> QED BY <2>0, <3>2, <3>3, <3>4, <3>5, <3>6 DEF BlocksInv
  <2> QED BY <1>6, <2>1, <2>2 DEF TryShard
<1>7. ASSUME NEW p \in blocks, UNCHANGED <<init, count, lo, stray>>, ProxyHeapReAlloc(p)
      PROVE  BlocksInv'
  <2>1. CASE UNCHANGED <<used, blocks>> BY <1>2, <1>7, <2>1
  <2>2. CASE \E q \in Room(ShardOf(p)) :
                /\ used' = [used EXCEPT ![ShardOf(p)] = (used[ShardOf(p)] \ {p}) \cup {q}]
                /\ blocks' = (blocks \ {p}) \cup {q}
    <3>1. PICK s \in 1 .. count : s = ShardOf(p) /\ p \in used[s] BY BlockAtHome
    <3>2. PICK q \in Room(s) : /\ used' = [used EXCEPT ![s] = (used[s] \ {p}) \cup {q}]
                               /\ blocks' = (blocks \ {p}) \cup {q}
      BY <2>2, <3>1
    <3>3. init = "live" /\ \A r \in Shards : p \in used[r] => r = s BY <3>1, BlockAtHome
    <3>4. /\ q \in Nat /\ InRange(q, s) /\ q \notin blocks \cup stray
          /\ \A r \in Shards : q \notin used[r]
      BY <3>3, RoomIsFresh
    <3>5. s \in Shards BY DEF BuildInv, BuildTypeOK, Shards
    <3>6. \A r, x : InRange(x, r)' = InRange(x, r) BY <1>7, <3>3, RangesStay
    <3>7. /\ used' \in [Shards -> SUBSET Nat]
          /\ \A r \in Shards : used'[r] = IF r = s THEN (used[s] \ {p}) \cup {q} ELSE used[r]
      BY <3>2, <3>4, <3>5 DEF BlocksInv
    <3>8. p \notin stray BY DEF BlocksInv
    <3> QED BY <1>7, <3>1, <3>2, <3>3, <3>4, <3>5, <3>6, <3>7, <3>8 DEF BlocksInv
  <2> QED BY <1>7, <2>1, <2>2 DEF ProxyHeapReAlloc
<1>8. ASSUME NEW t \in Threads, NEW p \in blocks, HeapReAlloc(t, p) PROVE BlocksInv'
  BY <1>7, <1>8 DEF HeapReAlloc, NoCall, initVars
<1>9. ASSUME NEW t \in Threads, NEW p \in blocks, RtlReAllocateHeap(t, p) PROVE BlocksInv'
  <2>1. UNCHANGED <<init, count, lo>> BY <1>9 DEF RtlReAllocateHeap, NoCall, initVars
  <2>2. CASE ProxyHeapReAlloc(p) /\ UNCHANGED stray BY <1>7, <2>1, <2>2
  <2>3. CASE blocks' = blocks \ {p} /\ stray' = stray \cup {p} /\ UNCHANGED used
    BY <2>1, <2>3, BlockAtHome DEF BlocksInv, InRange
  <2> QED BY <1>9, <2>2, <2>3 DEF RtlReAllocateHeap
<1>10. ASSUME NEW t \in Threads, NEW p \in blocks, ProxyHeapFree(t, p) PROVE BlocksInv'
  <2>1. UNCHANGED <<init, count, lo, stray>> /\ blocks' = blocks \ {p}
    BY <1>10 DEF ProxyHeapFree, NoCall, initVars
  <2>2. PICK s \in 1 .. count : s = ShardOf(p) /\ p \in used[s] BY BlockAtHome
  <2>3. init = "live" /\ \A r \in Shards : p \in used[r] => r = s BY <2>2, BlockAtHome
  <2>4. ShardHandleLive(s)
    BY <2>3 DEF BuildInv, ShardHandleLive
  <2>5. /\ used' \in [Shards -> SUBSET Nat]
        /\ \A r \in Shards : used'[r] = IF r = s THEN used[s] \ {p} ELSE used[r]
    BY <1>10, <2>2, <2>4 DEF BlocksInv, ProxyHeapFree
  <2>6. \A r, x : InRange(x, r)' = InRange(x, r) BY <2>1, <2>3, RangesStay
  <2>7. p \notin stray BY DEF BlocksInv
  <2> QED BY <2>1, <2>2, <2>3, <2>5, <2>6, <2>7 DEF BlocksInv
<1> QED BY <1>1, <1>3, <1>4, <1>5, <1>6, <1>8, <1>9, <1>10 DEF HeapShardsNext

-----------------------------------------------------------------------------
(* The table of executable heaps *)

OneCreator == \A t, u \in Creators : t = u

\* The one creator writes behind the count, which it has read; every executable
\* heap the game has is in the table or was never to be; and a request that is
\* past the table names none that is in it.
NoteInv ==
    /\ execTable \in [1 .. MaxExec -> Heaps \cup {NoHeap}] /\ execCount \in 0 .. MaxExec
    /\ n \in [Threads -> Nat]
    /\ \A t \in Threads :
         /\ pc[t] \in {"note", "publish"} => t \in Creators /\ n[t] = execCount
                                             /\ execCount < MaxExec
         /\ pc[t] = "publish" => execTable[n[t] + 1] = heap[t]
         /\ pc[t] \in {"try", "real"} /\ heap[t] \in Exec => heap[t] \in unnoted
    /\ \A h \in made \cap Exec : h \in unnoted \/ IsExecHeap(h)

\* At first the game has no executable heap.
LEMMA InitNoteInv == HeapShardsInit => NoteInv
BY ShardAssumption DEF HeapShardsInit, NoteInv

\* Every step keeps NoteInv, with one creator.
LEMMA NoteStep ==
    ASSUME TryInv, NoteInv, OneCreator, HeapShardsNext
    PROVE  NoteInv'
<1> USE ShardAssumption
<1>1. ASSUME UNCHANGED <<noteVars, pc, heap, n>> PROVE NoteInv'
  BY <1>1 DEF NoteInv, noteVars, IsExecHeap
<1>2. CASE InitCarve \/ InitCommit \/ InitCreate \/ InitFallback
  <2>1. InitOnly BY <1>2 DEF InitCarve, InitCommit, InitCreate, InitFallback
  <2> QED BY <1>1, <2>1 DEF InitOnly, callVars
<1>3. CASE BeginShutdown BY <1>1, <1>3 DEF BeginShutdown, callVars
<1>4. ASSUME NEW t \in Threads, NEW h \in Heaps, HeapCreate(t, h) PROVE NoteInv'
  BY <1>4 DEF HeapCreate, NoteInv, callVars, IsExecHeap
<1>5. ASSUME NEW t \in Threads, NEW h \in Heaps, RtlCreateHeap(t, h) PROVE NoteInv'
  <2>1. UNCHANGED <<execTable, execCount>> /\ t \in Creators BY <1>5 DEF RtlCreateHeap
  <2>2. CASE execCount >= MaxExec
    BY <1>5, <2>1, <2>2 DEF RtlCreateHeap, NoteInv, callVars, IsExecHeap
  <2>3. CASE ~(execCount >= MaxExec)
    <3>1. /\ pc' = [pc EXCEPT ![t] = "note"] /\ heap' = [heap EXCEPT ![t] = h]
          /\ n' = [n EXCEPT ![t] = execCount] /\ UNCHANGED <<made, unnoted>>
      BY <1>5, <2>3 DEF RtlCreateHeap
    <3>2. pc'[t] = "note" /\ n'[t] = execCount /\ n' \in [Threads -> Nat]
      BY <3>1 DEF NoteInv, TryInv, CallTypeOK
    <3>3. \A u \in Threads \ {t} : pc'[u] = pc[u] /\ heap'[u] = heap[u] /\ n'[u] = n[u]
      BY <3>1 DEF NoteInv, TryInv, CallTypeOK
    <3>4. execCount < MaxExec BY <2>3 DEF NoteInv
    <3> QED BY <2>1, <3>1, <3>2, <3>3, <3>4 DEF NoteInv, IsExecHeap
  <2> QED BY <2>2, <2>3
<1>6. ASSUME NEW t \in Threads, NoteWrite(t) PROVE NoteInv'
  <2>1. /\ pc[t] = "note" /\ execTable' = [execTable EXCEPT ![n[t] + 1] = heap[t]]
        /\ pc' = [pc EXCEPT ![t] = "publish"]
        /\ UNCHANGED <<execCount, made, unnoted, heap, n>>
    BY <1>6 DEF NoteWrite
  <2>2. t \in Creators /\ n[t] = execCount /\ execCount < MaxExec BY <2>1 DEF NoteInv
  <2>3. \A u \in Threads \ {t} : pc[u] \notin {"note", "publish"}
    BY <2>2 DEF NoteInv, OneCreator
  <2>4. pc'[t] = "publish" /\ \A u \in Threads \ {t} : pc'[u] = pc[u]
    BY <2>1 DEF TryInv, CallTypeOK
  <2>5. /\ execTable' \in [1 .. MaxExec -> Heaps \cup {NoHeap}]
        /\ execTable'[n[t] + 1] = heap[t]
        /\ \A i \in 1 .. execCount : execTable'[i] = execTable[i]
    BY <2>1, <2>2 DEF NoteInv, TryInv, CallTypeOK
  <2>6. \A h : IsExecHeap(h) => IsExecHeap(h)' BY <2>1, <2>5 DEF IsExecHeap
  <2> QED BY <2>1, <2>2, <2>3, <2>4, <2>5, <2>6 DEF NoteInv
<1>7. ASSUME NEW t \in Threads, NotePublish(t) PROVE NoteInv'
  <2>1. /\ pc[t] = "publish" /\ execCount' = n[t] + 1 /\ made' = made \cup {heap[t]}
        /\ pc' = [pc EXCEPT ![t] = "game"] /\ heap' = [heap EXCEPT ![t] = NoHeap]
        /\ n' = [n EXCEPT ![t] = 0] /\ UNCHANGED <<execTable, unnoted>>
    BY <1>7 DEF NotePublish
  <2>2. /\ t \in Creators /\ n[t] = execCount /\ execCount < MaxExec
        /\ execTable[execCount + 1] = heap[t] /\ execCount \in Nat
    BY <2>1 DEF NoteInv
  <2>3. \A u \in Threads \ {t} : pc[u] \notin {"note", "publish"}
    BY <2>2 DEF NoteInv, OneCreator
  <2>4. /\ pc'[t] = "game" /\ n' \in [Threads -> Nat]
        /\ \A u \in Threads \ {t} : pc'[u] = pc[u] /\ heap'[u] = heap[u] /\ n'[u] = n[u]
    BY <2>1 DEF NoteInv, TryInv, CallTypeOK
  <2>5. \A h : IsExecHeap(h) \/ h = heap[t] => IsExecHeap(h)'
    BY <2>1, <2>2 DEF IsExecHeap
  <2>6. execCount' \in 0 .. MaxExec BY <2>1, <2>2
  <2> QED BY <2>1, <2>2, <2>3, <2>4, <2>5, <2>6 DEF NoteInv
<1>8. ASSUME NEW t \in Threads, NEW h \in Heaps, ProxyHeapAlloc(t, h) PROVE NoteInv'
  <2>1. /\ pc' = [pc EXCEPT ![t] = "try"] /\ heap' = [heap EXCEPT ![t] = h]
        /\ h \in made /\ ~IsExecHeap(h) /\ UNCHANGED <<noteVars, n>>
    BY <1>8 DEF ProxyHeapAlloc
  <2>2. /\ pc'[t] = "try" /\ heap'[t] = h
        /\ \A u \in Threads \ {t} : pc'[u] = pc[u] /\ heap'[u] = heap[u]
    BY <2>1 DEF TryInv, CallTypeOK
  <2>3. h \in Exec => h \in unnoted BY <2>1 DEF NoteInv
  <2> QED BY <2>1, <2>2, <2>3 DEF NoteInv, noteVars, IsExecHeap
<1>9. ASSUME NEW t \in Threads, TryShard(t) \/ RealHeap(t) PROVE NoteInv'
  <2>1. UNCHANGED <<noteVars, n>> /\ pc[t] \in {"try", "real"}
    BY <1>9 DEF TryShard, RealHeap
  <2>2. CASE Returns(t)
    <3>1. /\ pc'[t] = "game"
          /\ \A u \in Threads \ {t} : pc'[u] = pc[u] /\ heap'[u] = heap[u]
      BY <2>2 DEF Returns, TryInv, CallTypeOK
    <3> QED BY <2>1, <3>1 DEF NoteInv, noteVars, IsExecHeap
  <2>3. CASE Goes(t)
    <3>1. /\ pc'[t] \in {"try", "real"} /\ heap' = heap
          /\ \A u \in Threads \ {t} : pc'[u] = pc[u]
      BY <2>3 DEF Goes, TryInv, CallTypeOK
    <3> QED BY <2>1, <3>1 DEF NoteInv, noteVars, IsExecHeap
  <2>4. CASE UNCHANGED <<pc, heap>> BY <1>1, <2>1, <2>4
  <2> QED BY <1>9, <2>2, <2>3, <2>4 DEF TryShard, RealHeap
<1>10. ASSUME NEW t \in Threads, NEW p \in blocks,
             ProxyHeapFree(t, p) \/ HeapReAlloc(t, p) \/ RtlReAllocateHeap(t, p)
      PROVE  NoteInv'
  <2>1. NoCall BY <1>10 DEF ProxyHeapFree, HeapReAlloc, RtlReAllocateHeap
  <2> QED BY <1>1, <2>1 DEF NoCall, callVars
<1> QED BY <1>2, <1>3, <1>4, <1>5, <1>6, <1>7, <1>8, <1>9, <1>10 DEF HeapShardsNext

-----------------------------------------------------------------------------
(* The theorems *)

\* The start-up's steps are BuildStep's; no other step touches what it built.
LEMMA BuildInvariance == HeapShardsSpec => []BuildInv
<1>1. BuildInv /\ [HeapShardsNext]_shardVars => BuildInv'
  <2> SUFFICES ASSUME BuildInv, [HeapShardsNext]_shardVars PROVE BuildInv'
    OBVIOUS
  <2>1. ASSUME UNCHANGED initVars PROVE BuildInv'
    BY <2>1 DEF BuildInv, BuildTypeOK, initVars, Base
  <2>2. CASE InitCarve \/ InitCommit \/ InitCreate \/ InitFallback BY <2>2, BuildStep
  <2>3. CASE ~(InitCarve \/ InitCommit \/ InitCreate \/ InitFallback)
    <3>1. UNCHANGED initVars
      BY <2>3 DEF HeapShardsNext, shardVars, BeginShutdown, HeapCreate, RtlCreateHeap,
                  ProxyHeapAlloc, NoteWrite, NotePublish, TryShard, RealHeap, ProxyHeapFree,
                  HeapReAlloc, RtlReAllocateHeap, NoCall
    <3> QED BY <2>1, <3>1
  <2> QED BY <2>2, <2>3
<1> QED BY <1>1, InitBuildInv, PTL DEF HeapShardsSpec

\* TryInv and BlocksInv hold over what the start-up built.
LEMMA ShardsInvariance == HeapShardsSpec => [](TryInv /\ BlocksInv)
<1>1. HeapShardsInit => TryInv /\ BlocksInv
  BY InitTryInv DEF HeapShardsInit, BlocksInv
<1>2. BuildInv /\ TryInv /\ BlocksInv /\ [HeapShardsNext]_shardVars => (TryInv /\ BlocksInv)'
  <2>1. ASSUME TryInv, BlocksInv, UNCHANGED shardVars PROVE (TryInv /\ BlocksInv)'
    BY <2>1 DEF TryInv, CallTypeOK, BlocksInv, InRange, shardVars, initVars, callVars, ghosts
  <2> QED BY <2>1, TryStep, BlocksStep
<1> QED BY <1>1, <1>2, BuildInvariance, PTL DEF HeapShardsSpec

\* ProxyHeapInit keeps exactly the slots whose shards it built, whichever of
\* its steps fails.
THEOREM CarvesAccountedAlways == HeapShardsSpec => []CarvesAccounted
<1>1. BuildInv => CarvesAccounted BY DEF BuildInv, CarvesAccounted
<1> QED BY <1>1, BuildInvariance, PTL

\* ProxyHeapShardOf leads a free and a realloc to the heap that handed the
\* block out.
THEOREM BlockHasOwnerAlways == HeapShardsSpec => []BlockHasOwner
<1>1. BuildInv /\ BlocksInv => BlockHasOwner
  <2> SUFFICES ASSUME BuildInv, BlocksInv PROVE BlockHasOwner
    OBVIOUS
  <2>1. \A p \in blocks : ShardOf(p) # 0 /\ p \in used[ShardOf(p)] BY BlockAtHome
  <2>2. UNION {used[s] : s \in Shards} = blocks \cup stray BY DEF BlocksInv
  <2> QED BY <2>1, <2>2 DEF BlockHasOwner
<1> QED BY <1>1, BuildInvariance, ShardsInvariance, PTL

\* ProxyHeapAlloc returns null only when it has found every shard full.
THEOREM NullMeansFullAlways == HeapShardsSpec => []NullMeansFull
<1>1. TryInv => NullMeansFull
  <2> SUFFICES ASSUME TryInv, NEW t \in Threads,
                      pc[t] = "real", start[t] >= 0, start[t] + k[t] <= LongMax
               PROVE  tried[t] = 1 .. count
    BY DEF NullMeansFull
  <2>1. /\ count \in Nat \ {0} /\ k[t] = count /\ start[t] \in Int
        /\ tried[t] = Visited(count, start[t] % count, count)
    BY DEF TryInv, CallTypeOK
  <2>2. start[t] % count \in 0 .. count - 1 BY <2>1
  <2> QED BY <2>1, <2>2, VisitedEnds
<1> QED BY <1>1, ShardsInvariance, PTL

\* A noted heap is found by IsExecHeap from the moment the game has it: the
\* entry is written before the count, and the count before the hook returns.
THEOREM ExecNotRedirectedAlways == HeapShardsSpec => []ExecNotRedirected
<1>1. CASE OneCreator
  <2>1. TryInv /\ NoteInv /\ [HeapShardsNext]_shardVars => NoteInv'
    <3>1. ASSUME NoteInv, UNCHANGED shardVars PROVE NoteInv'
      BY <3>1 DEF NoteInv, IsExecHeap, shardVars, noteVars, callVars
    <3> QED BY <1>1, <3>1, NoteStep
  <2>2. NoteInv => ExecNotRedirected BY DEF NoteInv, ExecNotRedirected
  <2> QED BY <2>1, <2>2, InitNoteInv, ShardsInvariance, PTL DEF HeapShardsSpec
<1>2. CASE ~OneCreator
  <2>1. ~(Cardinality(Creators) <= 1)
    <3>1. IsFiniteSet(Creators) BY ShardAssumption, FS_Subset
    <3>2. PICK t \in Creators, u \in Creators : t # u BY <1>2 DEF OneCreator
    <3>3. Cardinality({t, u}) <= Cardinality(Creators) BY <3>1, <3>2, FS_Subset
    <3>4. Cardinality({t, u}) = 2
      <4>1. IsFiniteSet({t}) /\ Cardinality({t}) = 1 BY FS_Singleton
      <4>2. Cardinality({t} \cup {u}) = 2 BY <3>2, <4>1, FS_AddElement
      <4>3. {t, u} = {t} \cup {u} OBVIOUS
      <4> QED BY <4>2, <4>3
    <3>5. Cardinality(Creators) \in Nat BY <3>1, FS_CardinalityType
    <3> QED BY <3>3, <3>4, <3>5
  <2>2. ExecNotRedirected BY <2>1 DEF ExecNotRedirected
  <2> QED BY <2>2, PTL
<1> QED BY <1>1, <1>2

-----------------------------------------------------------------------------
(* Which requests are kept out: SardineGate *)

\* Every step of one thread keeps GateInv.
LEMMA GateStepInv ==
    ASSUME GateInv, NEW t \in GameThreads, SomeRequest \in Requests,
           \/ \E r \in Requests : Enter(t, r)
           \/ RecordHeapUse(t) \/ InsertHeap(t) \/ CheckHeap(t)
           \/ CallerIsGraphicsModule(t) \/ ResolveCaller(t) \/ CallerIsAudioModule(t)
           \/ Take(t)
    PROVE  GateInv'
<1> USE DEF GateInv, PassedIsNoDriver, GraphicsHandsOff
<1>1. CASE \E r \in Requests : Enter(t, r) BY <1>1 DEF Enter
<1>2. CASE RecordHeapUse(t) BY <1>2 DEF RecordHeapUse, Goto
<1>3. CASE InsertHeap(t) BY <1>3 DEF InsertHeap, Goto
<1>4. CASE CheckHeap(t) BY <1>4 DEF CheckHeap, Goto, Decline
<1>5. CASE CallerIsGraphicsModule(t)
  BY <1>5 DEF CallerIsGraphicsModule, NotGraphics, Goto, Decline
<1>6. CASE ResolveCaller(t) BY <1>6 DEF ResolveCaller, NotGraphics, Goto, Decline
<1>7. CASE CallerIsAudioModule(t) BY <1>7 DEF CallerIsAudioModule, Goto, Decline
<1>8. CASE Take(t) BY <1>8 DEF Take, Decline
<1> QED BY <1>1, <1>2, <1>3, <1>4, <1>5, <1>6, <1>7, <1>8

\* Hooked_RtlAllocateHeap and Hooked_HeapAlloc keep every request of a graphics
\* driver out of the shards.
THEOREM GraphicsHandsOffAlways ==
    ASSUME ProcessHeaps # {}, Modules # {}
    PROVE  GateSpec => []GraphicsHandsOff
<1>1. SomeRequest \in Requests
  <2>1. PICK h \in ProcessHeaps, m \in Modules : TRUE OBVIOUS
  <2>2. [api |-> "HeapAlloc", heap |-> h, module |-> m] \in Requests BY <2>1 DEF Requests
  <2> QED BY <2>2 DEF SomeRequest
<1>2. GateInit => GateInv
  BY <1>1 DEF GateInit, GateInv, PassedIsNoDriver, GraphicsHandsOff
<1>3. GateInv /\ [GateNext]_gateVars => GateInv'
  <2> SUFFICES ASSUME GateInv, [GateNext]_gateVars PROVE GateInv' OBVIOUS
  <2>1. CASE GateNext BY <1>1, <2>1, GateStepInv DEF GateNext
  <2>2. CASE UNCHANGED gateVars
    BY <2>2 DEF gateVars, GateInv, PassedIsNoDriver, GraphicsHandsOff
  <2> QED BY <2>1, <2>2
<1>4. GateInv => GraphicsHandsOff BY DEF GateInv
<1> QED BY <1>2, <1>3, <1>4, PTL DEF GateSpec
=============================================================================
