----------------------------- MODULE ProxyArena -----------------------------
(***************************************************************************)
(* ProxyAllocator: one contiguous reserve carved into slots of a multiple  *)
(* of the granularity, an address-sorted coalesced free list, one LIFO     *)
(* reuse cache per distinct slot size, and a fixed pool of list nodes.     *)
(*                                                                         *)
(* Allocate, Free's body and Shutdown run under m_cs.  Allocate is split   *)
(* into the steps it takes while it holds the lock (reuse, carve, drain    *)
(* one cached block, carve again, fail); Free tests IsProxyAddress before  *)
(* it takes the lock, so it is split there.  The free list is kept as the  *)
(* set of its blocks: the list is sorted by address, so "first" and "last" *)
(* are the least and the greatest address.  Addresses are offsets from     *)
(* m_arenaBase.  live and lost are ghosts: the slots callers hold, and the *)
(* ranges no list took back because the node pool was empty.               *)
(***************************************************************************)
EXTENDS Integers, Sequences, FiniteSets, FiniteSetsExt

CONSTANTS ArenaSize,           \* m_arenaSize, in bytes
          Granularity,         \* m_allocGranularity
          Sizes,               \* request sizes callers pass
          TopDownBytes,        \* m_topDownBytes
          MaxSizeClasses,      \* kMaxSizeClasses
          MaxCachedPerClass,   \* kMaxCachedPerClass
          NodeCap,             \* kNodePoolBytes / sizeof(Block)
          MaxRequests          \* bound on Allocate calls

ASSUME ArenaAssumption ==
    /\ ArenaSize \in Nat \ {0}
    /\ Granularity \in Nat \ {0}
    /\ ArenaSize % Granularity = 0
    /\ Sizes \subseteq Nat \ {0}
    /\ TopDownBytes \in Nat
    /\ MaxSizeClasses \in Nat
    /\ MaxCachedPerClass \in Nat
    /\ NodeCap \in Nat \ {0}
    /\ MaxRequests \in Nat

VARIABLES phase,        \* "new": m_arenaBase null; "up"; "down": after Shutdown
          free,         \* blocks of the list m_freeListHead
          classSizes,   \* m_sizeClasses[i].classSize, i < m_sizeClassCount
          cached,       \* m_sizeClasses: slot size -> addresses, top of LIFO last
          nodes,        \* length of m_nodeFreeList
          used, liveRequested, classCached, active,
          requests, failures, granted, freed, reused,
          call,         \* the Allocate that holds m_cs, or NoCall
          freeing,      \* slots whose Free has passed the IsProxyAddress test
          live, lost    \* ghosts

arenaLists == <<free, classSizes, cached, nodes>>
arenaCounters == <<used, liveRequested, classCached, active,
                   requests, failures, granted, freed, reused>>
arenaVars == <<phase, arenaLists, arenaCounters, call, freeing, live, lost>>

-----------------------------------------------------------------------------
(* Helpers *)

AlignUp(v) == LET x == v + (Granularity - 1) IN x - (x % Granularity)

ClassSizes == {AlignUp(s) : s \in Sizes}

\* Allocate's fromTop: the size-based direction, or the default "low end".
Directions(s) == IF s >= TopDownBytes THEN BOOLEAN ELSE {FALSE}

NoCall == [stage |-> "idle", size |-> 0, top |-> FALSE]

End(b) == b.addr + b.size

\* InsertFreeSortedAndCoalesce: the list is already coalesced, so the pass
\* over it can only join the new block to the neighbours it touches.
LeftOf(b)  == {f \in free : End(f) = b.addr}
RightOf(b) == {f \in free : f.addr = End(b)}

\* Mutant: the pass that joins neighbours is missing.
InsertFreeUnjoined(b) == free \cup {b}

InsertFreeSortedAndCoalesce(b) ==
    LET lo == IF LeftOf(b) = {} THEN b.addr ELSE (CHOOSE l \in LeftOf(b) : TRUE).addr
        hi == IF RightOf(b) = {} THEN End(b) ELSE End(CHOOSE r \in RightOf(b) : TRUE)
    IN  (free \ (LeftOf(b) \cup RightOf(b))) \cup {[addr |-> lo, size |-> hi - lo]}

\* Mutant: a joined neighbour's node is not returned to the pool.
NodesLeaked(b) == 0

\* Nodes an insertion gives back: one per neighbour that was joined.
NodesJoined(b) == Cardinality(LeftOf(b)) + Cardinality(RightOf(b))

Fitting(need) == {f \in free : f.size >= need}

\* TakeFreeFit: first fit from the low end, or last fit from the high end.
FirstFit(f, need, top) ==
    \A g \in Fitting(need) : IF top THEN g.addr <= f.addr ELSE f.addr <= g.addr

\* The block is taken whole when what would remain is below the granularity.
TakesWhole(f, need) == f.size - need < Granularity

TakenSlot(f, need, top) ==
    IF TakesWhole(f, need) THEN f
    ELSE IF top THEN [addr |-> f.addr + (f.size - need), size |-> need]
    ELSE [addr |-> f.addr, size |-> need]

\* Mutant: the top-down carve leaves the upper part on the list.
RemainderUpper(f, need, top) == [addr |-> f.addr + need, size |-> f.size - need]

\* What stays on the list of a block that is not taken whole.
Remainder(f, need, top) ==
    IF top THEN [addr |-> f.addr, size |-> f.size - need]
    ELSE [addr |-> f.addr + need, size |-> f.size - need]

FreeAfterTake(f, need, top) ==
    (free \ {f}) \cup (IF TakesWhole(f, need) THEN {} ELSE {Remainder(f, need, top)})

Top(seq) == seq[Len(seq)]
Pop(seq) == SubSeq(seq, 1, Len(seq) - 1)

CacheEmpty == \A c \in ClassSizes : cached[c] = <<>>

\* Free's counters: x - n, but never below zero.
Saturate(x, n) == IF x >= n THEN x - n ELSE 0

\* Mutant: a block that leaves a cache stays counted as cached.
DropNothing(x, n) == x

\* The bytes cached: reduced only when the whole of n is covered.
DropCovered(x, n) == IF x >= n THEN x - n ELSE x

-----------------------------------------------------------------------------
(* Life cycle *)

ArenaInit ==
    /\ phase = "new"
    /\ free = {}
    /\ classSizes = <<>>
    /\ cached = [c \in ClassSizes |-> <<>>]
    /\ nodes = 0
    /\ used = 0 /\ liveRequested = 0 /\ classCached = 0 /\ active = 0
    /\ requests = 0 /\ failures = 0 /\ granted = 0 /\ freed = 0 /\ reused = 0
    /\ call = NoCall
    /\ freeing = {}
    /\ live = {} /\ lost = {}

\* Initialize / InitFromShared: the node pool, then the whole arena on the list.
Initialize ==
    /\ phase = "new" /\ call = NoCall
    /\ phase' = "up"
    /\ free' = {[addr |-> 0, size |-> ArenaSize]}
    /\ nodes' = NodeCap - 1
    /\ UNCHANGED <<classSizes, cached, arenaCounters, call, freeing, live, lost>>

\* The node pool is there but no address range could be reserved.
InitializeFails ==
    /\ phase = "new" /\ call = NoCall /\ nodes = 0
    /\ nodes' = NodeCap
    /\ UNCHANGED <<phase, free, classSizes, cached, arenaCounters, call, freeing, live, lost>>

\* Mutant: the node pool outlives the arena.
ShutdownKeepsNodes ==
    /\ phase # "down" /\ call = NoCall
    /\ phase' = "down"
    /\ free' = {} /\ used' = 0 /\ active' = 0
    /\ live' = {}
    /\ UNCHANGED <<classSizes, cached, nodes, liveRequested, classCached,
                   requests, failures, granted, freed, reused, call, freeing, lost>>

\* Shutdown leaves the size classes, classCached and liveRequested as they are.
Shutdown ==
    /\ phase # "down" /\ call = NoCall
    /\ phase' = "down"
    /\ free' = {} /\ nodes' = 0 /\ used' = 0 /\ active' = 0
    /\ live' = {}
    /\ UNCHANGED <<classSizes, cached, liveRequested, classCached,
                   requests, failures, granted, freed, reused, call, freeing, lost>>

-----------------------------------------------------------------------------
(* Allocate *)

\* The lock is free, the arena is not there: counted and refused.
AllocateWithoutArena ==
    /\ call = NoCall /\ phase # "up" /\ requests < MaxRequests
    /\ requests' = requests + 1
    /\ failures' = failures + 1
    /\ UNCHANGED <<phase, arenaLists, used, liveRequested, classCached, active,
                   granted, freed, reused, call, freeing, live, lost>>

AllocateEnter(size, top) ==
    /\ call = NoCall /\ phase = "up" /\ requests < MaxRequests
    /\ requests' = requests + 1
    /\ call' = [stage |-> "search", size |-> size, top |-> top]
    /\ UNCHANGED <<phase, arenaLists, used, liveRequested, classCached, active,
                   failures, granted, freed, reused, freeing, live, lost>>

need == AlignUp(call.size)

\* The common tail of a successful Allocate: counters, and the lock released.
GrantSlot(slot) ==
    /\ used' = used + slot.size
    /\ liveRequested' = liveRequested + call.size
    /\ active' = active + 1
    /\ granted' = granted + slot.size
    /\ live' = live \cup {[addr |-> slot.addr, size |-> slot.size, req |-> call.size]}
    /\ call' = NoCall
    /\ UNCHANGED <<phase, requests, failures, freed, freeing, lost>>

\* PopSizeClass found a block of exactly this slot size.
AllocateReuse ==
    /\ call.stage = "search" /\ cached[need] # <<>>
    /\ cached' = [cached EXCEPT ![need] = Pop(@)]
    /\ nodes' = nodes + 1
    /\ classCached' = DropCovered(classCached, need)
    /\ reused' = reused + need
    /\ GrantSlot([addr |-> Top(cached[need]), size |-> need])
    /\ UNCHANGED <<free, classSizes>>

\* Mutant: no second search once the caches are drained.
SearchingOnce == call.stage = "search" /\ cached[need] = <<>>

\* Ready for TakeFreeFit: no exact block cached, or the drain is over.
Searching == \/ call.stage = "search" /\ cached[need] = <<>>
             \/ call.stage = "drain" /\ CacheEmpty

AllocateCarve ==
    /\ Searching
    /\ \E f \in Fitting(need) :
          /\ FirstFit(f, need, call.top)
          /\ free' = FreeAfterTake(f, need, call.top)
          /\ nodes' = IF TakesWhole(f, need) THEN nodes + 1 ELSE nodes
          /\ GrantSlot(TakenSlot(f, need, call.top))
    /\ UNCHANGED <<classSizes, cached, classCached, reused>>

\* Nothing fits but the caches hold bytes: ReclaimCache is entered.
AllocateReclaim ==
    /\ call.stage = "search" /\ cached[need] = <<>>
    /\ Fitting(need) = {} /\ classCached > 0
    /\ call' = [call EXCEPT !.stage = "drain"]
    /\ UNCHANGED <<phase, arenaLists, arenaCounters, freeing, live, lost>>

\* ReclaimCache takes the classes in order, each from the top of its LIFO.
DrainsNext(i) == /\ cached[classSizes[i]] # <<>>
                 /\ \A j \in 1 .. (i - 1) : cached[classSizes[j]] = <<>>

\* One block: insert it (it is lost when no node is left), then free its node.
ReclaimCacheBlock ==
    /\ call.stage = "drain"
    /\ \E i \in 1 .. Len(classSizes) :
          LET c == classSizes[i]
              b == [addr |-> Top(cached[c]), size |-> c]
          IN  /\ DrainsNext(i)
              /\ cached' = [cached EXCEPT ![c] = Pop(@)]
              /\ classCached' = DropCovered(classCached, c)
              /\ IF nodes > 0
                 THEN /\ free' = InsertFreeSortedAndCoalesce(b)
                      /\ nodes' = nodes + NodesJoined(b)
                      /\ UNCHANGED lost
                 ELSE /\ lost' = lost \cup {b}
                      /\ nodes' = nodes + 1
                      /\ UNCHANGED free
    /\ UNCHANGED <<phase, classSizes, used, liveRequested, active, requests,
                   failures, granted, freed, reused, call, freeing, live>>

\* Mutant: refused without draining the reuse caches first.
AllocateFailTooSoon ==
    /\ Searching /\ Fitting(need) = {}
    /\ failures' = failures + 1
    /\ call' = NoCall
    /\ UNCHANGED <<phase, arenaLists, used, liveRequested, classCached, active,
                   requests, granted, freed, reused, freeing, live, lost>>

AllocateFail ==
    /\ Searching /\ Fitting(need) = {}
    /\ call.stage = "search" => classCached = 0
    /\ failures' = failures + 1
    /\ call' = NoCall
    /\ UNCHANGED <<phase, arenaLists, used, liveRequested, classCached, active,
                   requests, granted, freed, reused, freeing, live, lost>>

-----------------------------------------------------------------------------
(* Free(ptr, size) *)

\* The test outside the lock; a pointer that fails it is ignored.
IsProxyAddress(addr) == phase = "up" /\ addr < ArenaSize

FreeEnter(s) ==
    /\ s \in live \ freeing /\ IsProxyAddress(s.addr)
    /\ freeing' = freeing \cup {s}
    /\ UNCHANGED <<phase, arenaLists, arenaCounters, call, live, lost>>

KnownClass(sz) == \E i \in 1 .. Len(classSizes) : classSizes[i] = sz
ClassRegistered(sz) == KnownClass(sz) \/ Len(classSizes) < MaxSizeClasses

\* PushSizeClass succeeds.
CanPush(sz) == ClassRegistered(sz) /\ Len(cached[sz]) < MaxCachedPerClass /\ nodes > 0

FreeLocked(s) ==
    LET sz == AlignUp(s.req)
        b  == [addr |-> s.addr, size |-> sz]
    IN  /\ s \in freeing /\ call = NoCall
        /\ freeing' = freeing \ {s}
        /\ live' = live \ {s}
        /\ classSizes' = IF KnownClass(sz) \/ ~ClassRegistered(sz)
                         THEN classSizes ELSE Append(classSizes, sz)
        /\ \/ /\ CanPush(sz)
              /\ cached' = [cached EXCEPT ![sz] = Append(@, s.addr)]
              /\ nodes' = nodes - 1
              /\ classCached' = classCached + sz
              /\ UNCHANGED <<free, lost>>
           \/ /\ ~CanPush(sz) /\ nodes > 0
              /\ free' = InsertFreeSortedAndCoalesce(b)
              /\ nodes' = (nodes - 1) + NodesJoined(b)
              /\ UNCHANGED <<cached, classCached, lost>>
           \/ /\ ~CanPush(sz) /\ nodes = 0
              /\ lost' = lost \cup {b}
              /\ UNCHANGED <<free, cached, nodes, classCached>>
        /\ used' = Saturate(used, sz)
        /\ liveRequested' = Saturate(liveRequested, s.req)
        /\ active' = Saturate(active, 1)
        /\ freed' = freed + sz
        /\ UNCHANGED <<phase, requests, failures, granted, reused, call>>

-----------------------------------------------------------------------------
\* GetStats: what the heartbeat reads under the lock.
GetStats ==
    [arenaSize |-> IF phase = "up" THEN ArenaSize ELSE 0,
     usedBytes |-> used,
     freeBytes |-> MapThenSumSet(LAMBDA f : f.size, free),
     largestFreeSpan |-> IF free = {} THEN 0 ELSE Max({f.size : f \in free}),
     classCachedBytes |-> classCached]

ArenaNext ==
    \/ Initialize \/ InitializeFails \/ Shutdown
    \/ AllocateWithoutArena
    \/ \E size \in Sizes : \E top \in Directions(size) : AllocateEnter(size, top)
    \/ AllocateReuse \/ AllocateCarve \/ AllocateReclaim
    \/ ReclaimCacheBlock \/ AllocateFail
    \/ \E s \in live : FreeEnter(s)
    \/ \E s \in freeing : FreeLocked(s)

ArenaSpec == ArenaInit /\ [][ArenaNext]_arenaVars

\* A thread inside Allocate runs on: nothing it waits for is held by others.
AllocateProgress == AllocateReuse \/ AllocateCarve \/ AllocateReclaim
                    \/ ReclaimCacheBlock \/ AllocateFail

ArenaFairSpec == ArenaSpec /\ WF_arenaVars(AllocateProgress)
-----------------------------------------------------------------------------
(* Properties *)

Apart(b, c) == End(b) <= c.addr \/ End(c) <= b.addr

CachedBlock(c, i) == [addr |-> cached[c][i], size |-> c]

CachedAt == {p \in ClassSizes \X (1 .. MaxCachedPerClass) : p[2] <= Len(cached[p[1]])}

\* Every list, counter and call of ProxyAllocator has its type; the counters
\* the code keeps unsigned never go below zero.
ArenaTypeOK ==
    /\ phase \in {"new", "up", "down"}
    /\ free \subseteq [addr : Nat, size : Nat \ {0}]
    /\ classSizes \in Seq(ClassSizes)
    /\ cached \in [ClassSizes -> Seq(Nat)]
    /\ nodes \in Nat
    /\ used \in Nat /\ liveRequested \in Nat /\ classCached \in Nat /\ active \in Nat
    /\ requests \in Nat /\ failures \in Nat /\ granted \in Nat
    /\ freed \in Nat /\ reused \in Nat
    /\ call \in {NoCall} \cup [stage : {"search", "drain"}, size : Sizes, top : BOOLEAN]
    /\ live \subseteq [addr : Nat, size : Nat \ {0}, req : Sizes]
    /\ freeing \subseteq [addr : Nat, size : Nat \ {0}, req : Sizes]
    /\ lost \subseteq [addr : Nat, size : Nat \ {0}]

FreeApart ==
    \A f \in free : /\ End(f) <= ArenaSize
                    /\ \A g \in free : f # g => Apart(f, g)

LiveApart ==
    \A s \in live : /\ End(s) <= ArenaSize
                    /\ \A t \in live : s # t => Apart(s, t)
                    /\ \A f \in free : Apart(s, f)

CachedApart ==
    \A c \in ClassSizes : \A i \in 1 .. Len(cached[c]) :
        /\ End(CachedBlock(c, i)) <= ArenaSize
        /\ \A f \in free : Apart(CachedBlock(c, i), f)
        /\ \A s \in live : Apart(CachedBlock(c, i), s)
        /\ \A d \in ClassSizes : \A j \in 1 .. Len(cached[d]) :
              <<c, i>> # <<d, j>> => Apart(CachedBlock(c, i), CachedBlock(d, j))

\* The arena never hands the same byte to two owners: the slots callers hold,
\* the free list and the reuse caches of ProxyAllocator are pairwise disjoint
\* and inside the arena, through every order of Allocate, Free and reclaim.
NoOverlap == FreeApart /\ LiveApart /\ CachedApart

\* No address space leaks and the statistics are right: the free list, the
\* live slots, the caches and what an empty node pool dropped add up to the
\* arena, the counters agree with the slots callers hold, and reuse_rate
\* (reused over granted) is at most one, as Allocate's comment requires.
StatsAddUp ==
    /\ phase = "up" =>
         /\ GetStats.freeBytes + GetStats.usedBytes + GetStats.classCachedBytes
              + MapThenSumSet(LAMBDA b : b.size, lost) = GetStats.arenaSize
         /\ used = MapThenSumSet(LAMBDA s : s.size, live)
         /\ liveRequested = MapThenSumSet(LAMBDA s : s.req, live)
         /\ active = Cardinality(live)
         /\ granted = used + freed
    /\ reused <= granted

\* InsertFreeSortedAndCoalesce leaves no two touching blocks on the free list,
\* whatever order slots come back in.
FreeListCoalesced == \A f, g \in free : End(f) # g.addr

\* Every list node is on exactly one of the three kinds of list: none leaks
\* and none is freed twice.
NodesAccounted ==
    phase = "up" => nodes + Cardinality(free) + Cardinality(CachedAt) = NodeCap

\* Allocate refuses a request only when no range of the arena that is free of
\* live slots (and of dropped ranges) could hold it: the drain of the reuse
\* caches and the coalescing leave no usable hole behind.
FailureJustified ==
    [][(phase = "up" /\ failures' # failures) =>
          \A a \in 0 .. (ArenaSize - need) :
              \E s \in live \cup lost : ~Apart([addr |-> a, size |-> need], s)]_arenaVars

\* After Shutdown a Free that had passed the address test, or a late Allocate,
\* puts nothing back on any list and hands nothing out.
ShutdownIsFinal ==
    [][phase = "down" => /\ phase' = "down"
                         /\ free' = {} /\ live' = {} /\ cached' = cached
                         /\ used' = 0 /\ active' = 0]_arenaVars

\* An Allocate that took the lock releases it: the drain of the caches ends
\* and the search after it succeeds or fails.
LockHandedBack == call # NoCall ~> call = NoCall

Contract == INSTANCE ArenaContract
              WITH held <- {[addr |-> s.addr, size |-> s.size] : s \in live}

\* ProxyAllocator implements the arena contract: a step is a grant of a range
\* apart from every slot that is out, a return, an opening, a closing, or
\* invisible to callers.
ImplementsContract == Contract!ContractSpec
-----------------------------------------------------------------------------
(* The inductive invariant behind ArenaTypeOK and NoOverlap *)

\* What the life cycle leaves behind: without an arena nothing is listed, held
\* or searched for; after Shutdown there is no node to list anything with; and
\* while the arena is up a slot that is being freed is still held.
PhaseOK ==
    /\ phase # "up" => free = {} /\ live = {} /\ call = NoCall
    /\ phase = "down" => nodes = 0
    /\ phase = "new" => freeing = {} /\ \A c \in ClassSizes : cached[c] = <<>>
    /\ phase = "up" => freeing \subseteq live

\* The slot size Free recomputes from the request is inside the slot granted.
SlotsCoverRequests == \A s \in live : AlignUp(s.req) <= s.size

ArenaInv ==
    /\ ArenaTypeOK /\ IsFiniteSet(free)
    /\ NoOverlap /\ PhaseOK /\ SlotsCoverRequests
=============================================================================
