------------------------------ MODULE HeapShards ------------------------------
(***************************************************************************)
(* The private heaps ("shards") that take the game's heap requests below   *)
(* 64 KB.  ProxyHeapInit builds them before the hooks go live, each over a *)
(* slot carved from the arena or, when any step of that fails, as a heap   *)
(* of its own.  The allocation hooks then try the shards round robin, and  *)
(* free and realloc find a block's shard by its address, with no lock and  *)
(* no record.  Requests to executable heaps must stay where they are, so   *)
(* those heaps are noted in a table when they are created.                 *)
(*                                                                         *)
(* A shard covers ShardSize addresses from its base; positions 1 ..        *)
(* ArenaSlots are in the arena, the others are what the OS gives.  An      *)
(* operation of the real heap is atomic (it has its own lock) and the      *)
(* calls it makes itself pass through the hooks (ProxyHeapHookScope).      *)
(* s_proxyHeapRR is a signed LONG and wraps.  blocks, stray, tried and     *)
(* unnoted are ghosts: the shard blocks the game holds, the ones that      *)
(* reached a real heap that does not own them, the shards a call found     *)
(* without room, and the executable heaps the table was not told of.       *)
(***************************************************************************)
EXTENDS Integers, FiniteSets

CONSTANTS Threads,      \* game threads
          Creators,     \* the threads that create executable heaps
          Heaps, Exec,  \* the game's heaps, and the executable ones among them
          ArenaSlots, Positions,
          ShardCount,   \* TS3VAS_PROXY_HEAP_SHARDS
          ShardSize,    \* blocks a shard holds
          MaxExec,      \* kMaxExecHeaps
          LongMax,      \* 2^31 - 1
          NoHeap

ASSUME ShardAssumption ==
    /\ IsFiniteSet(Threads) /\ Creators \subseteq Threads /\ Exec \subseteq Heaps /\ NoHeap \notin Heaps
    /\ ArenaSlots \in Nat /\ Positions \in Nat /\ ArenaSlots <= Positions
    /\ ShardCount \in Nat \ {0} /\ ShardSize \in Nat \ {0}
    /\ MaxExec \in Nat /\ LongMax \in Nat \ {0}

VARIABLES init,         \* ProxyHeapInit: "carve", "commit", "create", "fallback", "live"
          iter, slot,   \* its loop counter and the arena slot in its hands, or 0
          lo,           \* s_proxyHeapLo by shard; s_proxyHeapHi is ShardSize more
          created, count,   \* shards built, and s_proxyHeapCount
          carved, committed,   \* arena slots granted to the shards; committed pages
          used,         \* the blocks each shard's heap has handed out
          rr,           \* s_proxyHeapRR
          execTable, execCount,   \* s_execHeaps, s_execHeapCount
          made,         \* the heaps the game has
          shuttingDown,
          faulted,      \* the process died of a read below s_proxyHeaps
          pc, heap,     \* a thread's step and the heap it names
          start, k, n,  \* its locals
          blocks, stray, tried, unnoted

initVars == <<init, iter, slot, lo, created, count, carved, committed>>
noteVars == <<execTable, execCount, made, unnoted>>
callVars == <<pc, heap, start, k, n>>
ghosts == <<blocks, stray, tried>>
shardVars == <<initVars, noteVars, callVars, ghosts, used, rr, shuttingDown, faulted>>

Shards == 1 .. ShardCount

HeapShardsInit ==
    /\ init = "carve" /\ iter = 1 /\ slot = 0
    /\ lo = [s \in Shards |-> 0] /\ created = 0 /\ count = 0
    /\ carved = {} /\ committed = {}
    /\ used = [s \in Shards |-> {}] /\ rr = 0
    /\ execTable = [i \in 1 .. MaxExec |-> NoHeap] /\ execCount = 0
    /\ made = Heaps \ Exec /\ unnoted = {}
    /\ shuttingDown = FALSE /\ faulted = FALSE
    /\ pc = [t \in Threads |-> "game"] /\ heap = [t \in Threads |-> NoHeap]
    /\ start = [t \in Threads |-> 0] /\ k = [t \in Threads |-> 0]
    /\ n = [t \in Threads |-> 0]
    /\ blocks = {} /\ stray = {} /\ tried = [t \in Threads |-> {}]

Base(s) == lo[s] \div ShardSize
Bases == {Base(s) : s \in 1 .. created}

-----------------------------------------------------------------------------
(* ProxyHeapInit: one thread, before the hooks are attached *)

InitOnly == UNCHANGED <<noteVars, callVars, ghosts, used, rr, shuttingDown, faulted>>

\* The arena grants a slot; or it has none, or there is no arena or no
\* RtlCreateHeap to use it with.
InitCarve ==
    /\ init = "carve"
    /\ \/ \E b \in (1 .. ArenaSlots) \ carved :
            slot' = b /\ carved' = carved \cup {b} /\ init' = "commit"
       \/ init' = "fallback" /\ UNCHANGED <<slot, carved>>
    /\ UNCHANGED <<iter, lo, created, count, committed>> /\ InitOnly

\* A slot that cannot be used goes back to the arena.
InitGivesBack ==
    /\ carved' = carved \ {slot} /\ slot' = 0
    /\ init' = "fallback"
    /\ UNCHANGED <<iter, lo, created, count>>

InitCommit ==
    /\ init = "commit"
    /\ \/ /\ committed' = committed \cup {slot} /\ init' = "create"
          /\ UNCHANGED <<iter, slot, lo, created, count, carved>>
       \/ InitGivesBack /\ UNCHANGED committed
    /\ InitOnly

\* The end of an iteration; after the last one the count is published.
NextShard ==
    /\ iter' = iter + 1 /\ slot' = 0
    /\ IF iter < ShardCount
       THEN init' = "carve" /\ UNCHANGED count
       ELSE init' = "live" /\ count' = created'

\* Mutant: the arrays are indexed by the loop counter.
AddShardAtIter(b) ==
    /\ lo' = [lo EXCEPT ![iter] = b * ShardSize]
    /\ created' = created + 1
    /\ NextShard

\* The shard is entered at index created, which leaves no gap.
AddShard(b) ==
    /\ lo' = [lo EXCEPT ![created + 1] = b * ShardSize]
    /\ created' = created + 1
    /\ NextShard

\* RtlCreateHeap over the slot; the pages of a slot given back here stay
\* committed.
InitCreate ==
    /\ init = "create"
    /\ \/ AddShard(slot) /\ UNCHANGED carved
       \/ InitGivesBack
    /\ UNCHANGED committed /\ InitOnly

\* A heap of its own, or no shard at all in this iteration.
InitFallback ==
    /\ init = "fallback"
    /\ \/ \E b \in (ArenaSlots + 1 .. Positions) \ Bases : AddShard(b)
       \/ UNCHANGED <<lo, created>> /\ NextShard
    /\ UNCHANGED <<carved, committed>> /\ InitOnly

-----------------------------------------------------------------------------
(* The hooks *)

Ready(t) == init = "live" /\ ~faulted /\ pc[t] = "game"

\* Mutant: the upper bound of the range belongs to the shard.
ShardOfClosed(p) ==
    LET over == {s \in 1 .. count : lo[s] <= p /\ p <= lo[s] + ShardSize}
    IN  IF over = {} THEN 0 ELSE CHOOSE s \in over : \A r \in over : s <= r

\* ProxyHeapShardOf: the first shard whose range holds the address, or none.
ShardOf(p) ==
    LET over == {s \in 1 .. count : lo[s] <= p /\ p < lo[s] + ShardSize}
    IN  IF over = {} THEN 0 ELSE CHOOSE s \in over : \A r \in over : s <= r

\* The shard's first page is committed; a heap of its own commits it itself.
ShardHandleLive(s) == Base(s) \in committed \/ Base(s) > ArenaSlots

Room(s) == (lo[s] .. lo[s] + ShardSize - 1) \ used[s]

\* HeapCreate sets the in-hook flag, so the RtlCreateHeap it calls passes
\* through and notes nothing; so does a direct call during shutdown.
HeapCreate(t, h) ==
    /\ Ready(t) /\ t \in Creators /\ h \in Exec \ made
    /\ \A u \in Threads : heap[u] # h
    /\ made' = made \cup {h} /\ unnoted' = unnoted \cup {h}
    /\ UNCHANGED <<initVars, execTable, execCount, callVars, ghosts, used, rr, shuttingDown,
                   faulted>>

\* Hooked_RtlCreateHeap for an executable heap: ProxyHeapNoteExecHeap reads
\* the count; a full table drops the heap.
RtlCreateHeap(t, h) ==
    /\ Ready(t) /\ ~shuttingDown /\ t \in Creators /\ h \in Exec \ made
    /\ \A u \in Threads : heap[u] # h
    /\ IF execCount >= MaxExec
       THEN made' = made \cup {h} /\ unnoted' = unnoted \cup {h} /\ UNCHANGED callVars
       ELSE /\ pc' = [pc EXCEPT ![t] = "note"]
            /\ heap' = [heap EXCEPT ![t] = h]
            /\ n' = [n EXCEPT ![t] = execCount]
            /\ UNCHANGED <<made, unnoted, start, k>>
    /\ UNCHANGED <<initVars, execTable, execCount, ghosts, used, rr, shuttingDown, faulted>>

NoteWrite(t) ==
    /\ pc[t] = "note" /\ ~faulted
    /\ execTable' = [execTable EXCEPT ![n[t] + 1] = heap[t]]
    /\ pc' = [pc EXCEPT ![t] = "publish"]
    /\ UNCHANGED <<initVars, execCount, made, unnoted, heap, start, k, n, ghosts, used, rr,
                   shuttingDown, faulted>>

\* The count follows the entry, and only then has the game the heap.
NotePublish(t) ==
    /\ pc[t] = "publish" /\ ~faulted
    /\ execCount' = n[t] + 1
    /\ made' = made \cup {heap[t]}
    /\ pc' = [pc EXCEPT ![t] = "game"] /\ heap' = [heap EXCEPT ![t] = NoHeap]
    /\ n' = [n EXCEPT ![t] = 0]
    /\ UNCHANGED <<initVars, execTable, unnoted, start, k, ghosts, used, rr, shuttingDown,
                   faulted>>

\* Mutant: the scan stops before the last entry.
IsExecHeapShort(h) == \E i \in 1 .. execCount - 1 : execTable[i] = h

IsExecHeap(h) == \E i \in 1 .. execCount : execTable[i] = h

\* InterlockedIncrement on a LONG.
Increment(x) == IF x = LongMax THEN -LongMax - 1 ELSE x + 1

\* RtlAllocateHeap or HeapAlloc takes a small request into the shards.  A
\* request that an exclusion keeps out, or that comes during shutdown, goes
\* to its own heap and changes nothing here.
ProxyHeapAlloc(t, h) ==
    /\ Ready(t) /\ ~shuttingDown /\ count > 0
    /\ h \in made /\ ~IsExecHeap(h)
    /\ rr' = Increment(rr)
    /\ pc' = [pc EXCEPT ![t] = "try"]
    /\ heap' = [heap EXCEPT ![t] = h]
    /\ start' = [start EXCEPT ![t] = Increment(rr)]
    /\ k' = [k EXCEPT ![t] = 0]
    /\ tried' = [tried EXCEPT ![t] = {}]
    /\ UNCHANGED <<initVars, noteVars, n, blocks, stray, used, shuttingDown, faulted>>

\* Mutant: only the shard the call starts with is tried.
IndexStuck(t) == start[t] % count

\* (start + k) % n in C: the remainder has the sign of the dividend.  The sum
\* wraps like start itself.
Index(t) ==
    LET x == start[t] + k[t]
        sum == IF x > LongMax THEN x - 2 * (LongMax + 1) ELSE x
    IN  IF sum >= 0 THEN sum % count ELSE -((-sum) % count)

\* A call that ends in the game forgets its locals.
Returns(t) ==
    /\ pc' = [pc EXCEPT ![t] = "game"] /\ heap' = [heap EXCEPT ![t] = NoHeap]
    /\ start' = [start EXCEPT ![t] = 0] /\ k' = [k EXCEPT ![t] = 0]
    /\ tried' = [tried EXCEPT ![t] = {}]

\* The next shard, or none is left to try.
Goes(t) ==
    /\ k' = [k EXCEPT ![t] = k[t] + 1]
    /\ pc' = [pc EXCEPT ![t] = IF k[t] + 1 < count THEN "try" ELSE "real"]
    /\ UNCHANGED <<heap, start>>

\* One shard is tried.  An index below zero reads what lies before
\* s_proxyHeaps: a value that is no live handle, or one that faults.
TryShard(t) ==
    /\ pc[t] = "try" /\ ~faulted
    /\ LET s == Index(t) + 1
       IN  \/ /\ s >= 1 /\ ShardHandleLive(s)
              /\ \E p \in Room(s) :
                   /\ used' = [used EXCEPT ![s] = used[s] \cup {p}]
                   /\ blocks' = blocks \cup {p}
              /\ Returns(t)
              /\ UNCHANGED faulted
           \/ /\ s >= 1 /\ (~ShardHandleLive(s) \/ Room(s) = {})
              /\ tried' = [tried EXCEPT ![t] = tried[t] \cup {s}]
              /\ Goes(t)
              /\ UNCHANGED <<used, blocks, faulted>>
           \/ /\ s < 1
              /\ Goes(t)
              /\ UNCHANGED <<used, blocks, tried, faulted>>
           \/ /\ s < 1
              /\ faulted' = TRUE
              /\ UNCHANGED <<used, blocks, tried, pc, heap, start, k>>
    /\ UNCHANGED <<initVars, noteVars, n, stray, rr, shuttingDown>>

\* No shard had room: the hook goes on to the request's own heap.
RealHeap(t) ==
    /\ pc[t] = "real" /\ ~faulted
    /\ Returns(t)
    /\ UNCHANGED <<initVars, noteVars, n, blocks, stray, used, rr, shuttingDown, faulted>>

NoCall == UNCHANGED <<initVars, noteVars, callVars, tried, rr, shuttingDown, faulted>>

\* RtlFreeHeap and HeapFree: the shard comes before any guard.  A free into a
\* shard that is not live is declined, and the block leaks.
ProxyHeapFree(t, p) ==
    /\ Ready(t) /\ p \in blocks
    /\ blocks' = blocks \ {p}
    /\ used' = [s \in Shards |-> IF s = ShardOf(p) /\ ShardHandleLive(s)
                                THEN used[s] \ {p} ELSE used[s]]
    /\ UNCHANGED stray
    /\ NoCall

\* Within the shard: the block stays, moves, or is left as it is when the
\* shard is dead or has no room (a null return).
ProxyHeapReAlloc(p) ==
    LET s == ShardOf(p)
    IN  \/ UNCHANGED <<used, blocks>>
        \/ /\ s # 0 /\ ShardHandleLive(s)
           /\ \E q \in Room(s) :
                /\ used' = [used EXCEPT ![s] = (used[s] \ {p}) \cup {q}]
                /\ blocks' = (blocks \ {p}) \cup {q}

HeapReAlloc(t, p) ==
    /\ Ready(t) /\ p \in blocks
    /\ ProxyHeapReAlloc(p)
    /\ UNCHANGED stray /\ NoCall

\* The guard comes first: during shutdown a heap that does not own the block
\* gets it.
RtlReAllocateHeap(t, p) ==
    /\ Ready(t) /\ p \in blocks
    /\ \/ ~shuttingDown /\ ProxyHeapReAlloc(p) /\ UNCHANGED stray
       \/ /\ shuttingDown
          /\ blocks' = blocks \ {p} /\ stray' = stray \cup {p}
          /\ UNCHANGED used
    /\ NoCall

BeginShutdown ==
    /\ init = "live" /\ ~faulted /\ ~shuttingDown /\ shuttingDown' = TRUE
    /\ UNCHANGED <<initVars, noteVars, callVars, ghosts, used, rr, faulted>>

HeapShardsNext ==
    \/ InitCarve \/ InitCommit \/ InitCreate \/ InitFallback \/ BeginShutdown
    \/ \E t \in Threads :
         \/ \E h \in Heaps : HeapCreate(t, h) \/ RtlCreateHeap(t, h) \/ ProxyHeapAlloc(t, h)
         \/ NoteWrite(t) \/ NotePublish(t) \/ TryShard(t) \/ RealHeap(t)
         \/ \E p \in blocks : ProxyHeapFree(t, p) \/ HeapReAlloc(t, p)
                              \/ RtlReAllocateHeap(t, p)

HeapShardsSpec == HeapShardsInit /\ [][HeapShardsNext]_shardVars

-----------------------------------------------------------------------------
(* Properties *)

\* The address alone leads a free or a realloc to the heap that handed the
\* block out, whichever shards the start-up could build and wherever; and no
\* shard keeps a block that nobody holds.
BlockHasOwner ==
    /\ \A p \in blocks : ShardOf(p) # 0 /\ p \in used[ShardOf(p)]
    /\ UNION {used[s] : s \in Shards} = blocks \cup stray

\* Whatever step of the start-up failed, an arena slot is out exactly if a
\* shard the hooks can use is built over it, or the start-up has it in hand.
CarvesAccounted ==
    carved = ({Base(s) : s \in 1 .. (IF init = "live" THEN count ELSE created)}
                \cap (1 .. ArenaSlots))
             \cup ({slot} \ {0})

\* A call that leaves the shards for the real heap has found each of them
\* without room, as long as the round-robin counter has not wrapped.
NullMeansFull ==
    \A t \in Threads : pc[t] = "real" /\ start[t] >= 0 /\ start[t] + k[t] <= LongMax
                           => tried[t] = 1 .. count

\* A request to an executable heap that RtlCreateHeap noted never reaches a
\* shard, from the moment the game has the heap, as long as one thread creates
\* such heaps.  A heap the table was not told of (HeapCreate, a full table)
\* has no such protection.
ExecNotRedirected ==
    Cardinality(Creators) <= 1 =>
        \A t \in Threads :
            pc[t] \in {"try", "real"} /\ heap[t] \in Exec => heap[t] \in unnoted
=============================================================================
