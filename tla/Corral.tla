-------------------------------- MODULE Corral --------------------------------
(***************************************************************************)
(* MemoryManager's script corral: write-watch reserves of the game are     *)
(* placed in zones (segments) that the manager reserves itself and grows   *)
(* on demand.  CorralReserve holds m_corralCS from its first to its last   *)
(* step, but two things run beside it: the tail of CorralFree, which       *)
(* decommits and gives the slot back after unlocking, and IsCorralAddress, *)
(* which walks the segment table with no lock.                             *)
(*                                                                         *)
(* Each zone has a ProxyAllocator of its own, used through its contract:   *)
(* it grants a free range of the zone or refuses (ranges resting in its    *)
(* reuse caches make it refuse others), and a new zone grants whatever     *)
(* fits.  Addresses and sizes count allocation granules; 0 is null.        *)
(* owned, highWater and stray are ghosts: the blocks the game holds, the   *)
(* most bytes ever in use, and the corral slots that reached the real      *)
(* VirtualFree.                                                            *)
(***************************************************************************)
EXTENDS Naturals, FiniteSets, FiniteSetsExt

CONSTANTS Threads,        \* game threads
          Monitor,        \* the heartbeat thread, which reports usage
          NoThread,       \* the lock is free
          AddrMax,        \* the process has granules 1 .. AddrMax
          Width,          \* SIZE_T arithmetic is modulo Width
          Sizes,          \* the reserves the game asks for
          MaxSegs,        \* kMaxCorralSegs
          StartSize,      \* m_corralStartBytes
          GrowFloor,      \* m_corralGrowFloor
          MaxReserved,    \* m_corralMaxReserved, 0 for no cap
          MaxBlocks       \* bound: blocks the game has from the OS at a time

ASSUME CorralAssumption ==
    /\ Monitor \notin Threads /\ NoThread \notin Threads \cup {Monitor}
    /\ AddrMax \in Nat /\ Width \in Nat \ {0} /\ AddrMax < Width
    /\ Sizes \subseteq 1 .. Width - 1
    /\ MaxSegs \in Nat \ {0}
    /\ StartSize \in 1 .. Width - 1 /\ GrowFloor \in 1 .. Width - 1
    /\ MaxReserved \in Nat /\ MaxBlocks \in Nat

VARIABLES ready,          \* "boot", then m_corralReady as "yes" or "no"
          segBase, segSize, segCount, totalReserved,
          sizes,          \* m_corralSizes
          granted,        \* slots the zones' allocators have granted
          committed,      \* slots whose pages are committed
          peak,           \* m_corralPeakBytes
          lock,           \* owner of m_corralCS
          pc, req, slot,  \* a thread's place, its request and its slot
          idx, limit, sum,\* its loop over the segments
          os, reserved,   \* what the OS has given out: to the game, as zones
          owned, highWater, stray

zones == <<segBase, segSize, segCount, totalReserved, reserved>>
local == <<req, slot, idx, limit, sum>>
corralVars == <<ready, zones, sizes, granted, committed, peak, lock, pc, local,
                os, owned, highWater, stray>>

Everyone == Threads \cup {Monitor}
Block == [addr : 1 .. AddrMax, size : 1 .. Width - 1, commit : BOOLEAN]
NoBlock == [addr |-> 0, size |-> 0, commit |-> FALSE]

Within(a, b) == b.addr <= a /\ a < b.addr + b.size
Disjoint(b, c) == b.addr + b.size <= c.addr \/ c.addr + c.size <= b.addr
Zone(a, n) == [addr |-> a, size |-> n, commit |-> FALSE]
Segment(i) == Zone(segBase[i], segSize[i])

\* A block that stays in range and collides with nothing in bs.
Fits(b, bs) == /\ b.addr + b.size <= AddrMax + 1
               /\ \A c \in bs : Disjoint(b, c)

\* What the OS has given out.
Mapped == os \cup reserved

\* GetStats().usedBytes of one zone, and of all of them.
UsedIn(i) == MapThenSumSet(LAMBDA b : b.size,
                           {b \in granted : Within(b.addr, Segment(i))})
UsedTotal == MapThenSumSet(LAMBDA b : b.size, granted)

CorralInit ==
    /\ ready = "boot"
    /\ segBase = [i \in 0 .. MaxSegs - 1 |-> 0]
    /\ segSize = [i \in 0 .. MaxSegs - 1 |-> 0]
    /\ segCount = 0 /\ totalReserved = 0
    /\ sizes = {} /\ granted = {} /\ committed = {} /\ peak = 0
    /\ lock = NoThread
    /\ pc = [t \in Everyone |-> "idle"]
    /\ req = [t \in Everyone |-> NoBlock]
    /\ slot = [t \in Everyone |-> NoBlock]
    /\ idx = [t \in Everyone |-> 0]
    /\ limit = [t \in Everyone |-> 0]
    /\ sum = [t \in Everyone |-> 0]
    /\ os = {} /\ reserved = {} /\ owned = {}
    /\ highWater = 0 /\ stray = {}

Goto(t, l) == pc' = [pc EXCEPT ![t] = l]

\* The call no longer needs its locals.
Forget(t) == /\ req' = [req EXCEPT ![t] = NoBlock]
             /\ slot' = [slot EXCEPT ![t] = NoBlock]
             /\ idx' = [idx EXCEPT ![t] = 0]
             /\ limit' = [limit EXCEPT ![t] = 0]
             /\ sum' = [sum EXCEPT ![t] = 0]

Return(t) == Goto(t, "idle") /\ Forget(t)

-----------------------------------------------------------------------------
(* AddCorralSegment *)

\* The checks before the zone is reserved.
MayAdd(n) == /\ segCount < MaxSegs
             /\ MaxReserved # 0 => (totalReserved + n) % Width <= MaxReserved

\* InitScriptArena, before any hook runs: nobody can see it half done.
InitScriptArena ==
    /\ ready = "boot"
    /\ \/ /\ MayAdd(StartSize)
          /\ \E a \in 1 .. AddrMax :
               /\ Fits(Zone(a, StartSize), Mapped)
               /\ reserved' = {Zone(a, StartSize)}
               /\ segBase' = [segBase EXCEPT ![0] = a]
          /\ segSize' = [segSize EXCEPT ![0] = StartSize]
          /\ totalReserved' = StartSize
          /\ segCount' = 1
          /\ ready' = "yes"
       \/ ready' = "no" /\ UNCHANGED zones
    /\ UNCHANGED <<sizes, granted, committed, peak, lock, pc, local, os, owned,
                   highWater, stray>>

\* The size of the segment a reserve of n makes the corral grow by.
GrowBy(n) == LET d == (2 * n) % Width IN IF d < GrowFloor THEN GrowFloor ELSE d

\* Mutant: the count is published first, and the base last.
SetBaseLast(t) ==
    /\ pc[t] = "grow" /\ MayAdd(GrowBy(req[t].size))
    /\ segCount' = segCount + 1
    /\ segSize' = [segSize EXCEPT ![segCount] = GrowBy(req[t].size)]
    /\ Goto(t, "size")
    /\ UNCHANGED <<ready, segBase, totalReserved, reserved, sizes, granted,
                   committed, peak, lock, local, os, owned, highWater, stray>>

\* A zone is reserved and its base written.
SetBase(t) ==
    /\ pc[t] = "grow" /\ MayAdd(GrowBy(req[t].size))
    /\ \E a \in 1 .. AddrMax :
         /\ Fits(Zone(a, GrowBy(req[t].size)), Mapped)
         /\ reserved' = reserved \cup {Zone(a, GrowBy(req[t].size))}
         /\ segBase' = [segBase EXCEPT ![segCount] = a]
    /\ Goto(t, "size")
    /\ UNCHANGED <<ready, segSize, segCount, totalReserved, sizes, granted,
                   committed, peak, lock, local, os, owned, highWater, stray>>

SetSize(t) ==
    /\ pc[t] = "size"
    /\ segSize' = [segSize EXCEPT ![segCount] = GrowBy(req[t].size)]
    /\ totalReserved' = (totalReserved + GrowBy(req[t].size)) % Width
    /\ Goto(t, "publish")
    /\ UNCHANGED <<ready, segBase, segCount, reserved, sizes, granted, committed,
                   peak, lock, local, os, owned, highWater, stray>>

\* The count is written last, after the barrier.
Publish(t) ==
    /\ pc[t] = "publish"
    /\ segCount' = segCount + 1
    /\ Goto(t, "carve")
    /\ UNCHANGED <<ready, segBase, segSize, totalReserved, reserved, sizes, granted,
                   committed, peak, lock, local, os, owned, highWater, stray>>

\* A cap is reached, or the OS refuses the zone or its allocator.
CannotGrow(t) ==
    /\ pc[t] = "grow"
    /\ lock' = NoThread
    /\ Goto(t, "os")
    /\ UNCHANGED <<ready, zones, sizes, granted, committed, peak, local, os,
                   owned, highWater, stray>>

-----------------------------------------------------------------------------
(* CorralReserve, called by the VirtualAlloc hook *)

\* The hook's write-watch path; the lock is taken when the corral is ready.
CorralReserve(t) ==
    /\ pc[t] = "idle" /\ ready # "boot"
    /\ \E n \in Sizes, c \in BOOLEAN :
         req' = [req EXCEPT ![t] = [addr |-> 0, size |-> n, commit |-> c]]
    /\ \/ /\ ready = "yes" /\ lock = NoThread
          /\ lock' = t
          /\ Goto(t, "search")
       \/ ready = "no" /\ Goto(t, "os") /\ UNCHANGED lock
    /\ UNCHANGED <<ready, zones, sizes, granted, committed, peak, slot, idx, limit,
                   sum, os, owned, highWater, stray>>

\* ProxyAllocator::Allocate of segment i grants b.
Grant(t, i, b) ==
    /\ Within(b.addr, Segment(i)) /\ b.addr + b.size <= segBase[i] + segSize[i]
    /\ Fits(b, granted)
    /\ granted' = granted \cup {b}
    /\ slot' = [slot EXCEPT ![t] = b]
    /\ highWater' = Max({highWater, UsedTotal + b.size})
    /\ Goto(t, "commit")

\* The first segment whose allocator does not refuse gives the slot.
Search(t) ==
    /\ pc[t] = "search"
    /\ \/ \E i \in 0 .. segCount - 1, a \in 1 .. AddrMax :
            Grant(t, i, [req[t] EXCEPT !.addr = a])
       \/ Goto(t, "grow") /\ UNCHANGED <<granted, slot, highWater>>
    /\ UNCHANGED <<ready, zones, sizes, committed, peak, lock, req, idx, limit, sum,
                   os, owned, stray>>

\* The new segment serves the reserve if it is large enough.
CarveNew(t) ==
    /\ pc[t] = "carve"
    /\ LET last == segCount - 1
       IN  \/ /\ req[t].size <= segSize[last]
              /\ Grant(t, last, [req[t] EXCEPT !.addr = segBase[last]])
              /\ UNCHANGED lock
           \/ /\ req[t].size > segSize[last]
              /\ lock' = NoThread /\ Goto(t, "os")
              /\ UNCHANGED <<granted, slot, highWater>>
    /\ UNCHANGED <<ready, zones, sizes, committed, peak, req, idx, limit, sum,
                   os, owned, stray>>

\* MEM_COMMIT commits the pages; a bare reserve leaves them reserved.
Commit(t) ==
    /\ pc[t] = "commit"
    /\ committed' = committed \cup (IF req[t].commit THEN {slot[t]} ELSE {})
    /\ Goto(t, "record")
    /\ UNCHANGED <<ready, zones, sizes, granted, peak, lock, local, os, owned,
                   highWater, stray>>

\* Mutant: the slot is not given back.
CommitFailsKeeps(t) ==
    /\ pc[t] = "commit" /\ req[t].commit
    /\ slot' = [slot EXCEPT ![t] = NoBlock]
    /\ lock' = NoThread
    /\ Goto(t, "os")
    /\ UNCHANGED <<ready, zones, sizes, granted, committed, peak, req, idx, limit,
                   sum, os, owned, highWater, stray>>

\* The commit fails: the slot goes back and the hook asks the OS instead.
CommitFails(t) ==
    /\ pc[t] = "commit" /\ req[t].commit
    /\ granted' = granted \ {slot[t]}
    /\ slot' = [slot EXCEPT ![t] = NoBlock]
    /\ lock' = NoThread
    /\ Goto(t, "os")
    /\ UNCHANGED <<ready, zones, sizes, committed, peak, req, idx, limit, sum, os,
                   owned, highWater, stray>>

\* Mutant: the total leaves out the first segment.
RecordSkips(t) ==
    /\ pc[t] = "record"
    /\ sizes' = sizes \cup {slot[t]}
    /\ idx' = [idx EXCEPT ![t] = 1]
    /\ sum' = [sum EXCEPT ![t] = 0]
    /\ Goto(t, "stats")
    /\ UNCHANGED <<ready, zones, granted, committed, peak, lock, req, slot, limit,
                   os, owned, highWater, stray>>

Record(t) ==
    /\ pc[t] = "record"
    /\ sizes' = sizes \cup {slot[t]}
    /\ idx' = [idx EXCEPT ![t] = 0]
    /\ sum' = [sum EXCEPT ![t] = 0]
    /\ Goto(t, "stats")
    /\ UNCHANGED <<ready, zones, granted, committed, peak, lock, req, slot, limit,
                   os, owned, highWater, stray>>

\* One GetStats of the loop; each takes only that zone's lock.
AddUp(t) ==
    /\ pc[t] \in {"stats", "report"} /\ idx[t] < segCount
    /\ sum' = [sum EXCEPT ![t] = @ + UsedIn(idx[t])]
    /\ idx' = [idx EXCEPT ![t] = @ + 1]
    /\ UNCHANGED <<ready, zones, sizes, granted, committed, peak, lock, pc, req,
                   slot, limit, os, owned, highWater, stray>>

\* The peak is raised and the slot returned to the game.
RaisePeak(t) ==
    /\ pc[t] = "stats" /\ idx[t] = segCount
    /\ peak' = Max({peak, sum[t]})
    /\ lock' = NoThread
    /\ owned' = owned \cup {slot[t]}
    /\ Return(t)
    /\ UNCHANGED <<ready, zones, sizes, granted, committed, os, highWater, stray>>

\* Real_VirtualAlloc: the OS places the reserve, or refuses.  The pages of
\* its own blocks are its own affair.
RealVirtualAlloc(t) ==
    /\ pc[t] = "os"
    /\ \/ /\ Cardinality(os) < MaxBlocks
          /\ \E a \in 1 .. AddrMax :
               LET b == Zone(a, req[t].size)
               IN  Fits(b, Mapped) /\ os' = os \cup {b} /\ owned' = owned \cup {b}
       \/ UNCHANGED <<os, owned>>
    /\ Return(t)
    /\ UNCHANGED <<ready, zones, sizes, granted, committed, peak, lock, highWater,
                   stray>>

-----------------------------------------------------------------------------
(* MEM_RELEASE through the VirtualFree hook: IsCorralAddress, CorralFree *)

\* The game gives a block up; the hook reads the segment count once.
VirtualFree(t) ==
    /\ pc[t] = "idle" /\ ready # "boot"
    /\ \E b \in owned : /\ slot' = [slot EXCEPT ![t] = b]
                        /\ owned' = owned \ {b}
    /\ limit' = [limit EXCEPT ![t] = IF ready = "yes" THEN segCount ELSE 0]
    /\ Goto(t, "probe")
    /\ UNCHANGED <<ready, zones, sizes, granted, committed, peak, lock, req, idx, sum,
                   os, highWater, stray>>

\* One segment of the lock-free walk.
Probe(t) ==
    /\ pc[t] = "probe" /\ idx[t] < limit[t]
    /\ IF Within(slot[t].addr, Segment(idx[t]))
       THEN Goto(t, "erase") /\ UNCHANGED idx
       ELSE idx' = [idx EXCEPT ![t] = @ + 1] /\ UNCHANGED pc
    /\ UNCHANGED <<ready, zones, sizes, granted, committed, peak, lock, req, slot,
                   limit, sum, os, owned, highWater, stray>>

\* Not in the corral: the real VirtualFree gets the block.
RealVirtualFree(t) ==
    /\ pc[t] = "probe" /\ idx[t] = limit[t]
    /\ os' = os \ {slot[t]}
    /\ stray' = stray \cup ({slot[t]} \ os)
    /\ Return(t)
    /\ UNCHANGED <<ready, zones, sizes, granted, committed, peak, lock, owned,
                   highWater>>

\* Mutant: the slot is given back here, before its pages are decommitted.
EraseGivesBack(t) ==
    /\ pc[t] = "erase" /\ lock = NoThread
    /\ \/ /\ \E s \in sizes : s.addr = slot[t].addr
          /\ sizes' = {s \in sizes : s.addr # slot[t].addr}
          /\ granted' = {s \in granted : s.addr # slot[t].addr}
          /\ Goto(t, "decommit")
          /\ UNCHANGED local
       \/ /\ \A s \in sizes : s.addr # slot[t].addr
          /\ Return(t)
          /\ UNCHANGED <<sizes, granted>>
    /\ UNCHANGED <<ready, zones, committed, peak, lock, os, owned, highWater, stray>>

\* CorralFree's locked part.  An unknown address is refused, which the hook
\* does not notice: it reports success.
Erase(t) ==
    /\ pc[t] = "erase" /\ lock = NoThread
    /\ \/ /\ \E s \in sizes : s.addr = slot[t].addr
          /\ sizes' = {s \in sizes : s.addr # slot[t].addr}
          /\ Goto(t, "decommit")
          /\ UNCHANGED local
       \/ /\ \A s \in sizes : s.addr # slot[t].addr
          /\ Return(t)
          /\ UNCHANGED sizes
    /\ UNCHANGED <<ready, zones, granted, committed, peak, lock, os, owned, highWater,
                   stray>>

\* Outside the lock: the pages of the range first, then the slot.
Decommit(t) ==
    /\ pc[t] = "decommit"
    /\ committed' = {s \in committed : Disjoint(s, slot[t])}
    /\ Goto(t, "give")
    /\ UNCHANGED <<ready, zones, sizes, granted, peak, lock, local, os, owned,
                   highWater, stray>>

GiveBack(t) ==
    /\ pc[t] = "give"
    /\ granted' = granted \ {slot[t]}
    /\ Return(t)
    /\ UNCHANGED <<ready, zones, sizes, committed, peak, lock, os, owned, highWater,
                   stray>>

-----------------------------------------------------------------------------
(* ReportCorralUsage and GetCorralUsedBytes, on the heartbeat thread *)

ReportCorralUsage ==
    /\ pc[Monitor] = "idle" /\ ready = "yes" /\ lock = NoThread
    /\ lock' = Monitor
    /\ Goto(Monitor, "report")
    /\ UNCHANGED <<ready, zones, sizes, granted, committed, peak, local, os, owned,
                   highWater, stray>>

\* The totals are taken; GetCorralUsedBytes ends here.  The report prints
\* them later, which nothing depends on.
ReportUnlock ==
    /\ pc[Monitor] = "report" /\ idx[Monitor] = segCount
    /\ lock' = NoThread
    /\ Goto(Monitor, "print") \/ Goto(Monitor, "idle")
    /\ Forget(Monitor)
    /\ UNCHANGED <<ready, zones, sizes, granted, committed, peak, os, owned,
                   highWater, stray>>

\* The peak is read after the lock was released.
ReportPrint ==
    /\ pc[Monitor] = "print"
    /\ Goto(Monitor, "idle")
    /\ UNCHANGED <<local, ready, zones, sizes, granted, committed, peak, lock, os, owned,
                   highWater, stray>>

-----------------------------------------------------------------------------

Grow(t) == SetBase(t) \/ SetSize(t) \/ Publish(t) \/ CannotGrow(t)
Serve(t) == Search(t) \/ CarveNew(t) \/ Commit(t) \/ CommitFails(t) \/ Record(t)
            \/ RaisePeak(t) \/ RealVirtualAlloc(t)
Release(t) == Probe(t) \/ RealVirtualFree(t) \/ Erase(t) \/ Decommit(t) \/ GiveBack(t)
Report == ReportUnlock \/ ReportPrint
Step(t) == Grow(t) \/ Serve(t) \/ Release(t) \/ AddUp(t)

CorralNext ==
    \/ InitScriptArena
    \/ \E t \in Threads : CorralReserve(t) \/ VirtualFree(t) \/ Step(t)
    \/ ReportCorralUsage \/ Report \/ AddUp(Monitor)

CorralSpec == CorralInit /\ [][CorralNext]_corralVars

-----------------------------------------------------------------------------
(* Properties *)

Places == {"idle", "search", "grow", "size", "publish", "carve", "commit", "record",
           "stats", "os", "probe", "erase", "decommit", "give", "report", "print"}

\* Every variable has its type; the loops stay inside the segment table.
CorralTypeOK ==
    /\ ready \in {"boot", "yes", "no"}
    /\ segBase \in [0 .. MaxSegs - 1 -> 0 .. AddrMax]
    /\ segSize \in [0 .. MaxSegs - 1 -> 0 .. Width - 1]
    /\ segCount \in 0 .. MaxSegs /\ totalReserved \in 0 .. Width - 1
    /\ sizes \cup granted \cup committed \cup os \cup reserved \cup owned \cup stray
         \subseteq Block
    /\ peak \in Nat /\ highWater \in Nat
    /\ lock \in Everyone \cup {NoThread}
    /\ pc \in [Everyone -> Places]
    /\ req \in [Everyone -> [addr : {0}, size : Nat, commit : BOOLEAN]]
    /\ slot \in [Everyone -> Block \cup {NoBlock}]
    /\ idx \in [Everyone -> 0 .. MaxSegs] /\ limit \in [Everyone -> 0 .. MaxSegs]
    /\ sum \in [Everyone -> Nat]

Owns(t) == pc[t] \in {"commit", "record", "stats", "probe", "erase", "decommit", "give"}
InFlight == {slot[t] : t \in {u \in Threads : Owns(u)}}

\* A corral slot the game holds stays its own while other threads reserve
\* and release: it is granted, m_corralSizes knows it, and the pages it asked
\* for are committed.  (CorralFree works on slots after it has unlocked.)
SlotIsBacked ==
    \A b \in owned \ os : b \in granted \cap sizes /\ (b.commit => b \in committed)

\* No block is lost on any path: what the OS and the zones have given out is
\* what the game holds and what some call is working on.  (A failed commit,
\* growth that fails, a release CorralFree does not know.)
BlocksAccounted == os \cup granted = owned \cup InFlight

\* The lock-free IsCorralAddress sends every release to the side that owns
\* the block, also while a segment is being added: no slot reaches the real
\* VirtualFree, no block of the OS reaches CorralFree.
ReleaseReachesOwner ==
    stray = {} /\ \A t \in Threads : pc[t] = "erase" => slot[t] \in granted

\* The peak that CorralReserve records is never above the true high-water
\* mark and, when nobody is inside, never below what is in use, although the
\* segments are read one by one while slots are given back.
PeakBounds == /\ peak <= highWater
              /\ lock = NoThread => UsedTotal <= peak

=============================================================================
