----------------------------- MODULE CorralProofs -----------------------------
(***************************************************************************)
(* Proofs about the script corral.  Three invariants, each using the one   *)
(* before: ZoneInv says who may touch the segment table and that every     *)
(* published segment is a zone the process has reserved; BlockInv says     *)
(* where the blocks lie; HoldInv says who holds each of them, and that a   *)
(* slot in the game's hands is recorded and backed.  SlotIsBacked,         *)
(* BlocksAccounted and ReleaseReachesOwner follow.  Two more, ApartInv and *)
(* PeakInv, say that the segments lie apart and that a loop over them has  *)
(* counted, or will count, all that is in use: PeakBounds follows.  The    *)
(* last three sections show that the lock is never left behind, that the   *)
(* corral as a whole implements ArenaContract, and that the types hold.    *)
(***************************************************************************)
EXTENDS Corral, FiniteSums, FiniteSetTheorems, TLAPS

\* Where a call holds m_corralCS, and where its request is still wanted.
Locked == {"search", "grow", "size", "publish", "carve", "commit", "record", "stats"}
Asking == {"search", "grow", "size", "publish", "carve", "commit", "record", "os"}

InZone(b, i) == segBase[i] <= b.addr /\ b.addr + b.size <= segBase[i] + segSize[i]

-----------------------------------------------------------------------------
(* The segment table *)

ZoneTypeOK ==
    /\ ready \in {"boot", "yes", "no"}
    /\ segBase \in [0 .. MaxSegs - 1 -> Nat] /\ segSize \in [0 .. MaxSegs - 1 -> Nat]
    /\ segCount \in 0 .. MaxSegs
    /\ reserved \subseteq Block
    /\ lock \in Everyone \cup {NoThread}
    /\ pc \in [Everyone -> Places]
    /\ req \in [Everyone -> [addr : {0}, size : Nat, commit : BOOLEAN]]

\* What a call may rely on at its place.
CallOK(t) ==
    /\ pc[t] \in Locked => lock = t /\ ready = "yes"
    /\ pc[t] \in Asking => req[t].size \in Sizes
    /\ pc[t] \in {"size", "publish"} =>
         /\ segCount < MaxSegs
         /\ Zone(segBase[segCount], GrowBy(req[t].size)) \in reserved
    /\ pc[t] = "publish" => segSize[segCount] = GrowBy(req[t].size)
    /\ pc[t] = "carve" => segCount > 0

ZoneInv ==
    /\ ZoneTypeOK
    /\ ready # "yes" => segCount = 0
    /\ ready = "boot" => reserved = {}
    /\ \A i \in 0 .. segCount - 1 : Segment(i) \in reserved
    /\ \A t \in Threads : CallOK(t)
    /\ pc[Monitor] \in {"idle", "report", "print"}
    /\ pc[Monitor] = "report" => lock = Monitor

\* What the corral grows by is a size a zone can have.
LEMMA GrowBySize == ASSUME NEW n \in Sizes PROVE GrowBy(n) \in 1 .. Width - 1
<1>1. 2 * n \in Nat /\ Width \in Nat \ {0} /\ GrowFloor \in 1 .. Width - 1
  BY CorralAssumption
<1>2. (2 * n) % Width \in 0 .. Width - 1 BY <1>1
<1> QED BY <1>1, <1>2 DEF GrowBy

\* Nothing is reserved yet when the corral is set up.
LEMMA ZoneInit == CorralInit => ZoneInv
BY CorralAssumption DEF CorralInit, ZoneInv, ZoneTypeOK, CallOK, NoBlock, Everyone,
                        Locked, Asking, Block, Segment, Places

\* What a step of t may do to the lock and to the calls of the others.
CallFrame(t) ==
    /\ pc' \in [Everyone -> Places] /\ lock' \in Everyone \cup {NoThread}
    /\ req' \in [Everyone -> [addr : {0}, size : Nat, commit : BOOLEAN]]
    /\ \A u \in Everyone \ {t} : pc'[u] = pc[u] /\ req'[u] = req[u]
    /\ lock' = lock \/ lock \in {NoThread, t}

\* A step keeps to its own call and leaves its own call in order.
LEMMA CallStep ==
    ASSUME ZoneInv, NEW t \in Threads, UNCHANGED <<ready, zones>>,
           \/ CorralReserve(t) \/ VirtualFree(t) \/ CannotGrow(t) \/ AddUp(t)
           \/ Serve(t) \/ Release(t)
    PROVE  CallFrame(t) /\ CallOK(t)'
<1> USE CorralAssumption
    DEF ZoneInv, ZoneTypeOK, Places, zones, CallFrame, CallOK, Locked, Asking, Goto, Return,
        Forget, NoBlock, Everyone, local
<1>1. CASE CorralReserve(t)
  <2>1. PICK n \in Sizes, c \in BOOLEAN :
          req' = [req EXCEPT ![t] = [addr |-> 0, size |-> n, commit |-> c]]
    BY <1>1 DEF CorralReserve
  <2>2. [addr |-> 0, size |-> n, commit |-> c] \in [addr : {0}, size : Nat, commit : BOOLEAN]
    OBVIOUS
  <2>3. /\ req' \in [Everyone -> [addr : {0}, size : Nat, commit : BOOLEAN]]
        /\ req'[t].size \in Sizes /\ \A u \in Everyone \ {t} : req'[u] = req[u]
    BY <2>1, <2>2
  <2>4. /\ pc' \in [Everyone -> Places] /\ lock' \in Everyone \cup {NoThread}
        /\ \A u \in Everyone \ {t} : pc'[u] = pc[u]
        /\ \/ lock = NoThread /\ lock' = t /\ pc'[t] = "search" /\ ready = "yes"
           \/ lock' = lock /\ pc'[t] = "os"
    BY <1>1 DEF CorralReserve
  <2>5. pc'[t] \in {"search", "os"} /\ ready' = ready BY <2>4
  <2>6. pc'[t] \in Locked => lock' = t /\ ready' = "yes" BY <2>4, <2>5
  <2>7. CallOK(t)' BY ONLY <2>3, <2>5, <2>6 DEF CallOK, Locked, Asking
  <2> QED BY <2>3, <2>4, <2>7
<1>2. CASE VirtualFree(t) BY <1>2 DEF VirtualFree
<1>3. CASE CannotGrow(t) BY <1>3 DEF CannotGrow
<1>4. CASE AddUp(t) BY <1>4 DEF AddUp
<1>5. CASE Search(t) BY <1>5 DEF Search, Grant
<1>6. CASE CarveNew(t) BY <1>6 DEF CarveNew, Grant
<1>7. CASE Commit(t) BY <1>7 DEF Commit
<1>8. CASE CommitFails(t) BY <1>8 DEF CommitFails
<1>9. CASE Record(t) BY <1>9 DEF Record
<1>10. CASE RaisePeak(t) BY <1>10 DEF RaisePeak
<1>11. CASE RealVirtualAlloc(t) BY <1>11 DEF RealVirtualAlloc
<1>12. CASE Probe(t) BY <1>12 DEF Probe
<1>13. CASE RealVirtualFree(t) BY <1>13 DEF RealVirtualFree
<1>14. CASE Erase(t)
  <2>1. CASE Goto(t, "decommit") /\ UNCHANGED local BY <1>14, <2>1 DEF Erase
  <2>2. CASE Return(t) BY <1>14, <2>2 DEF Erase
  <2> QED BY <1>14, <2>1, <2>2 DEF Erase
<1>15. CASE Decommit(t) BY <1>15 DEF Decommit
<1>16. CASE GiveBack(t) BY <1>16 DEF GiveBack
<1> QED BY <1>1, <1>2, <1>3, <1>4, <1>5, <1>6, <1>7, <1>8, <1>9, <1>10, <1>11,
           <1>12, <1>13, <1>14, <1>15, <1>16 DEF Serve, Release

\* A call that leaves the segment table alone.
LEMMA ZoneKept ==
    ASSUME ZoneInv, NEW t \in Threads, UNCHANGED <<ready, zones>>,
           CallFrame(t), CallOK(t)'
    PROVE  ZoneInv'
<1> USE CorralAssumption DEF ZoneInv, ZoneTypeOK, zones, CallFrame, Everyone
<1>1. ASSUME NEW u \in Threads \ {t} PROVE CallOK(u)'
  <2>1. CallOK(u) /\ pc'[u] = pc[u] /\ req'[u] = req[u] OBVIOUS
  <2>2. pc[u] \in Locked => lock' = u BY <2>1 DEF CallOK
  <2> QED BY <2>1, <2>2 DEF CallOK
<1>2. (\A i \in 0 .. segCount - 1 : Segment(i) \in reserved)' BY DEF Segment
<1>3. /\ pc'[Monitor] = pc[Monitor] /\ (pc[Monitor] = "report" => lock' = Monitor)
  OBVIOUS
<1> QED BY <1>1, <1>2, <1>3

\* Segments are only ever added, and a published one never changes.
Monotone ==
    /\ segCount <= segCount' /\ reserved \subseteq reserved'
    /\ \A i \in 0 .. segCount - 1 : segBase'[i] = segBase[i] /\ segSize'[i] = segSize[i]

\* A segment is added in three writes, and only the last one shows it.
LEMMA ZoneGrows ==
    ASSUME ZoneInv, NEW t \in Threads, SetBase(t) \/ SetSize(t) \/ Publish(t)
    PROVE  ZoneInv' /\ Monotone
<1> USE CorralAssumption
    DEF ZoneInv, ZoneTypeOK, Places, CallOK, Locked, Asking, Goto, Everyone, local, Monotone
<1> DEFINE n == GrowBy(req[t].size)
<1>1. /\ req[t].size \in Sizes /\ n \in 1 .. Width - 1
      /\ lock = t /\ ready = "yes" /\ pc[Monitor] # "report"
      /\ \A u \in Threads \ {t} : pc[u] \notin Locked
  BY GrowBySize DEF SetBase, SetSize, Publish
<1>2. /\ UNCHANGED <<ready, lock, req>> /\ pc' \in [Everyone -> Places]
      /\ \A u \in Everyone \ {t} : pc'[u] = pc[u]
  BY DEF SetBase, SetSize, Publish
<1> HIDE DEF n
<1>3. \A u \in Threads \ {t} : CallOK(u)' BY <1>1, <1>2
<1>4. CASE SetBase(t)
  <2> USE DEF SetBase
  <2>1. PICK a \in 1 .. AddrMax :
            /\ reserved' = reserved \cup {Zone(a, n)} /\ segBase' = [segBase EXCEPT ![segCount] = a]
    BY <1>4 DEF n
  <2>2. Zone(a, n) \in Block BY <1>1, <2>1 DEF Zone, Block
  <2>3. segCount < MaxSegs /\ pc'[t] = "size" /\ UNCHANGED <<segSize, segCount>>
    BY <1>4 DEF MayAdd
  <2>4. CallOK(t)' BY <1>1, <1>2, <2>1, <2>3 DEF n
  <2>5. (\A i \in 0 .. segCount - 1 : Segment(i) \in reserved)' BY <2>1, <2>3 DEF Segment
  <2>6. /\ segBase' \in [0 .. MaxSegs - 1 -> Nat] /\ reserved' \subseteq Block
        /\ \A i \in 0 .. segCount - 1 : segBase'[i] = segBase[i]
    BY <2>1, <2>2, <2>3
  <2> QED BY <1>1, <1>2, <1>3, <2>1, <2>3, <2>4, <2>5, <2>6
<1>5. CASE SetSize(t)
  <2> USE DEF SetSize
  <2>1. /\ pc'[t] = "publish" /\ segSize' = [segSize EXCEPT ![segCount] = n]
        /\ segCount < MaxSegs /\ UNCHANGED <<segBase, segCount, reserved>>
    BY <1>5 DEF n
  <2>2. CallOK(t)' BY <1>1, <1>2, <1>5, <2>1 DEF n
  <2>3. (\A i \in 0 .. segCount - 1 : Segment(i) \in reserved)' BY <2>1 DEF Segment
  <2> QED BY <1>1, <1>2, <1>3, <2>1, <2>2, <2>3
<1>6. CASE Publish(t)
  <2> USE DEF Publish
  <2>1. /\ pc'[t] = "carve" /\ segCount' = segCount + 1
        /\ segCount < MaxSegs /\ UNCHANGED <<segBase, segSize, reserved>>
        /\ Segment(segCount) \in reserved
    BY <1>6 DEF Segment
  <2>2. CallOK(t)' BY <1>1, <1>2, <2>1
  <2>3. (\A i \in 0 .. segCount - 1 : Segment(i) \in reserved)' BY <2>1 DEF Segment
  <2> QED BY <1>1, <1>2, <1>3, <2>1, <2>2, <2>3
<1> QED BY <1>4, <1>5, <1>6

\* What changes neither the table nor a call of the game.
LEMMA ZoneApart ==
    ASSUME ZoneInv, ReportCorralUsage \/ Report \/ AddUp(Monitor)
    PROVE  ZoneInv' /\ UNCHANGED <<ready, zones>>
<1> USE CorralAssumption
    DEF ZoneInv, ZoneTypeOK, Places, CallOK, Locked, Asking, zones, local, Goto, Forget,
        NoBlock, Everyone
<1>1. UNCHANGED <<ready, zones>> BY DEF ReportCorralUsage, Report, ReportUnlock, ReportPrint, AddUp
<1>2. (\A i \in 0 .. segCount - 1 : Segment(i) \in reserved)' BY <1>1 DEF Segment
<1>3. CASE ReportCorralUsage BY <1>1, <1>2, <1>3 DEF ReportCorralUsage
<1>4. CASE ReportUnlock BY <1>1, <1>2, <1>4 DEF ReportUnlock
<1>5. CASE ReportPrint BY <1>1, <1>2, <1>5 DEF ReportPrint
<1>6. CASE AddUp(Monitor) BY <1>1, <1>2, <1>6 DEF AddUp
<1> QED BY <1>1, <1>3, <1>4, <1>5, <1>6 DEF Report

\* The corral is set up, or is not.
LEMMA ZoneSetUp == ASSUME ZoneInv, InitScriptArena PROVE ZoneInv' /\ Monotone
<1> USE CorralAssumption
    DEF ZoneInv, ZoneTypeOK, Places, CallOK, Locked, zones, local, InitScriptArena, Monotone
<1>1. segCount = 0 /\ \A t \in Threads : pc[t] \notin Locked OBVIOUS
<1>2. CASE ready' = "no" /\ UNCHANGED zones BY <1>1, <1>2
<1>3. CASE ready' = "yes"
  <2>1. PICK a \in 1 .. AddrMax : /\ reserved' = {Zone(a, StartSize)}
                                  /\ segBase' = [segBase EXCEPT ![0] = a]
    BY <1>3
  <2>2. Zone(a, StartSize) \in Block BY <2>1 DEF Zone, Block
  <2>3. segSize' = [segSize EXCEPT ![0] = StartSize] /\ segCount' = 1 BY <1>3
  <2>4. Segment(0)' = Zone(a, StartSize) BY <2>1, <2>3 DEF Segment
  <2> QED BY <1>1, <1>3, <2>1, <2>2, <2>3, <2>4
<1> QED BY <1>2, <1>3

\* Every step.
LEMMA ZoneStep == ASSUME ZoneInv, [CorralNext]_corralVars PROVE ZoneInv' /\ Monotone
<1>1. ASSUME UNCHANGED <<ready, zones>> PROVE Monotone
  BY <1>1 DEF ZoneInv, ZoneTypeOK, zones, Monotone
<1>2. CASE UNCHANGED corralVars
  <2>1. UNCHANGED <<ready, zones, lock, pc, req>> BY <1>2 DEF corralVars, local
  <2> QED BY <1>1, <2>1 DEF ZoneInv, ZoneTypeOK, CallOK, Segment, zones
<1>3. CASE InitScriptArena BY <1>3, ZoneSetUp
<1>4. CASE ReportCorralUsage \/ Report \/ AddUp(Monitor) BY <1>1, <1>4, ZoneApart
<1>5. ASSUME NEW t \in Threads, CorralReserve(t) \/ VirtualFree(t) \/ Step(t)
      PROVE  ZoneInv' /\ Monotone
  <2>1. CASE SetBase(t) \/ SetSize(t) \/ Publish(t) BY <2>1, ZoneGrows DEF Monotone
  <2>2. CASE \/ CorralReserve(t) \/ VirtualFree(t) \/ CannotGrow(t) \/ AddUp(t)
             \/ Serve(t) \/ Release(t)
    <3>1. UNCHANGED <<ready, zones>>
      BY <2>2 DEF CorralReserve, VirtualFree, CannotGrow, AddUp, Serve, Search, CarveNew,
                  Commit, CommitFails, Record, RaisePeak, RealVirtualAlloc, Release, Probe,
                  RealVirtualFree, Erase, Decommit, GiveBack, zones
    <3> QED BY <1>1, <2>2, <3>1, CallStep, ZoneKept
  <2> QED BY <1>5, <2>1, <2>2 DEF Step, Grow
<1> QED BY <1>2, <1>3, <1>4, <1>5 DEF CorralNext

-----------------------------------------------------------------------------
(* Where the blocks lie *)

\* Every slot lies in a published segment, no two slots overlap, and the OS
\* has placed nothing of the game's in a zone.
BlockInv ==
    /\ os \subseteq Block /\ granted \subseteq Block
    /\ \A b \in os, z \in reserved : Disjoint(b, z)
    /\ \A b \in granted : \E i \in 0 .. segCount - 1 : InZone(b, i)
    /\ \A b, c \in granted : b # c => Disjoint(b, c)

\* The OS has placed no block of the game's in a segment.
LEMMA NoneInSegment ==
    ASSUME ZoneInv, BlockInv, NEW b \in Block, NEW i \in 0 .. segCount - 1, InZone(b, i)
    PROVE  b \notin os
<1>1. Segment(i) \in reserved BY DEF ZoneInv
<1>2. /\ segBase[i] \in Nat /\ segSize[i] \in Nat /\ b.addr \in 1 .. AddrMax
      /\ b.size \in 1 .. Width - 1
  BY CorralAssumption DEF ZoneInv, ZoneTypeOK, Block
<1>3. ~ Disjoint(b, Segment(i))
  BY <1>2, CorralAssumption DEF InZone, Segment, Zone, Disjoint
<1> QED BY <1>1, <1>3 DEF BlockInv

\* No block of the OS is a slot, and a slot is known by its address.
LEMMA BlocksDiffer ==
    ASSUME ZoneInv, BlockInv
    PROVE  /\ os \cap granted = {}
           /\ \A b, c \in granted : b.addr = c.addr => b = c
<1>1. \A b, c \in Block : Disjoint(b, c) => b.addr # c.addr
  BY CorralAssumption DEF Disjoint, Block
<1> QED BY <1>1, NoneInSegment DEF BlockInv

\* There are no blocks before the first call.
LEMMA BlockInit == CorralInit => BlockInv
BY DEF CorralInit, BlockInv

\* A longer table has the indices of a shorter one.
LEMMA IndexStays ==
    ASSUME NEW m \in Nat, NEW n \in Nat, m <= n, NEW i \in 0 .. m - 1
    PROVE  i \in 0 .. n - 1
OBVIOUS

\* What lies in a segment stays in it.
LEMMA ZonesStay ==
    ASSUME ZoneInv, ZoneInv', Monotone, NEW i \in 0 .. segCount - 1
    PROVE  /\ i \in 0 .. segCount' - 1
           /\ \A b \in Block : InZone(b, i) => InZone(b, i)'
<1>1. segCount \in Nat /\ segCount' \in Nat /\ segCount <= segCount'
  BY CorralAssumption DEF ZoneInv, ZoneTypeOK, Monotone
<1>2. segBase'[i] = segBase[i] /\ segSize'[i] = segSize[i] BY DEF Monotone
<1>3. i \in 0 .. segCount' - 1 BY <1>1, IndexStays
<1>4. ASSUME NEW b \in Block, InZone(b, i) PROVE InZone(b, i)' BY <1>2, <1>4 DEF InZone
<1> QED BY <1>3, <1>4

\* A step that gives out no block of either kind.
LEMMA BlockShrinks ==
    ASSUME ZoneInv, ZoneInv', BlockInv, Monotone, os' \subseteq os, granted' \subseteq granted,
           UNCHANGED reserved
    PROVE  BlockInv'
<1>1. \A b \in granted' : (\E i \in 0 .. segCount - 1 : InZone(b, i))'
  BY ZonesStay DEF BlockInv
<1> QED BY <1>1 DEF BlockInv

\* A new zone keeps clear of what the OS has given the game.
LEMMA BlockNewZone ==
    ASSUME ZoneInv, ZoneInv', BlockInv, Monotone, UNCHANGED <<os, granted>>,
           NEW z, reserved' \subseteq reserved \cup {z}, Fits(z, Mapped)
    PROVE  BlockInv'
<1>1. \A b \in os : Disjoint(b, z) BY DEF Fits, Mapped, Disjoint
<1>2. \A b \in granted' : (\E i \in 0 .. segCount - 1 : InZone(b, i))'
  BY ZonesStay DEF BlockInv
<1> QED BY <1>1, <1>2 DEF BlockInv

\* A granted slot is free and lies in its segment.
LEMMA BlockGrant ==
    ASSUME ZoneInv, BlockInv, NEW t \in Threads, UNCHANGED <<os, zones>>,
           NEW i \in 0 .. segCount - 1, NEW b \in Block, Grant(t, i, b)
    PROVE  BlockInv' /\ b \notin granted /\ b \notin os
<1>1. UNCHANGED <<segBase, segSize, segCount, reserved>> BY DEF zones
<1>2. granted' = granted \cup {b} /\ \A c \in granted : Disjoint(b, c) /\ Disjoint(c, b)
  BY DEF Grant, Fits, Disjoint
<1>3. InZone(b, i)
  BY CorralAssumption DEF Grant, InZone, Within, Segment, Zone, Block, ZoneInv, ZoneTypeOK
<1>4. BlockInv' BY <1>1, <1>2, <1>3 DEF BlockInv, InZone
<1>5. b \notin granted BY <1>2, CorralAssumption DEF Disjoint, Block
<1>6. b \notin os BY <1>3, NoneInSegment
<1> QED BY <1>4, <1>5, <1>6

\* A reserve that Search or CarveNew serves is a block.
LEMMA ServedIsBlock ==
    ASSUME ZoneInv, NEW t \in Threads, pc[t] \in {"search", "carve"}, NEW a \in 1 .. AddrMax
    PROVE  /\ [req[t] EXCEPT !.addr = a] \in Block
           /\ [req[t] EXCEPT !.addr = a].commit = req[t].commit
<1>1. req[t] \in [addr : {0}, size : Nat, commit : BOOLEAN]
  BY DEF ZoneInv, ZoneTypeOK, Everyone
<1>2. req[t].size \in 1 .. Width - 1
  BY CorralAssumption DEF ZoneInv, CallOK, Asking
<1> QED BY <1>1, <1>2 DEF Block

\* Search and CarveNew grant a block of some segment, or nothing at all.
LEMMA ServedFrom ==
    ASSUME ZoneInv, NEW t \in Threads, Search(t) \/ CarveNew(t)
    PROVE  \/ \E i \in 0 .. segCount - 1, b \in Block :
                Grant(t, i, b) /\ b.commit = req[t].commit
           \/ UNCHANGED <<granted, slot>> /\ pc'[t] \in {"grow", "os"}
<1>1. pc \in [Everyone -> Places] /\ t \in Everyone BY DEF ZoneInv, ZoneTypeOK, Everyone
<1>2. CASE Search(t)
  <2>1. CASE \E i \in 0 .. segCount - 1, a \in 1 .. AddrMax :
               Grant(t, i, [req[t] EXCEPT !.addr = a])
    BY <1>2, <2>1, ServedIsBlock DEF Search
  <2>2. CASE Goto(t, "grow") /\ UNCHANGED <<granted, slot, highWater>>
    BY <1>1, <2>2 DEF Goto
  <2> QED BY <1>2, <2>1, <2>2 DEF Search
<1>3. CASE CarveNew(t)
  <2>1. CASE Grant(t, segCount - 1, [req[t] EXCEPT !.addr = segBase[segCount - 1]])
    <3>1. segCount \in Nat /\ segCount > 0
      BY <1>3 DEF CarveNew, ZoneInv, ZoneTypeOK, CallOK
    <3>2. segCount - 1 \in 0 .. segCount - 1 BY <3>1
    <3>3. Segment(segCount - 1) \in reserved BY <3>2 DEF ZoneInv
    <3>4. segBase[segCount - 1] \in 1 .. AddrMax
      BY <3>3 DEF Segment, Zone, ZoneInv, ZoneTypeOK, Block
    <3> QED BY <1>3, <2>1, <3>2, <3>4, ServedIsBlock DEF CarveNew
  <2>2. CASE Goto(t, "os") /\ UNCHANGED <<granted, slot, highWater>>
    BY <1>1, <2>2 DEF Goto
  <2> QED BY <1>3, <2>1, <2>2 DEF CarveNew
<1> QED BY <1>2, <1>3

\* What VirtualAlloc gets from the OS is a block clear of everything.
LEMMA OsBlock ==
    ASSUME ZoneInv, BlockInv, NEW t \in Threads, RealVirtualAlloc(t)
    PROVE  \/ UNCHANGED <<os, owned>>
           \/ \E b \in Block :
                /\ os' = os \cup {b} /\ owned' = owned \cup {b}
                /\ Fits(b, Mapped) /\ b \notin os /\ b \notin granted
<1> SUFFICES ASSUME ~ UNCHANGED <<os, owned>>
             PROVE  \E b \in Block :
                      /\ os' = os \cup {b} /\ owned' = owned \cup {b}
                      /\ Fits(b, Mapped) /\ b \notin os /\ b \notin granted
  OBVIOUS
<1>1. PICK a \in 1 .. AddrMax :
          /\ Fits(Zone(a, req[t].size), Mapped) /\ os' = os \cup {Zone(a, req[t].size)}
          /\ owned' = owned \cup {Zone(a, req[t].size)}
  BY DEF RealVirtualAlloc
<1>2. PICK b : b = Zone(a, req[t].size) OBVIOUS
<1>3. req[t].size \in 1 .. Width - 1
  BY CorralAssumption DEF RealVirtualAlloc, ZoneInv, CallOK, Asking
<1>4. b \in Block BY <1>2, <1>3 DEF Zone, Block
<1>5. b.addr \in Nat /\ b.size \in Nat \ {0} BY <1>4, CorralAssumption DEF Block
<1>6. \A c \in os \cup reserved : Disjoint(b, c) BY <1>1, <1>2 DEF Fits, Mapped
<1>7. ~ Disjoint(b, b) BY <1>5 DEF Disjoint
<1>8. ASSUME b \in granted PROVE FALSE
  <2>1. PICK i \in 0 .. segCount - 1 : InZone(b, i) BY <1>8 DEF BlockInv
  <2>2. Segment(i) \in reserved /\ segBase[i] \in Nat /\ segSize[i] \in Nat
    BY CorralAssumption DEF ZoneInv, ZoneTypeOK
  <2>3. Disjoint(b, Segment(i)) BY <1>6, <2>2
  <2>4. Segment(i).addr = segBase[i] /\ Segment(i).size = segSize[i] BY DEF Segment, Zone
  <2> QED BY <1>5, <2>1, <2>2, <2>3, <2>4 DEF InZone, Disjoint
<1> QED BY <1>1, <1>2, <1>4, <1>6, <1>7, <1>8

\* Every step.
LEMMA BlockStep ==
    ASSUME ZoneInv, ZoneInv', Monotone, BlockInv, [CorralNext]_corralVars
    PROVE  BlockInv'
<1>1. CASE UNCHANGED <<os, granted, reserved>> BY <1>1, BlockShrinks
<1>2. CASE InitScriptArena
  <2>1. UNCHANGED <<os, granted>> BY <1>2 DEF InitScriptArena
  <2>2. CASE UNCHANGED zones BY <1>1, <2>1, <2>2 DEF zones
  <2>3. CASE \E a \in 1 .. AddrMax : /\ Fits(Zone(a, StartSize), Mapped)
                                     /\ reserved' = {Zone(a, StartSize)}
    BY <2>1, <2>3, BlockNewZone
  <2> QED BY <1>2, <2>2, <2>3 DEF InitScriptArena
<1>3. ASSUME NEW t \in Threads, SetBase(t) PROVE BlockInv'
  <2>1. UNCHANGED <<os, granted>> BY <1>3 DEF SetBase
  <2> QED BY <1>3, <2>1, BlockNewZone DEF SetBase
<1>4. ASSUME NEW t \in Threads, Search(t) \/ CarveNew(t) PROVE BlockInv'
  <2>1. UNCHANGED <<os, zones>> BY <1>4 DEF Search, CarveNew
  <2>2. CASE granted' = granted BY <1>1, <2>1, <2>2 DEF zones
  <2>3. CASE \E i \in 0 .. segCount - 1, b \in Block : Grant(t, i, b)
    BY <2>1, <2>3, BlockGrant
  <2> QED BY <1>4, <2>2, <2>3, ServedFrom
<1>5. ASSUME NEW t \in Threads, CommitFails(t) \/ GiveBack(t) \/ RealVirtualFree(t)
      PROVE  BlockInv'
  <2>1. os' \subseteq os /\ granted' \subseteq granted /\ UNCHANGED reserved
    BY <1>5 DEF CommitFails, GiveBack, RealVirtualFree, zones
  <2> QED BY <2>1, BlockShrinks
<1>6. ASSUME NEW t \in Threads, RealVirtualAlloc(t) PROVE BlockInv'
  <2>1. UNCHANGED <<granted, zones>> BY <1>6 DEF RealVirtualAlloc
  <2>2. CASE os' = os BY <1>1, <2>1, <2>2 DEF zones
  <2>3. CASE os' # os
    <3>1. PICK b \in Block : os' = os \cup {b} /\ Fits(b, Mapped)
      BY <1>6, <2>3, OsBlock
    <3>2. \A z \in reserved : Disjoint(b, z) BY <3>1 DEF Fits, Mapped
    <3> QED BY <2>1, <3>1, <3>2 DEF BlockInv, zones, InZone
  <2> QED BY <2>2, <2>3
<1>7. ASSUME NEW t \in Threads,
             \/ CorralReserve(t) \/ VirtualFree(t) \/ SetSize(t) \/ Publish(t)
             \/ CannotGrow(t) \/ Commit(t) \/ Record(t) \/ RaisePeak(t) \/ Probe(t)
             \/ Erase(t) \/ Decommit(t) \/ AddUp(t)
      PROVE  BlockInv'
  BY <1>1, <1>7 DEF CorralReserve, VirtualFree, SetSize, Publish, CannotGrow, Commit, Record,
                    RaisePeak, Probe, Erase, Decommit, AddUp, zones
<1>8. CASE ReportCorralUsage \/ Report \/ AddUp(Monitor) \/ UNCHANGED corralVars
  BY <1>1, <1>8 DEF ReportCorralUsage, Report, ReportUnlock, ReportPrint, AddUp, corralVars,
                    zones
<1> QED BY <1>2, <1>3, <1>4, <1>5, <1>6, <1>7, <1>8
        DEF CorralNext, Step, Grow, Serve, Release

-----------------------------------------------------------------------------
(* Who holds the blocks *)

HoldTypeOK ==
    /\ slot \in [Everyone -> Block \cup {NoBlock}]
    /\ idx \in [Everyone -> Nat] /\ limit \in [Everyone -> Nat]

\* What a call may rely on about the block it works on.
SlotOK(t) ==
    /\ Owns(t) => slot[t] \notin owned /\ slot[t] \in os \cup granted
    /\ Owns(t) /\ pc[t] # "probe" => slot[t] \in granted
    /\ pc[t] = "commit" => slot[t].commit = req[t].commit
    /\ pc[t] \in {"record", "stats"} => (slot[t].commit => slot[t] \in committed)
    /\ pc[t] \in {"stats", "erase"} => slot[t] \in sizes
    /\ pc[t] = "idle" => idx[t] = 0
    /\ pc[t] = "probe" =>
         /\ idx[t] <= limit[t] /\ limit[t] <= segCount
         /\ slot[t] \in granted => /\ slot[t] \in sizes
                                   /\ \E i \in idx[t] .. limit[t] - 1 : InZone(slot[t], i)

HoldInv ==
    /\ HoldTypeOK
    /\ SlotIsBacked
    /\ stray = {}
    /\ owned \subseteq os \cup granted
    /\ \A b \in os \cup granted : b \in owned \/ \E t \in Threads : Owns(t) /\ slot[t] = b
    /\ \A t \in Threads : SlotOK(t)
    /\ \A t, u \in Threads : t # u /\ Owns(t) /\ Owns(u) => slot[t] # slot[u]

\* The game has nothing before its first call.
LEMMA HoldInit == CorralInit => HoldInv
BY DEF CorralInit, HoldInv, HoldTypeOK, SlotIsBacked, SlotOK, Owns, NoBlock, Everyone

\* A step of t concerns one block x at most: the one t works on, or takes, or
\* is granted.
Only(t, x) ==
    /\ \A u \in Everyone \ {t} :
         /\ pc'[u] = pc[u] /\ req'[u] = req[u] /\ slot'[u] = slot[u]
         /\ idx'[u] = idx[u] /\ limit'[u] = limit[u]
    /\ os' \cup granted' \subseteq os \cup granted \cup {x}
    /\ owned' \subseteq owned \cup {x}
    /\ \A b \in (os \cup granted) \ {x} :
         /\ b \in os' <=> b \in os
         /\ b \in granted' <=> b \in granted
         /\ b \in owned' <=> b \in owned
         /\ b \in granted /\ b \in sizes => b \in sizes'
         /\ b \in granted /\ b \in committed => b \in committed'

\* The block a step may concern: no other call has it.
Mine(t, x) ==
    /\ Owns(t) => slot[t] = x
    /\ Owns(t)' => slot'[t] = x
    /\ Owns(t) \/ x \in owned \/ x \notin os \cup granted

\* Where x is afterwards: if the game has it, backed; if not, with t.
Placed(t, x) ==
    /\ x \in owned' => x \in os' \cup granted'
    /\ x \in owned' \ os' => x \in granted' \cap sizes' /\ (x.commit => x \in committed')
    /\ x \in os' \cup granted' => x \in owned' \/ Owns(t)'

\* A call whose locals and whose block a step leaves alone.
LEMMA SlotStays ==
    ASSUME ZoneInv, ZoneInv', Monotone, BlockInv, HoldInv, NEW u \in Threads,
           pc'[u] = pc[u] /\ req'[u] = req[u] /\ slot'[u] = slot[u] /\ idx'[u] = idx[u]
           /\ limit'[u] = limit[u],
           Owns(u) => /\ slot[u] \notin owned'
                      /\ slot[u] \in os' <=> slot[u] \in os
                      /\ slot[u] \in granted' <=> slot[u] \in granted
                      /\ slot[u] \in granted /\ slot[u] \in sizes => slot[u] \in sizes'
                      /\ slot[u] \in granted /\ slot[u] \in committed => slot[u] \in committed'
    PROVE  SlotOK(u)'
<1>1. SlotOK(u) BY DEF HoldInv
<1>2. pc[u] = "probe" =>
        /\ idx[u] <= limit[u] /\ limit[u] <= segCount'
        /\ slot[u] \in granted => \E i \in idx[u] .. limit[u] - 1 : InZone(slot[u], i)'
  <2> SUFFICES ASSUME pc[u] = "probe"
               PROVE  /\ idx[u] <= limit[u] /\ limit[u] <= segCount'
                      /\ slot[u] \in granted
                           => \E i \in idx[u] .. limit[u] - 1 : InZone(slot[u], i)'
    OBVIOUS
  <2>1. /\ idx[u] <= limit[u] /\ limit[u] <= segCount
        /\ slot[u] \in granted => \E i \in idx[u] .. limit[u] - 1 : InZone(slot[u], i)
    BY <1>1 DEF SlotOK
  <2>2. idx[u] \in Nat /\ limit[u] \in Nat BY DEF HoldInv, HoldTypeOK, Everyone
  <2>3. segCount \in Nat /\ segCount' \in Nat /\ segCount <= segCount'
    BY CorralAssumption DEF ZoneInv, ZoneTypeOK, Monotone
  <2>4. limit[u] <= segCount' BY <2>1, <2>2, <2>3
  <2>5. \A i \in idx[u] .. limit[u] - 1 : i \in 0 .. segCount - 1
    BY <2>1, <2>2, <2>3
  <2>6. slot[u] \in granted => slot[u] \in Block BY DEF BlockInv
  <2>7. ASSUME slot[u] \in granted
        PROVE  \E i \in idx[u] .. limit[u] - 1 : InZone(slot[u], i)'
    <3>1. PICK i \in idx[u] .. limit[u] - 1 : InZone(slot[u], i) BY <2>1, <2>7
    <3>2. i \in 0 .. segCount - 1 BY <2>5
    <3>3. PICK b \in Block : b = slot[u] BY <2>6, <2>7
    <3>4. InZone(b, i)' BY <3>1, <3>2, <3>3, ZonesStay
    <3>5. InZone(slot[u], i)' BY <3>3, <3>4
    <3> QED BY <3>5
  <2> QED BY <2>1, <2>4, <2>7
<1> QED BY <1>1, <1>2 DEF SlotOK, Owns

\* The calls of the others go on undisturbed.
LEMMA OthersHold ==
    ASSUME ZoneInv, ZoneInv', Monotone, BlockInv, HoldInv, NEW t \in Threads, NEW x,
           Only(t, x), Mine(t, x), NEW u \in Threads \ {t}
    PROVE  SlotOK(u)' /\ (Owns(u)' <=> Owns(u)) /\ (Owns(u) => slot[u] # x)
<1>1. pc'[u] = pc[u] /\ req'[u] = req[u] /\ slot'[u] = slot[u] /\ idx'[u] = idx[u]
      /\ limit'[u] = limit[u]
  BY DEF Only, Everyone
<1>2. (Owns(u)' <=> Owns(u)) BY <1>1 DEF Owns
<1>3. Owns(u) => slot[u] # x /\ slot[u] \in os \cup granted /\ slot[u] \notin owned
  BY DEF HoldInv, SlotOK, Mine
<1>4. Owns(u) => /\ slot[u] \notin owned'
                 /\ slot[u] \in os' <=> slot[u] \in os
                 /\ slot[u] \in granted' <=> slot[u] \in granted
                 /\ slot[u] \in granted /\ slot[u] \in sizes => slot[u] \in sizes'
                 /\ slot[u] \in granted /\ slot[u] \in committed => slot[u] \in committed'
  BY <1>3 DEF Only
<1> QED BY <1>1, <1>2, <1>3, <1>4, SlotStays

\* What the game holds stays backed and nothing is lost.
LEMMA HoldStep ==
    ASSUME ZoneInv, ZoneInv', Monotone, BlockInv, HoldInv, NEW t \in Threads, NEW x,
           Only(t, x), Mine(t, x), Placed(t, x), HoldTypeOK', stray' = {}, SlotOK(t)'
    PROVE  HoldInv'
<1>1. \A u \in Threads \ {t} : /\ SlotOK(u)' /\ (Owns(u)' <=> Owns(u)) /\ slot'[u] = slot[u]
                               /\ Owns(u) => slot[u] # x
  BY OthersHold DEF Only, Everyone
<1>2. SlotIsBacked'
  <2> SUFFICES ASSUME NEW b \in owned' \ os'
               PROVE  b \in granted' \cap sizes' /\ (b.commit => b \in committed')
    BY DEF SlotIsBacked
  <2>1. CASE b = x BY <2>1 DEF Placed
  <2>2. CASE b # x BY <2>2 DEF Only, HoldInv, SlotIsBacked
  <2> QED BY <2>1, <2>2
<1>3. owned' \subseteq os' \cup granted' BY DEF Only, Placed, HoldInv
<1>4. ASSUME NEW b \in os' \cup granted'
      PROVE  b \in owned' \/ \E u \in Threads : Owns(u)' /\ slot'[u] = b
  <2>1. CASE b = x BY <2>1 DEF Placed, Mine
  <2>2. CASE b # x
    <3>1. b \in os \cup granted /\ (b \in owned <=> b \in owned') BY <2>2 DEF Only
    <3>2. CASE b \in owned BY <3>1, <3>2
    <3>3. CASE \E u \in Threads : Owns(u) /\ slot[u] = b
      BY <1>1, <2>2, <3>3 DEF Mine
    <3> QED BY <3>1, <3>2, <3>3 DEF HoldInv
  <2> QED BY <2>1, <2>2
<1>5. ASSUME NEW u \in Threads, NEW v \in Threads, u # v, Owns(u)', Owns(v)'
      PROVE  slot'[u] # slot'[v]
  <2>1. CASE u # t /\ v # t BY <1>1, <1>5, <2>1 DEF HoldInv
  <2>2. CASE u = t \/ v = t BY <1>1, <1>5, <2>2 DEF Mine
  <2> QED BY <2>1, <2>2
<1> QED BY <1>1, <1>2, <1>3, <1>4, <1>5 DEF HoldInv

\* A step that moves no block and keeps the slot of its own call.
LEMMA HoldQuiet ==
    ASSUME ZoneInv, ZoneInv', Monotone, BlockInv, HoldInv, NEW t \in Threads,
           UNCHANGED <<os, granted, owned, sizes, committed, stray, slot>>,
           HoldTypeOK', Owns(t)' <=> Owns(t), SlotOK(t)',
           \A u \in Everyone \ {t} :
             /\ pc'[u] = pc[u] /\ req'[u] = req[u] /\ idx'[u] = idx[u] /\ limit'[u] = limit[u]
    PROVE  HoldInv'
<1>1. NoBlock \notin os \cup granted /\ owned \subseteq os \cup granted
  BY CorralAssumption DEF BlockInv, Block, NoBlock, HoldInv
<1>2. PICK x : x = IF Owns(t) THEN slot[t] ELSE NoBlock OBVIOUS
<1>3. Only(t, x) BY DEF Only
<1>4. Mine(t, x) BY <1>1, <1>2 DEF Mine
<1>5. Placed(t, x)
  <2>1. CASE Owns(t)
    BY <1>2, <2>1 DEF Placed, HoldInv, SlotOK
  <2>2. CASE ~ Owns(t) BY <1>1, <1>2, <2>2 DEF Placed
  <2> QED BY <2>1, <2>2
<1> QED BY <1>3, <1>4, <1>5, HoldStep DEF HoldInv

\* Searching, growing, adding up: nothing moves.
LEMMA HoldLooks ==
    ASSUME ZoneInv, ZoneInv', Monotone, BlockInv, HoldInv, NEW t \in Threads,
           \/ CorralReserve(t) \/ Grow(t) \/ AddUp(t)
           \/ /\ Search(t) \/ CarveNew(t)
              /\ UNCHANGED <<granted, slot>> /\ pc'[t] \in {"grow", "os"}
    PROVE  HoldInv'
<1> USE DEF HoldTypeOK, Owns, Goto, local, Everyone, zones
<1>1. SlotOK(t) /\ HoldTypeOK /\ pc \in [Everyone -> Places]
  BY DEF HoldInv, ZoneInv, ZoneTypeOK
<1>2. CASE CorralReserve(t)
  <2>1. SlotOK(t)' BY <1>1, <1>2 DEF CorralReserve, SlotOK
  <2> QED BY <1>1, <1>2, <2>1, HoldQuiet DEF CorralReserve
<1>3. CASE Grow(t)
  <2>1. SlotOK(t)' BY <1>1, <1>3 DEF Grow, SetBase, SetSize, Publish, CannotGrow, SlotOK
  <2> QED BY <1>1, <1>3, <2>1, HoldQuiet DEF Grow, SetBase, SetSize, Publish, CannotGrow
<1>4. CASE AddUp(t)
  <2>1. SlotOK(t)' BY <1>1, <1>4 DEF AddUp, SlotOK
  <2> QED BY <1>1, <1>4, <2>1, HoldQuiet DEF AddUp
<1>5. CASE /\ Search(t) \/ CarveNew(t)
           /\ UNCHANGED <<granted, slot>> /\ pc'[t] \in {"grow", "os"}
  <2>1. SlotOK(t)' BY <1>1, <1>5 DEF Search, CarveNew, SlotOK
  <2>2. pc[t] \in {"search", "carve"} /\ \A u \in Everyone \ {t} : pc'[u] = pc[u]
    BY <1>1, <1>5 DEF Search, CarveNew, Grant
  <2> QED BY <1>1, <1>5, <2>1, <2>2, HoldQuiet DEF Search, CarveNew
<1> QED BY <1>2, <1>3, <1>4, <1>5

\* A slot is granted: it is in no other hands.
LEMMA HoldGrant ==
    ASSUME ZoneInv, ZoneInv', Monotone, BlockInv, HoldInv, NEW t \in Threads,
           Search(t) \/ CarveNew(t),
           NEW i \in 0 .. segCount - 1, NEW b \in Block, Grant(t, i, b), b.commit = req[t].commit
    PROVE  HoldInv'
<1> USE DEF HoldTypeOK, Owns, Goto, Everyone
<1>1. /\ pc[t] \in {"search", "carve"} /\ pc' = [pc EXCEPT ![t] = "commit"]
      /\ granted' = granted \cup {b} /\ slot' = [slot EXCEPT ![t] = b]
      /\ UNCHANGED <<os, owned, sizes, committed, stray, req, idx, limit, zones>>
  BY DEF Search, CarveNew, Grant
<1>2. b \notin granted /\ b \notin os BY <1>1, BlockGrant
<1>3. HoldTypeOK /\ pc \in [Everyone -> Places] /\ owned \subseteq os \cup granted
  BY DEF HoldInv, ZoneInv, ZoneTypeOK
<1>4. /\ pc'[t] = "commit" /\ slot'[t] = b /\ HoldTypeOK'
      /\ \A u \in Everyone \ {t} : pc'[u] = pc[u] /\ slot'[u] = slot[u]
  BY <1>1, <1>3
<1>5. Only(t, b) BY <1>1, <1>2, <1>4 DEF Only
<1>6. Mine(t, b) BY <1>1, <1>2, <1>4 DEF Mine
<1>7. Placed(t, b) BY <1>1, <1>2, <1>3, <1>4 DEF Placed
<1>8. SlotOK(t)' BY <1>1, <1>2, <1>3, <1>4 DEF SlotOK
<1> QED BY <1>1, <1>4, <1>5, <1>6, <1>7, <1>8, HoldStep DEF HoldInv

\* The pages are committed and the slot recorded.
LEMMA HoldRecord ==
    ASSUME ZoneInv, ZoneInv', Monotone, BlockInv, HoldInv, NEW t \in Threads,
           Commit(t) \/ Record(t)
    PROVE  HoldInv'
<1> USE DEF HoldTypeOK, Owns, Goto, Everyone, local
<1> PICK x : x = slot[t] OBVIOUS
<1>1. /\ pc[t] \in {"commit", "record"} /\ pc' = [pc EXCEPT ![t] = IF @ = "commit" THEN "record" ELSE "stats"]
      /\ UNCHANGED <<os, owned, granted, stray, req, slot, limit, zones>>
      /\ sizes \subseteq sizes' /\ committed \subseteq committed'
  BY DEF Commit, Record
<1>2. HoldTypeOK /\ pc \in [Everyone -> Places] /\ SlotOK(t) BY DEF HoldInv, ZoneInv, ZoneTypeOK
<1>3. /\ pc'[t] = IF pc[t] = "commit" THEN "record" ELSE "stats"
      /\ HoldTypeOK' /\ \A u \in Everyone \ {t} : pc'[u] = pc[u] /\ idx'[u] = idx[u]
  BY <1>1, <1>2 DEF Commit, Record
<1>4. Only(t, x) BY <1>1, <1>3 DEF Only
<1>5. Mine(t, x) BY <1>1, <1>3 DEF Mine
<1>6. x \notin owned' /\ x \in granted' BY <1>1, <1>2 DEF SlotOK
<1>7. Placed(t, x) BY <1>3, <1>6, <1>1 DEF Placed
<1>8. SlotOK(t)'
  <2>1. CASE Commit(t)
    <3>1. committed' = committed \cup (IF req[t].commit THEN {x} ELSE {}) /\ pc[t] = "commit"
      BY <2>1 DEF Commit
    <3>2. x.commit => x \in committed' BY <1>2, <3>1 DEF SlotOK
    <3> QED BY <1>1, <1>2, <1>3, <3>1, <3>2, <1>6 DEF SlotOK
  <2>2. CASE Record(t)
    <3>1. x \in sizes' /\ pc[t] = "record" /\ UNCHANGED committed BY <2>2 DEF Record
    <3> QED BY <1>1, <1>2, <1>3, <3>1, <1>6 DEF SlotOK
  <2> QED BY <2>1, <2>2
<1> QED BY <1>1, <1>3, <1>4, <1>5, <1>7, <1>8, HoldStep DEF HoldInv

\* A slot goes back, after a failed commit or when it has been released.
LEMMA HoldGivesBack ==
    ASSUME ZoneInv, ZoneInv', Monotone, BlockInv, HoldInv, NEW t \in Threads,
           CommitFails(t) \/ GiveBack(t)
    PROVE  HoldInv'
<1> USE DEF HoldTypeOK, Owns, Goto, Everyone, Return, Forget
<1> PICK x : x = slot[t] OBVIOUS
<1>1. /\ pc[t] \in {"commit", "give"} /\ granted' = granted \ {x}
      /\ UNCHANGED <<os, owned, sizes, committed, stray, zones>>
  BY DEF CommitFails, GiveBack
<1>2. HoldTypeOK /\ pc \in [Everyone -> Places] /\ req \in [Everyone -> [addr : {0}, size : Nat, commit : BOOLEAN]]
      /\ SlotOK(t) BY DEF HoldInv, ZoneInv, ZoneTypeOK
<1>3. x \notin owned /\ x \in granted /\ x \notin os
  BY <1>1, <1>2, BlocksDiffer DEF SlotOK
<1>4. /\ pc'[t] \in {"idle", "os"} /\ HoldTypeOK' /\ (pc'[t] = "idle" => idx'[t] = 0)
      /\ \A u \in Everyone \ {t} : /\ pc'[u] = pc[u] /\ req'[u] = req[u] /\ slot'[u] = slot[u]
                                   /\ idx'[u] = idx[u] /\ limit'[u] = limit[u]
  BY <1>1, <1>2 DEF CommitFails, GiveBack
<1>5. Only(t, x) BY <1>1, <1>4 DEF Only
<1>6. Mine(t, x) BY <1>1, <1>4 DEF Mine
<1>7. Placed(t, x) BY <1>1, <1>3 DEF Placed
<1>8. SlotOK(t)' BY <1>4 DEF SlotOK
<1> QED BY <1>1, <1>4, <1>5, <1>6, <1>7, <1>8, HoldStep DEF HoldInv

\* The game is handed a slot.
LEMMA HoldHandsOver ==
    ASSUME ZoneInv, ZoneInv', Monotone, BlockInv, HoldInv, NEW t \in Threads, RaisePeak(t)
    PROVE  HoldInv'
<1> USE DEF HoldTypeOK, Owns, Goto, Everyone, Return, Forget
<1> PICK x : x = slot[t] OBVIOUS
<1>1. /\ pc[t] = "stats" /\ owned' = owned \cup {x}
      /\ UNCHANGED <<os, granted, sizes, committed, stray, zones>>
  BY DEF RaisePeak
<1>2. HoldTypeOK /\ pc \in [Everyone -> Places] /\ req \in [Everyone -> [addr : {0}, size : Nat, commit : BOOLEAN]]
      /\ SlotOK(t) BY DEF HoldInv, ZoneInv, ZoneTypeOK
<1>3. /\ pc'[t] = "idle" /\ HoldTypeOK' /\ idx'[t] = 0
      /\ \A u \in Everyone \ {t} : /\ pc'[u] = pc[u] /\ req'[u] = req[u] /\ slot'[u] = slot[u]
                                   /\ idx'[u] = idx[u] /\ limit'[u] = limit[u]
  BY <1>1, <1>2 DEF RaisePeak
<1>4. Only(t, x) BY <1>1, <1>3 DEF Only
<1>5. Mine(t, x) BY <1>1, <1>3 DEF Mine
<1>6. x \in granted' \cap sizes' /\ (x.commit => x \in committed')
  BY <1>1, <1>2 DEF SlotOK
<1>7. Placed(t, x) BY <1>1, <1>6 DEF Placed
<1>8. SlotOK(t)' BY <1>3 DEF SlotOK
<1> QED BY <1>1, <1>3, <1>4, <1>5, <1>7, <1>8, HoldStep DEF HoldInv

\* The OS places a block, or refuses.
LEMMA HoldFromOs ==
    ASSUME ZoneInv, ZoneInv', Monotone, BlockInv, HoldInv, NEW t \in Threads, RealVirtualAlloc(t)
    PROVE  HoldInv'
<1> USE DEF HoldTypeOK, Owns, Goto, Everyone, Return, Forget
<1>1. /\ pc[t] = "os" /\ UNCHANGED <<granted, sizes, committed, stray, zones>>
  BY DEF RealVirtualAlloc
<1>2. HoldTypeOK /\ pc \in [Everyone -> Places]
      /\ req \in [Everyone -> [addr : {0}, size : Nat, commit : BOOLEAN]] /\ SlotOK(t)
  BY DEF HoldInv, ZoneInv, ZoneTypeOK
<1>3. /\ pc'[t] = "idle" /\ HoldTypeOK' /\ idx'[t] = 0
      /\ \A u \in Everyone \ {t} : /\ pc'[u] = pc[u] /\ req'[u] = req[u] /\ slot'[u] = slot[u]
                                   /\ idx'[u] = idx[u] /\ limit'[u] = limit[u]
  BY <1>1, <1>2 DEF RealVirtualAlloc
<1>4. PICK x : \/ x = NoBlock /\ UNCHANGED <<os, owned>>
               \/ /\ x \in Block /\ os' = os \cup {x} /\ owned' = owned \cup {x}
                  /\ x \notin os /\ x \notin granted
  BY OsBlock
<1>5. x \notin os /\ x \notin granted /\ x \notin owned
  BY <1>4, CorralAssumption DEF BlockInv, Block, NoBlock, HoldInv
<1>6. Only(t, x) BY <1>1, <1>3, <1>4 DEF Only
<1>7. Mine(t, x) BY <1>1, <1>3, <1>5 DEF Mine
<1>8. Placed(t, x) BY <1>1, <1>3, <1>4, <1>5 DEF Placed
<1>9. SlotOK(t)' BY <1>3 DEF SlotOK
<1> QED BY <1>1, <1>3, <1>6, <1>7, <1>8, <1>9, HoldStep DEF HoldInv

\* The game gives a block up: a slot is in a segment that is still to be
\* probed, because the segments in the table are all of them.
LEMMA HoldTakes ==
    ASSUME ZoneInv, ZoneInv', Monotone, BlockInv, HoldInv, NEW t \in Threads, VirtualFree(t)
    PROVE  HoldInv'
<1> USE DEF HoldTypeOK, Owns, Goto, Everyone, Return, Forget
<1>1. /\ pc[t] = "idle" /\ UNCHANGED <<os, granted, sizes, committed, stray, zones, req, idx>>
      /\ limit' = [limit EXCEPT ![t] = IF ready = "yes" THEN segCount ELSE 0]
      /\ pc' = [pc EXCEPT ![t] = "probe"]
  BY DEF VirtualFree
<1>2. PICK x \in owned : slot' = [slot EXCEPT ![t] = x] /\ owned' = owned \ {x}
  BY DEF VirtualFree
<1>3. HoldTypeOK /\ pc \in [Everyone -> Places]
      /\ req \in [Everyone -> [addr : {0}, size : Nat, commit : BOOLEAN]] /\ SlotOK(t)
  BY DEF HoldInv, ZoneInv, ZoneTypeOK
<1>4. segCount \in Nat /\ segCount' = segCount /\ (ready # "yes" => segCount = 0)
  BY <1>1, CorralAssumption DEF ZoneInv, ZoneTypeOK, zones
<1>5. x \in os \cup granted /\ (x \in granted => x \in sizes /\ x \notin os)
  BY <1>2, BlocksDiffer DEF HoldInv, SlotIsBacked
<1>6. x \in Block BY <1>5 DEF BlockInv
<1>7. /\ pc'[t] = "probe" /\ HoldTypeOK' /\ slot'[t] = x /\ idx'[t] = 0 /\ limit'[t] = segCount
      /\ \A u \in Everyone \ {t} : /\ pc'[u] = pc[u] /\ req'[u] = req[u] /\ slot'[u] = slot[u]
                                   /\ idx'[u] = idx[u] /\ limit'[u] = limit[u]
  BY <1>1, <1>2, <1>3, <1>4, <1>6 DEF SlotOK
<1>8. x \in granted => \E i \in 0 .. segCount - 1 : InZone(x, i)'
  BY <1>1 DEF BlockInv, InZone, zones
<1>9. Only(t, x) BY <1>1, <1>2, <1>7 DEF Only
<1>10. Mine(t, x) BY <1>1, <1>2, <1>7 DEF Mine
<1>11. Placed(t, x) BY <1>2, <1>7 DEF Placed
<1>12. SlotOK(t)'
  <2>1. slot'[t] \in granted' =>
          \E i \in idx'[t] .. limit'[t] - 1 : (InZone(slot[t], i))'
    <3>1. ASSUME NEW i, InZone(x, i)' PROVE InZone(slot[t], i)' BY <1>7, <3>1 DEF InZone
    <3> QED BY <1>1, <1>7, <1>8, <3>1
  <2> QED BY <1>1, <1>2, <1>4, <1>5, <1>7, <2>1 DEF SlotOK
<1> QED BY <1>1, <1>7, <1>9, <1>10, <1>11, <1>12, HoldStep DEF HoldInv

\* A slot is found before the walk ends, and no block of the OS is.
LEMMA HoldProbes ==
    ASSUME ZoneInv, ZoneInv', Monotone, BlockInv, HoldInv, NEW t \in Threads, Probe(t)
    PROVE  HoldInv'
<1> USE DEF HoldTypeOK, Owns, Goto, Everyone, Return, Forget
<1>1. /\ pc[t] = "probe" /\ idx[t] < limit[t]
      /\ UNCHANGED <<os, granted, owned, sizes, committed, stray, slot, zones, req, limit>>
      /\ IF Within(slot[t].addr, Segment(idx[t]))
         THEN Goto(t, "erase") /\ UNCHANGED idx
         ELSE idx' = [idx EXCEPT ![t] = @ + 1] /\ UNCHANGED pc
  BY DEF Probe, zones
<1>2. HoldTypeOK /\ pc \in [Everyone -> Places]
      /\ req \in [Everyone -> [addr : {0}, size : Nat, commit : BOOLEAN]] /\ SlotOK(t)
  BY DEF HoldInv, ZoneInv, ZoneTypeOK
<1>3. PICK b, i, n, m : b = slot[t] /\ i = idx[t] /\ n = limit[t] /\ m = segCount OBVIOUS
<1>4. /\ i \in Nat /\ n \in Nat /\ m \in Nat /\ i < n /\ n <= m
      /\ b \in os \cup granted /\ b \in Block /\ b \notin owned
      /\ b \in granted => b \in sizes /\ \E j \in i .. n - 1 : InZone(b, j)
  <2>1. i \in Nat /\ n \in Nat /\ m \in Nat
    BY <1>2, <1>3, CorralAssumption DEF ZoneInv, ZoneTypeOK
  <2>2. i < n /\ n <= m /\ b \in os \cup granted /\ b \notin owned
    BY <1>1, <1>2, <1>3 DEF SlotOK
  <2>3. b \in granted => b \in sizes /\ \E j \in i .. n - 1 : InZone(b, j)
    BY <1>1, <1>2, <1>3 DEF SlotOK
  <2> QED BY <2>1, <2>2, <2>3 DEF BlockInv
<1>5. i \in 0 .. m - 1 BY <1>4
<1>6. /\ segBase[i] \in Nat /\ segSize[i] \in Nat /\ b.addr \in Nat /\ b.size \in Nat \ {0}
      /\ Segment(i).addr = segBase[i] /\ Segment(i).size = segSize[i]
  <2>1. m <= MaxSegs BY <1>3, CorralAssumption DEF ZoneInv, ZoneTypeOK
  <2>2. i \in 0 .. MaxSegs - 1 BY <1>4, <1>5, <2>1, CorralAssumption, IndexStays
  <2>3. segBase[i] \in Nat /\ segSize[i] \in Nat BY <2>2 DEF ZoneInv, ZoneTypeOK
  <2>4. b.addr \in Nat /\ b.size \in Nat \ {0} BY <1>4, CorralAssumption DEF Block
  <2> QED BY <2>3, <2>4 DEF Segment, Zone
<1>7. CASE Within(b.addr, Segment(i))
  <2>1. b \notin os
    <3>1. Segment(i) \in reserved BY <1>3, <1>5 DEF ZoneInv
    <3>2. ~ Disjoint(b, Segment(i))
      BY <1>6, <1>7 DEF Within, Disjoint
    <3> QED BY <3>1, <3>2 DEF BlockInv
  <2>2. pc'[t] = "erase" /\ HoldTypeOK' /\ UNCHANGED idx /\ slot'[t] = b
        /\ \A u \in Everyone \ {t} : pc'[u] = pc[u]
    BY <1>1, <1>2, <1>3, <1>7
  <2>3. SlotOK(t)' BY <1>1, <1>4, <2>1, <2>2 DEF SlotOK
  <2>4. Owns(t)' <=> Owns(t) BY <1>1, <2>2
  <2> QED BY <1>1, <2>2, <2>3, <2>4, HoldQuiet
<1>8. CASE ~ Within(b.addr, Segment(i))
  <2>1. ~ InZone(b, i) BY <1>6, <1>8 DEF Within, InZone
  <2>2. b \in granted => \E j \in i + 1 .. n - 1 : InZone(b, j)' /\ b = slot'[t]
    BY <1>1, <1>3, <1>4, <2>1 DEF InZone, zones
  <2>3. pc'[t] = "probe" /\ HoldTypeOK' /\ idx'[t] = i + 1 /\ slot'[t] = b /\ limit'[t] = n
        /\ segCount' = m /\ \A u \in Everyone \ {t} : pc'[u] = pc[u] /\ idx'[u] = idx[u]
    BY <1>1, <1>2, <1>3, <1>8 DEF zones
  <2>4. SlotOK(t)' BY <1>1, <1>4, <2>2, <2>3 DEF SlotOK, InZone
  <2> QED BY <1>1, <2>3, <2>4, HoldQuiet
<1> QED BY <1>7, <1>8

\* Only a block of the OS gets to the real VirtualFree.
LEMMA HoldReleases ==
    ASSUME ZoneInv, ZoneInv', Monotone, BlockInv, HoldInv, NEW t \in Threads, RealVirtualFree(t)
    PROVE  HoldInv'
<1> USE DEF HoldTypeOK, Owns, Goto, Everyone, Return, Forget
<1> PICK x : x = slot[t] OBVIOUS
<1>1. /\ pc[t] = "probe" /\ idx[t] = limit[t] /\ os' = os \ {x} /\ stray' = stray \cup ({x} \ os)
      /\ UNCHANGED <<granted, owned, sizes, committed, zones>>
  BY DEF RealVirtualFree
<1>2. HoldTypeOK /\ pc \in [Everyone -> Places]
      /\ req \in [Everyone -> [addr : {0}, size : Nat, commit : BOOLEAN]] /\ SlotOK(t)
  BY DEF HoldInv, ZoneInv, ZoneTypeOK
<1>3. x \notin owned /\ x \in os /\ x \notin granted
  <2>1. idx[t] .. limit[t] - 1 = {} BY <1>1, <1>2
  <2> QED BY <1>1, <1>2, <2>1 DEF SlotOK
<1>4. /\ pc'[t] = "idle" /\ HoldTypeOK' /\ idx'[t] = 0
      /\ \A u \in Everyone \ {t} : /\ pc'[u] = pc[u] /\ req'[u] = req[u] /\ slot'[u] = slot[u]
                                   /\ idx'[u] = idx[u] /\ limit'[u] = limit[u]
  BY <1>1, <1>2 DEF RealVirtualFree
<1>5. Only(t, x) BY <1>1, <1>4 DEF Only
<1>6. Mine(t, x) BY <1>1, <1>4 DEF Mine
<1>7. Placed(t, x) BY <1>1, <1>3 DEF Placed
<1>8. SlotOK(t)' /\ stray' = {} BY <1>1, <1>3, <1>4 DEF SlotOK, HoldInv
<1> QED BY <1>4, <1>5, <1>6, <1>7, <1>8, HoldStep

\* A slot is forgotten, then decommitted: no other slot has its address or
\* any of its pages.
LEMMA HoldErases ==
    ASSUME ZoneInv, ZoneInv', Monotone, BlockInv, HoldInv, NEW t \in Threads, Erase(t) \/ Decommit(t)
    PROVE  HoldInv'
<1> USE DEF HoldTypeOK, Owns, Goto, Everyone, Return, Forget
<1> PICK x : x = slot[t] OBVIOUS
<1>1. HoldTypeOK /\ pc \in [Everyone -> Places]
      /\ req \in [Everyone -> [addr : {0}, size : Nat, commit : BOOLEAN]] /\ SlotOK(t)
  BY DEF HoldInv, ZoneInv, ZoneTypeOK
<1>2. /\ pc[t] \in {"erase", "decommit"} /\ x \notin owned /\ x \in granted
      /\ pc[t] = "erase" => x \in sizes
  BY <1>1 DEF SlotOK, Erase, Decommit
<1>3. /\ \/ /\ pc[t] = "erase" /\ pc' = [pc EXCEPT ![t] = "decommit"] /\ UNCHANGED committed
            /\ sizes' = {s \in sizes : s.addr # x.addr}
         \/ /\ pc[t] = "decommit" /\ pc' = [pc EXCEPT ![t] = "give"] /\ UNCHANGED sizes
            /\ committed' = {s \in committed : Disjoint(s, x)}
      /\ UNCHANGED <<os, granted, owned, stray, slot, req, idx, limit, zones>>
  BY <1>2 DEF Erase, Decommit, local
<1>4. /\ pc'[t] \in {"decommit", "give"} /\ HoldTypeOK'
      /\ \A u \in Everyone \ {t} : pc'[u] = pc[u]
  BY <1>1, <1>3
<1>5. ASSUME NEW b \in granted \ {x}
      PROVE  (b \in sizes => b \in sizes') /\ (b \in committed => b \in committed')
  <2>1. b.addr # x.addr /\ Disjoint(b, x) BY <1>2, BlocksDiffer DEF BlockInv
  <2> QED BY <1>3, <2>1
<1>6. Only(t, x) BY <1>3, <1>4, <1>5 DEF Only
<1>7. Mine(t, x) BY <1>2, <1>3, <1>4 DEF Mine
<1>8. Placed(t, x) BY <1>2, <1>3, <1>4 DEF Placed
<1>9. SlotOK(t)' BY <1>2, <1>3, <1>4 DEF SlotOK
<1> QED BY <1>3, <1>4, <1>6, <1>7, <1>8, <1>9, HoldStep DEF HoldInv

\* What concerns no call of the game at all.
LEMMA HoldApart ==
    ASSUME ZoneInv, ZoneInv', Monotone, BlockInv, HoldInv,
           \/ InitScriptArena \/ ReportCorralUsage \/ Report \/ AddUp(Monitor)
           \/ UNCHANGED corralVars
    PROVE  HoldInv'
<1>0. ZoneTypeOK /\ HoldTypeOK BY DEF ZoneInv, HoldInv
<1> USE DEF HoldTypeOK, Everyone
<1>1. /\ UNCHANGED <<os, granted, owned, sizes, committed, stray>>
      /\ \A u \in Threads : /\ pc'[u] = pc[u] /\ req'[u] = req[u] /\ slot'[u] = slot[u]
                            /\ idx'[u] = idx[u] /\ limit'[u] = limit[u]
      /\ HoldTypeOK'
  <2>0. /\ Monitor \notin Threads /\ segCount \in Nat
        /\ pc \in [Everyone -> Places] /\ HoldTypeOK
        /\ req \in [Everyone -> [addr : {0}, size : Nat, commit : BOOLEAN]]
    BY ONLY <1>0, CorralAssumption DEF ZoneTypeOK
  <2> USE DEF Goto, Forget, local
  <2>1. CASE InitScriptArena BY ONLY <2>0, <2>1 DEF InitScriptArena
  <2>2. CASE ReportCorralUsage BY ONLY <2>0, <2>2 DEF ReportCorralUsage
  <2>3. CASE ReportUnlock
    <3>1. /\ pc' = [pc EXCEPT ![Monitor] = pc'[Monitor]]
          /\ slot' = [slot EXCEPT ![Monitor] = NoBlock]
          /\ idx' = [idx EXCEPT ![Monitor] = 0] /\ limit' = [limit EXCEPT ![Monitor] = 0]
          /\ \E r : req' = [req EXCEPT ![Monitor] = r]
          /\ UNCHANGED <<os, granted, owned, sizes, committed, stray>>
      BY ONLY <2>0, <2>3 DEF ReportUnlock
    <3>2. HoldTypeOK' BY ONLY <2>0, <3>1
    <3> QED BY ONLY <2>0, <3>1, <3>2
  <2>4. CASE ReportPrint BY ONLY <2>0, <2>4 DEF ReportPrint
  <2>5. CASE AddUp(Monitor) BY ONLY <2>0, <2>5 DEF AddUp
  <2>6. CASE UNCHANGED corralVars BY ONLY <2>0, <2>6 DEF corralVars
  <2> QED BY <2>1, <2>2, <2>3, <2>4, <2>5, <2>6 DEF Report
<1>2. \A u \in Threads : Owns(u)' <=> Owns(u) BY <1>1 DEF Owns
<1>3. ASSUME NEW u \in Threads PROVE SlotOK(u)'
  <2>1. Owns(u) => slot[u] \notin owned' BY <1>1 DEF HoldInv, SlotOK
  <2> QED BY ONLY <1>1, <2>1, SlotStays, ZoneInv, ZoneInv', Monotone, BlockInv, HoldInv
<1>4. SlotIsBacked' BY <1>1 DEF HoldInv, SlotIsBacked
<1> QED BY <1>1, <1>2, <1>3, <1>4 DEF HoldInv

\* Every step.
LEMMA HoldAlways ==
    ASSUME ZoneInv, ZoneInv', Monotone, BlockInv, HoldInv, [CorralNext]_corralVars
    PROVE  HoldInv'
<1>1. ASSUME NEW t \in Threads, Search(t) \/ CarveNew(t) PROVE HoldInv'
  BY <1>1, ServedFrom, HoldGrant, HoldLooks
<1> QED BY <1>1, HoldApart, HoldLooks, HoldRecord, HoldGivesBack, HoldHandsOver, HoldFromOs,
           HoldTakes, HoldProbes, HoldReleases, HoldErases
        DEF CorralNext, Step, Serve, Release

\* What the three invariants say of the game's blocks.
LEMMA HoldTells ==
    ASSUME ZoneInv, BlockInv, HoldInv
    PROVE  SlotIsBacked /\ BlocksAccounted /\ ReleaseReachesOwner
<1>1. InFlight \subseteq os \cup granted
  BY DEF InFlight, HoldInv, SlotOK
<1>2. os \cup granted \subseteq owned \cup InFlight BY DEF InFlight, HoldInv
<1>3. \A t \in Threads : pc[t] = "erase" => slot[t] \in granted
  BY DEF HoldInv, SlotOK, Owns
<1> QED BY <1>1, <1>2, <1>3 DEF HoldInv, BlocksAccounted, ReleaseReachesOwner

\* The invariants hold together, whatever the threads do.
THEOREM CorralInvariance == CorralSpec => [](ZoneInv /\ BlockInv /\ HoldInv)
<1>1. CorralInit => ZoneInv /\ BlockInv /\ HoldInv BY ZoneInit, BlockInit, HoldInit
<1>2. ZoneInv /\ BlockInv /\ HoldInv /\ [CorralNext]_corralVars
        => (ZoneInv /\ BlockInv /\ HoldInv)'
  BY ZoneStep, BlockStep, HoldAlways
<1> QED BY <1>1, <1>2, PTL DEF CorralSpec

\* A corral slot in the game's hands stays granted, recorded and committed,
\* although CorralFree works on other slots after it has unlocked.
THEOREM SlotIsBackedAlways == CorralSpec => []SlotIsBacked
BY CorralInvariance, HoldTells, PTL

\* No path of CorralReserve or of the release loses a block.
THEOREM BlocksAccountedAlways == CorralSpec => []BlocksAccounted
BY CorralInvariance, HoldTells, PTL

\* The walk of IsCorralAddress, which takes no lock, sends every release to
\* the side that owns the block.
THEOREM ReleaseReachesOwnerAlways == CorralSpec => []ReleaseReachesOwner
BY CorralInvariance, HoldTells, PTL

-----------------------------------------------------------------------------
(* The peak *)

\* Where a call has a slot that the peak does not know of yet.
Serving == {"commit", "record", "stats"}

\* The segments lie apart, and so does the one that a call is about to publish.
ApartInv ==
    /\ \A i, j \in 0 .. segCount - 1 : i # j => Disjoint(Segment(i), Segment(j))
    /\ \A t \in Threads : pc[t] \in {"size", "publish"} =>
          \A i \in 0 .. segCount - 1 :
              Disjoint(Segment(i), Zone(segBase[segCount], GrowBy(req[t].size)))

\* The slots that a loop which has come to segment n has not counted.
Todo(n) == {b \in granted : \E j \in n .. segCount - 1 : Within(b.addr, Segment(j))}

\* What a call that has its slot may rely on about the peak.
ServeOK(t) ==
    /\ pc[t] \in {"commit", "record"} => SizeSum(granted) <= peak + slot[t].size
    /\ pc[t] = "stats" =>
         /\ idx[t] <= segCount
         /\ SizeSum(granted) <= sum[t] + SizeSum(Todo(idx[t]))
         /\ sum[t] + SizeSum(Todo(idx[t])) <= highWater

PeakInv ==
    /\ IsFiniteSet(granted) /\ peak \in Nat /\ highWater \in Nat
    /\ sum \in [Everyone -> Nat]
    /\ SizeSum(granted) <= highWater /\ peak <= highWater
    /\ (\A t \in Threads : pc[t] \notin Serving) => SizeSum(granted) <= peak
    /\ \A t \in Threads : ServeOK(t)

\* A step takes no call into AddCorralSegment, past its first write.
Outside(t) == pc'[t] \in {"size", "publish"} => UNCHANGED <<pc, req>>

LEMMA StaysOutside ==
    ASSUME ZoneInv, NEW t \in Threads,
           \/ CorralReserve(t) \/ VirtualFree(t) \/ CannotGrow(t) \/ AddUp(t)
           \/ Serve(t) \/ Release(t)
    PROVE  Outside(t)
<1>0. pc \in [Everyone -> Places] /\ t \in Everyone BY DEF ZoneInv, ZoneTypeOK, Everyone
<1> USE <1>0 DEF Outside, Goto, Return, local
<1>1. CASE CorralReserve(t) BY <1>1 DEF CorralReserve
<1>2. CASE VirtualFree(t) BY <1>2 DEF VirtualFree
<1>3. CASE CannotGrow(t) BY <1>3 DEF CannotGrow
<1>4. CASE AddUp(t) BY <1>4 DEF AddUp
<1>5. CASE Search(t) BY <1>5 DEF Search, Grant
<1>6. CASE CarveNew(t) BY <1>6 DEF CarveNew, Grant
<1>7. CASE Commit(t) BY <1>7 DEF Commit
<1>8. CASE CommitFails(t) BY <1>8 DEF CommitFails
<1>9. CASE Record(t) BY <1>9 DEF Record
<1>10. CASE RaisePeak(t) BY <1>10 DEF RaisePeak
<1>11. CASE RealVirtualAlloc(t) BY <1>11 DEF RealVirtualAlloc
<1>12. CASE Probe(t) BY <1>12 DEF Probe
<1>13. CASE RealVirtualFree(t) BY <1>13 DEF RealVirtualFree
<1>14. CASE Erase(t) BY <1>14 DEF Erase
<1>15. CASE Decommit(t) BY <1>15 DEF Decommit
<1>16. CASE GiveBack(t) BY <1>16 DEF GiveBack
<1> QED BY <1>1, <1>2, <1>3, <1>4, <1>5, <1>6, <1>7, <1>8, <1>9, <1>10, <1>11,
           <1>12, <1>13, <1>14, <1>15, <1>16 DEF Serve, Release

\* A published segment and one that is published next.
LEMMA ApartGrows ==
    ASSUME ZoneInv, ZoneInv', Monotone, ApartInv, NEW t \in Threads,
           SetBase(t) \/ SetSize(t) \/ Publish(t)
    PROVE  ApartInv'
<1> USE CorralAssumption DEF ZoneInv, ZoneTypeOK, CallOK, Locked, Asking, Goto, Everyone
<1>1. PICK m, n : m = segCount /\ n = GrowBy(req[t].size) OBVIOUS
<1>2. /\ n \in 1 .. Width - 1 /\ m \in Nat /\ m < MaxSegs
      /\ pc[t] \in {"grow", "size", "publish"}
      /\ \A u \in Threads \ {t} : pc[u] \notin Locked /\ pc'[u] = pc[u]
      /\ UNCHANGED req
  <2>1. pc[t] \in {"grow", "size", "publish"} /\ UNCHANGED req
        /\ \A u \in Threads \ {t} : pc'[u] = pc[u]
    BY DEF SetBase, SetSize, Publish, local
  <2>2. m < MaxSegs BY <1>1 DEF SetBase, SetSize, Publish, MayAdd
  <2> QED BY <1>1, <2>1, <2>2, GrowBySize
<1>3. \A i \in 0 .. m - 1 : Segment(i)' = Segment(i)
  BY <1>1 DEF Monotone, Segment
<1>4. \A i, j \in 0 .. m - 1 : i # j => Disjoint(Segment(i), Segment(j)) BY <1>1 DEF ApartInv
<1>5. CASE SetBase(t)
  <2>1. PICK a \in 1 .. AddrMax : Fits(Zone(a, n), Mapped) /\ segBase' = [segBase EXCEPT ![m] = a]
    BY <1>1, <1>5 DEF SetBase
  <2>2. segBase'[m] = a /\ segCount' = m BY <1>1, <1>2, <1>5, <2>1 DEF SetBase
  <2>3. \A i \in 0 .. m - 1 : Disjoint(Segment(i), Zone(a, n))
    <3>1. \A i \in 0 .. m - 1 : Segment(i) \in Mapped BY <1>1 DEF Mapped
    <3>2. \A c \in Mapped : Disjoint(Zone(a, n), c) BY ONLY <2>1 DEF Fits
    <3> QED BY ONLY <3>1, <3>2 DEF Disjoint
  <2>4. \A u \in Threads : u = t \/ pc'[u] \notin {"size", "publish"} BY <1>2
  <2>5. Zone(segBase[segCount], GrowBy(req[t].size))' = Zone(a, n)
    BY ONLY <1>1, <1>2, <2>2
  <2> QED BY ONLY <1>3, <1>4, <2>2, <2>3, <2>4, <2>5 DEF ApartInv
<1>6. CASE SetSize(t)
  <2>1. segBase' = segBase /\ segCount' = m BY <1>1, <1>6 DEF SetSize
  <2>2. \A i \in 0 .. m - 1 : Disjoint(Segment(i), Zone(segBase[m], n))
    <3>1. pc[t] = "size" BY <1>6 DEF SetSize
    <3> QED BY ONLY <1>1, <3>1, ApartInv, t \in Threads DEF ApartInv
  <2>3. \A u \in Threads : u = t \/ pc'[u] \notin {"size", "publish"} BY <1>2
  <2>4. Zone(segBase[segCount], GrowBy(req[t].size))' = Zone(segBase[m], n)
    BY ONLY <1>1, <1>2, <2>1
  <2> QED BY ONLY <1>3, <1>4, <2>1, <2>2, <2>3, <2>4 DEF ApartInv
<1>7. CASE Publish(t)
  <2>1. segCount' = m + 1 /\ UNCHANGED <<segBase, segSize>> /\ pc'[t] = "carve"
    BY <1>1, <1>7 DEF Publish
  <2>2. Segment(m) = Zone(segBase[m], n) /\ Segment(m)' = Segment(m)
    BY <1>1, <1>7, <2>1 DEF Publish, Segment
  <2>3. \A i \in 0 .. m - 1 : Disjoint(Segment(i), Segment(m)) /\ Disjoint(Segment(m), Segment(i))
    <3>1. pc[t] = "publish" BY <1>7 DEF Publish
    <3>2. \A i \in 0 .. m - 1 : Disjoint(Segment(i), Zone(segBase[m], n))
      BY ONLY <1>1, <3>1, ApartInv, t \in Threads DEF ApartInv
    <3> QED BY ONLY <2>2, <3>2 DEF Disjoint
  <2>4. \A i \in 0 .. m + 1 - 1 : i \in 0 .. m - 1 \/ i = m BY <1>2
  <2>5. \A i, j \in 0 .. m + 1 - 1 : i # j => Disjoint(Segment(i), Segment(j))'
    BY ONLY <1>3, <1>4, <2>2, <2>3, <2>4
  <2> QED BY <1>2, <2>1, <2>5 DEF ApartInv
<1> QED BY <1>5, <1>6, <1>7

\* Every step.
LEMMA ApartStep ==
    ASSUME ZoneInv, ZoneInv', Monotone, ApartInv, [CorralNext]_corralVars
    PROVE  ApartInv'
<1>1. ASSUME UNCHANGED zones,
             \A u \in Threads : pc'[u] \in {"size", "publish"} => pc'[u] = pc[u] /\ req'[u] = req[u]
      PROVE  ApartInv'
  BY <1>1 DEF ApartInv, Segment, zones
<1>2. CASE InitScriptArena
  <2>1. segCount = 0 /\ \A u \in Threads : pc[u] \notin {"size", "publish"}
    BY <1>2 DEF InitScriptArena, ZoneInv, CallOK, Locked
  <2>2. segCount' \in {0, 1} /\ UNCHANGED pc BY <1>2, <2>1 DEF InitScriptArena, zones
  <2>3. \A i, j \in 0 .. segCount' - 1 : i = j
    <3>1. PICK k \in {0, 1} : k = segCount' BY <2>2
    <3>2. \A i, j \in 0 .. k - 1 : i = j OBVIOUS
    <3> QED BY ONLY <3>1, <3>2
  <2> QED BY <2>1, <2>2, <2>3 DEF ApartInv
<1>3. ASSUME NEW t \in Threads, CorralReserve(t) \/ VirtualFree(t) \/ Step(t)
      PROVE  ApartInv'
  <2>1. CASE SetBase(t) \/ SetSize(t) \/ Publish(t) BY <2>1, ApartGrows
  <2>2. CASE \/ CorralReserve(t) \/ VirtualFree(t) \/ CannotGrow(t) \/ AddUp(t)
             \/ Serve(t) \/ Release(t)
    <3>1. UNCHANGED <<ready, zones>>
      BY <2>2 DEF CorralReserve, VirtualFree, CannotGrow, AddUp, Serve, Search, CarveNew,
                  Commit, CommitFails, Record, RaisePeak, RealVirtualAlloc, Release, Probe,
                  RealVirtualFree, Erase, Decommit, GiveBack, zones
    <3>2. CallFrame(t) /\ Outside(t) BY <2>2, <3>1, CallStep, StaysOutside
    <3> QED BY <1>1, <3>1, <3>2 DEF CallFrame, Outside, Everyone
  <2> QED BY <1>3, <2>1, <2>2 DEF Step, Grow
<1>4. CASE ReportCorralUsage \/ Report \/ AddUp(Monitor) \/ UNCHANGED corralVars
  <2>1. UNCHANGED zones
    BY <1>4 DEF ReportCorralUsage, Report, ReportUnlock, ReportPrint, AddUp, corralVars
  <2>2. \A u \in Threads : pc'[u] = pc[u] /\ req'[u] = req[u]
    BY <1>4, CorralAssumption DEF ReportCorralUsage, Report, ReportUnlock, ReportPrint, AddUp,
       corralVars, ZoneInv, ZoneTypeOK, Everyone, Goto, Forget, local
  <2> QED BY <1>1, <2>1, <2>2
<1> QED BY <1>2, <1>3, <1>4 DEF CorralNext

\* A block in a segment has its address there.
LEMMA ZoneWithin ==
    ASSUME ZoneInv, BlockInv, NEW b \in granted, NEW i \in 0 .. segCount - 1, InZone(b, i)
    PROVE  Within(b.addr, Segment(i))
<1>1. Segment(i) \in Block /\ b \in Block BY DEF ZoneInv, ZoneTypeOK, BlockInv
<1>2. /\ segBase[i] \in Nat /\ segSize[i] \in Nat /\ b.addr \in Nat /\ b.size \in Nat \ {0}
      /\ Segment(i).addr = segBase[i] /\ Segment(i).size = segSize[i]
  BY <1>1, CorralAssumption DEF Segment, Zone, Block
<1> QED BY <1>2 DEF InZone, Within

\* A loop has every slot to count when it starts and none when it ends.
LEMMA TodoEnds ==
    ASSUME ZoneInv, BlockInv
    PROVE  Todo(0) = granted /\ Todo(segCount) = {}
<1>1. PICK m \in Nat : m = segCount BY CorralAssumption DEF ZoneInv, ZoneTypeOK
<1>2. m .. m - 1 = {} BY <1>1
<1>3. \A b \in granted : \E j \in 0 .. segCount - 1 : Within(b.addr, Segment(j))
  BY ZoneWithin DEF BlockInv
<1> QED BY <1>1, <1>2, <1>3 DEF Todo

\* One GetStats counts the slots of its segment, which no other one has.
LEMMA TodoNext ==
    ASSUME ZoneInv, BlockInv, ApartInv, IsFiniteSet(granted), NEW n \in Nat, n < segCount
    PROVE  /\ SizeSum(Todo(n)) = UsedIn(n) + SizeSum(Todo(n + 1))
           /\ UsedIn(n) \in Nat /\ SizeSum(Todo(n + 1)) \in Nat
<1>1. PICK m \in Nat : m = segCount BY CorralAssumption DEF ZoneInv, ZoneTypeOK
<1>2. PICK A, B : A = {b \in granted : Within(b.addr, Segment(n))} /\ B = Todo(n + 1) OBVIOUS
<1>3. \A b \in granted : b.addr \in Nat /\ b.size \in Nat
  BY CorralAssumption DEF BlockInv, Block
<1>4. A \cap B = {}
  <2> SUFFICES ASSUME NEW b \in granted, NEW j \in n + 1 .. m - 1,
                      Within(b.addr, Segment(n)), Within(b.addr, Segment(j))
               PROVE  FALSE
    BY <1>1, <1>2 DEF Todo
  <2>1. n \in 0 .. m - 1 /\ j \in 0 .. m - 1 /\ n # j BY <1>1
  <2>2. Disjoint(Segment(n), Segment(j)) BY <1>1, <2>1 DEF ApartInv
  <2>3. Segment(n) \in Block /\ Segment(j) \in Block
    BY <1>1, <2>1 DEF ZoneInv, ZoneTypeOK
  <2>4. PICK c \in Block, d \in Block : c = Segment(n) /\ d = Segment(j) BY <2>3
  <2>5. c.addr \in Nat /\ c.size \in Nat /\ d.addr \in Nat /\ d.size \in Nat
    BY CorralAssumption DEF Block
  <2> QED BY <1>3, <2>2, <2>4, <2>5 DEF Disjoint, Within
<1>5. A \cup B = Todo(n)
  <2>1. \A j : j \in n .. m - 1 <=> j = n \/ j \in n + 1 .. m - 1 BY <1>1
  <2> QED BY <1>1, <1>2, <2>1 DEF Todo
<1>6. IsFiniteSet(A) /\ IsFiniteSet(B) /\ \A b \in A \cup B : b.size \in Nat
  BY <1>2, <1>3, FS_Subset DEF Todo
<1>7. SizeSum(A) \in Nat /\ SizeSum(B) \in Nat BY <1>6, SizeType
<1>8. SizeSum(A \cup B) = SizeSum(A) + SizeSum(B) BY <1>4, <1>6, SizeUnion
<1>9. UsedIn(n) = SizeSum(A) BY <1>2 DEF UsedIn, SizeSum
<1> QED BY <1>2, <1>5, <1>7, <1>8, <1>9

\* The slots add up to a number, those still to count to no more.
LEMMA TodoType ==
    ASSUME BlockInv, IsFiniteSet(granted)
    PROVE  /\ SizeSum(granted) \in Nat /\ UsedTotal = SizeSum(granted)
           /\ \A n : SizeSum(Todo(n)) \in Nat /\ IsFiniteSet(Todo(n))
           /\ \A b \in granted : b.size \in Nat
<1>1. \A b \in granted : b.size \in Nat BY CorralAssumption DEF BlockInv, Block
<1>2. \A n : Todo(n) \in SUBSET granted BY DEF Todo
<1>3. UsedTotal = SizeSum(granted) BY DEF UsedTotal, SizeSum
<1> QED BY <1>1, <1>2, <1>3, SizeType, SizePart

\* The larger of two numbers.
LEMMA MaxOfTwo ==
    ASSUME NEW x \in Nat, NEW y \in Nat
    PROVE  /\ Max({x, y}) \in Nat /\ Max({x, y}) \in {x, y}
           /\ Max({x, y}) >= x /\ Max({x, y}) >= y
<1>1. \E z \in {x, y} : \A w \in {x, y} : z >= w
  <2>1. CASE x >= y BY <2>1
  <2>2. CASE y >= x BY <2>2
  <2> QED BY <2>1, <2>2
<1>2. PICK z : z = Max({x, y}) OBVIOUS
<1>3. z \in {x, y} /\ \A w \in {x, y} : z >= w BY <1>1, <1>2 DEF Max
<1> QED BY <1>2, <1>3

\* A slot that is taken away is no longer counted, wherever a loop is.
LEMMA TodoLess ==
    ASSUME BlockInv, IsFiniteSet(granted), NEW x \in granted, UNCHANGED zones,
           granted' = granted \ {x}
    PROVE  /\ x.size \in Nat /\ SizeSum(granted') \in Nat /\ IsFiniteSet(granted')
           /\ SizeSum(granted) = x.size + SizeSum(granted')
           /\ \A n : /\ SizeSum(Todo(n)) \in Nat /\ SizeSum(Todo(n)') \in Nat
                    /\ \/ SizeSum(Todo(n)) = x.size + SizeSum(Todo(n)')
                       \/ SizeSum(Todo(n)) = SizeSum(Todo(n)')
<1>1. \A b \in granted : b.size \in Nat BY TodoType
<1>2. PICK T : T = granted \ {x} OBVIOUS
<1>3. SizeSum(granted) = x.size + SizeSum(T) /\ SizeSum(T) \in Nat /\ IsFiniteSet(T)
  BY <1>1, <1>2, SizeMinus
<1>4. ASSUME NEW n
      PROVE  /\ SizeSum(Todo(n)) \in Nat /\ SizeSum(Todo(n)') \in Nat
             /\ \/ SizeSum(Todo(n)) = x.size + SizeSum(Todo(n)')
                \/ SizeSum(Todo(n)) = SizeSum(Todo(n)')
  <2>1. Todo(n)' = Todo(n) \ {x} BY DEF Todo, Segment, zones
  <2>2. PICK S, U : S = Todo(n) /\ U = S \ {x} OBVIOUS
  <2>3. /\ SizeSum(S) \in Nat /\ IsFiniteSet(S) /\ \A b \in S : b.size \in Nat
    BY <1>1, <2>2, TodoType DEF Todo
  <2>4. CASE x \in S
    <3>1. SizeSum(S) = x.size + SizeSum(U) /\ SizeSum(U) \in Nat BY <2>2, <2>3, <2>4, SizeMinus
    <3> QED BY ONLY <2>1, <2>2, <2>3, <3>1
  <2>5. CASE x \notin S
    <3>1. U = S BY <2>2, <2>5
    <3> QED BY ONLY <2>1, <2>2, <2>3, <3>1
  <2> QED BY <2>4, <2>5
<1>5. granted' = T BY <1>2
<1> QED BY ONLY <1>1, <1>3, <1>4, <1>5, x \in granted

\* While t has m_corralCS no other call is being served.
LEMMA AloneServing ==
    ASSUME ZoneInv, NEW t \in Threads, pc[t] \in Locked, NEW u \in Threads \ {t}
    PROVE  pc[u] \notin Serving
BY DEF ZoneInv, CallOK, Locked, Serving

LEMMA PeakInit == CorralInit => ApartInv /\ PeakInv
<1> SUFFICES ASSUME CorralInit PROVE ApartInv /\ PeakInv OBVIOUS
<1>1. /\ granted = {} /\ peak = 0 /\ highWater = 0 /\ segCount = 0
      /\ sum \in [Everyone -> Nat] /\ \A t \in Threads : pc[t] = "idle"
  BY DEF CorralInit, Everyone
<1>2. IsFiniteSet(granted) /\ SizeSum(granted) = 0 BY <1>1, FS_EmptySet, NoSize
<1>3. ApartInv BY <1>1 DEF ApartInv
<1>4. PeakInv BY <1>1, <1>2 DEF PeakInv, ServeOK, Serving
<1> QED BY <1>3, <1>4

\* What neither gives a slot out nor takes one back nor counts any.
LEMMA PeakQuiet ==
    ASSUME PeakInv, UNCHANGED <<granted, peak, highWater>>, sum' \in [Everyone -> Nat],
           \A u \in Threads :
              /\ pc'[u] \in {"commit", "record"} <=> pc[u] \in {"commit", "record"}
              /\ pc'[u] = "stats" <=> pc[u] = "stats"
              /\ pc[u] \in Serving => /\ slot'[u] = slot[u] /\ idx'[u] = idx[u] /\ sum'[u] = sum[u]
                                     /\ UNCHANGED zones
    PROVE  PeakInv'
<1>1. ASSUME NEW u \in Threads PROVE ServeOK(u)'
  <2>1. ServeOK(u) BY DEF PeakInv
  <2>2. ASSUME UNCHANGED zones PROVE \A n : Todo(n)' = Todo(n)
    BY <2>2 DEF Todo, Segment, zones
  <2>3. CASE pc[u] \in {"commit", "record"} BY <2>1, <2>3 DEF ServeOK, Serving
  <2>4. CASE pc[u] = "stats"
    <3>1. UNCHANGED zones /\ pc'[u] = "stats" /\ idx'[u] = idx[u] /\ sum'[u] = sum[u]
      BY <2>4 DEF Serving
    <3>2. Todo(idx[u])' = Todo(idx[u]) BY ONLY <2>2, <3>1 DEF Todo
    <3>3. segCount' = segCount BY <3>1 DEF zones
    <3> QED BY ONLY <2>1, <2>4, <3>1, <3>2, <3>3, UNCHANGED <<granted, peak, highWater>> DEF ServeOK
  <2>5. CASE pc[u] \notin Serving BY <2>5 DEF ServeOK, Serving
  <2> QED BY <2>3, <2>4, <2>5 DEF Serving
<1>2. (\A t \in Threads : pc'[t] \notin Serving) => \A t \in Threads : pc[t] \notin Serving
  BY DEF Serving
<1> QED BY <1>1, <1>2 DEF PeakInv

\* A slot is granted: the peak is behind by its size.
LEMMA PeakGrant ==
    ASSUME ZoneInv, BlockInv, HoldInv, PeakInv, NEW t \in Threads, Search(t) \/ CarveNew(t),
           NEW i \in 0 .. segCount - 1, NEW b \in Block, Grant(t, i, b)
    PROVE  PeakInv'
<1>1. UNCHANGED <<os, zones, peak, sum>> /\ pc[t] \in {"search", "carve"}
  BY DEF Search, CarveNew
<1>2. /\ granted' = granted \cup {b} /\ highWater' = Max({highWater, UsedTotal + b.size})
      /\ slot' = [slot EXCEPT ![t] = b] /\ pc' = [pc EXCEPT ![t] = "commit"]
  BY DEF Grant, Goto
<1>3. b \notin granted /\ b.size \in Nat BY <1>1, BlockGrant, CorralAssumption DEF Block
<1>4. /\ SizeSum(granted) \in Nat /\ UsedTotal = SizeSum(granted) /\ IsFiniteSet(granted)
      /\ \A x \in granted : x.size \in Nat
  BY TodoType DEF PeakInv
<1>5. SizeSum(granted \cup {b}) = SizeSum(granted) + b.size BY <1>3, <1>4, SizePlus
<1>6. SizeSum(granted') = SizeSum(granted) + b.size /\ IsFiniteSet(granted')
  BY <1>2, <1>4, <1>5, FS_AddElement
<1>7. \A u \in Threads : pc[u] \notin Serving
  BY <1>1, AloneServing DEF Locked, Serving
<1>8. /\ peak \in Nat /\ highWater \in Nat /\ peak <= highWater /\ SizeSum(granted) <= peak
      /\ sum \in [Everyone -> Nat]
  BY <1>7 DEF PeakInv
<1>9. /\ highWater' \in Nat /\ peak' <= highWater' /\ SizeSum(granted') <= highWater'
      /\ SizeSum(granted') <= peak' + b.size
  <2>1. PICK s \in Nat, n \in Nat, h \in Nat, p \in Nat :
            s = SizeSum(granted) /\ n = b.size /\ h = highWater /\ p = peak
    BY <1>3, <1>4, <1>8
  <2>2. PICK z \in Nat : z = Max({h, s + n}) /\ z >= h /\ z >= s + n BY MaxOfTwo
  <2>3. highWater' = z /\ peak' = p /\ SizeSum(granted') = s + n
    BY <1>1, <1>2, <1>4, <1>6, <2>1, <2>2
  <2>4. p <= h /\ s <= p BY <1>8, <2>1
  <2> QED BY ONLY <2>1, <2>2, <2>3, <2>4
<1>10. /\ pc'[t] = "commit" /\ slot'[t] = b
       /\ \A u \in Threads \ {t} : pc'[u] = pc[u]
  BY <1>2 DEF ZoneInv, ZoneTypeOK, HoldInv, HoldTypeOK, Everyone
<1>11. \A u \in Threads : ServeOK(u)' BY <1>7, <1>9, <1>10 DEF ServeOK, Serving
<1> QED BY <1>1, <1>6, <1>8, <1>9, <1>10, <1>11 DEF PeakInv, Serving

\* A slot is given back, after a release or because its pages could not be
\* committed.
LEMMA PeakLess ==
    ASSUME ZoneInv, BlockInv, HoldInv, PeakInv, NEW t \in Threads, CommitFails(t) \/ GiveBack(t)
    PROVE  PeakInv'
<1>1. PICK x : x = slot[t] OBVIOUS
<1>2. /\ pc[t] \in {"commit", "give"} /\ granted' = granted \ {x}
      /\ UNCHANGED <<zones, peak, highWater>> /\ pc'[t] \notin Serving
      /\ sum' \in [Everyone -> Nat]
      /\ \A u \in Threads \ {t} : /\ pc'[u] = pc[u] /\ slot'[u] = slot[u] /\ idx'[u] = idx[u]
                                  /\ sum'[u] = sum[u]
  <2>1. /\ pc \in [Everyone -> Places] /\ HoldTypeOK /\ t \in Everyone /\ Threads \subseteq Everyone
        /\ sum \in [Everyone -> Nat]
    BY DEF ZoneInv, ZoneTypeOK, HoldInv, PeakInv, Everyone
  <2>2. CASE CommitFails(t)
    BY ONLY <1>1, <2>1, <2>2 DEF CommitFails, Goto, Serving, HoldTypeOK
  <2>3. CASE GiveBack(t)
    BY ONLY <1>1, <2>1, <2>3 DEF GiveBack, Return, Forget, Goto, Serving, HoldTypeOK
  <2> QED BY <2>2, <2>3
<1>3. x \in granted BY <1>1, <1>2 DEF HoldInv, SlotOK, Owns
<1>4. IsFiniteSet(granted) /\ PeakInv BY DEF PeakInv
<1>5. /\ x.size \in Nat /\ SizeSum(granted') \in Nat /\ IsFiniteSet(granted')
      /\ SizeSum(granted) = x.size + SizeSum(granted')
      /\ \A n : /\ SizeSum(Todo(n)) \in Nat /\ SizeSum(Todo(n)') \in Nat
               /\ \/ SizeSum(Todo(n)) = x.size + SizeSum(Todo(n)')
                  \/ SizeSum(Todo(n)) = SizeSum(Todo(n)')
  BY <1>2, <1>3, <1>4, TodoLess
<1>6. PICK n \in Nat, s \in Nat, p \in Nat, h \in Nat :
        n = x.size /\ s = SizeSum(granted') /\ p = peak /\ h = highWater
  BY <1>5 DEF PeakInv
<1>7. SizeSum(granted) = n + s /\ n + s <= h /\ p <= h BY <1>5, <1>6 DEF PeakInv
<1>8. ASSUME NEW u \in Threads PROVE ServeOK(u)'
  <2>1. ServeOK(u) BY DEF PeakInv
  <2>2. CASE u = t BY <1>2, <2>2 DEF ServeOK, Serving
  <2>3. CASE u # t /\ pc[u] \in {"commit", "record"}
    <3>1. slot[u] \in granted BY <2>3 DEF HoldInv, SlotOK, Owns
    <3>2. slot[u].size \in Nat BY <1>4, <3>1, TodoType
    <3>3. n + s <= p + slot[u].size BY <1>6, <1>7, <2>1, <2>3 DEF ServeOK
    <3>4. s <= p + slot[u].size BY ONLY <1>6, <3>2, <3>3
    <3> QED BY <1>2, <1>6, <2>3, <3>4 DEF ServeOK
  <2>4. CASE u # t /\ pc[u] = "stats"
    <3>1. PICK k, m \in Nat : k = idx[u] /\ m = sum[u]
      BY DEF PeakInv, HoldInv, HoldTypeOK, Everyone
    <3>2. PICK l \in Nat, r \in Nat : l = SizeSum(Todo(k)) /\ r = SizeSum(Todo(k)')
      BY <1>5
    <3>3. l = n + r \/ l = r BY <1>5, <1>6, <3>2
    <3>4. k <= segCount /\ n + s <= m + l /\ m + l <= h
      BY <1>6, <1>7, <2>1, <2>4, <3>1, <3>2 DEF ServeOK
    <3>5. s <= m + r /\ m + r <= h BY ONLY <1>6, <3>1, <3>2, <3>3, <3>4
    <3>6. idx'[u] = k /\ sum'[u] = m /\ pc'[u] = "stats" /\ segCount' = segCount
      BY <1>2, <2>4, <3>1 DEF zones
    <3>7. SizeSum(Todo(idx[u])') = r BY <3>2, <3>6 DEF Todo
    <3> QED BY ONLY <1>2, <1>6, <3>4, <3>5, <3>6, <3>7 DEF ServeOK
  <2>5. CASE u # t /\ pc[u] \notin Serving BY <1>2, <2>5 DEF ServeOK, Serving
  <2> QED BY <2>2, <2>3, <2>4, <2>5 DEF Serving
<1>9. s <= h BY <1>6, <1>7
<1>10. ASSUME \A u \in Threads : pc'[u] \notin Serving PROVE s <= p
  <2>1. \A u \in Threads \ {t} : pc[u] \notin Serving BY <1>2, <1>10
  <2>2. CASE pc[t] = "give"
    <3>1. n + s <= p BY <1>6, <1>7, <2>1, <2>2 DEF PeakInv, Serving
    <3> QED BY ONLY <1>6, <3>1
  <2>3. CASE pc[t] = "commit"
    <3>1. n + s <= p + n BY <1>1, <1>6, <1>7, <2>3 DEF PeakInv, ServeOK
    <3> QED BY ONLY <1>6, <3>1
  <2> QED BY <1>2, <2>2, <2>3
<1> QED BY <1>2, <1>5, <1>6, <1>7, <1>8, <1>9, <1>10 DEF PeakInv

\* The loop starts with everything to count.
LEMMA PeakRecord ==
    ASSUME ZoneInv, BlockInv, HoldInv, PeakInv, NEW t \in Threads, Record(t)
    PROVE  PeakInv'
<1>1. /\ pc[t] = "record" /\ pc'[t] = "stats" /\ idx'[t] = 0 /\ sum'[t] = 0
      /\ UNCHANGED <<granted, peak, highWater, zones>> /\ sum' \in [Everyone -> Nat]
      /\ \A u \in Threads \ {t} : pc'[u] = pc[u]
  BY DEF Record, Goto, ZoneInv, ZoneTypeOK, HoldInv, HoldTypeOK, PeakInv, Everyone
<1>2. \A u \in Threads \ {t} : pc'[u] \notin Serving
  BY <1>1, AloneServing DEF Locked
<1>3. SizeSum(granted) \in Nat BY TodoType DEF PeakInv
<1>4. Todo(0)' = granted BY <1>1, TodoEnds DEF Todo, Segment, zones
<1>5. segCount' \in Nat BY <1>1, CorralAssumption DEF ZoneInv, ZoneTypeOK, zones
<1>6. ServeOK(t)'
  <2>1. SizeSum(Todo(idx[t])') = SizeSum(granted) BY <1>1, <1>4 DEF Todo
  <2>2. SizeSum(granted) <= highWater BY DEF PeakInv
  <2>3. 0 <= segCount' BY <1>5
  <2>4. 0 + SizeSum(Todo(idx[t])') = SizeSum(granted') BY <1>1, <1>3, <2>1
  <2>5. SizeSum(granted') <= 0 + SizeSum(Todo(idx[t])') BY ONLY <1>1, <1>3, <2>4
  <2> QED BY ONLY <1>1, <2>1, <2>2, <2>3, <2>4, <2>5 DEF ServeOK
<1>7. \A u \in Threads : ServeOK(u)' BY <1>2, <1>6 DEF ServeOK, Serving
<1>8. pc'[t] \in Serving BY <1>1 DEF Serving
<1> QED BY <1>1, <1>7, <1>8 DEF PeakInv

\* One segment is counted.
LEMMA PeakCounts ==
    ASSUME ZoneInv, BlockInv, HoldInv, ApartInv, PeakInv, NEW t \in Threads,
           pc[t] = "stats", AddUp(t)
    PROVE  PeakInv'
<1>1. PICK k \in Nat, m \in Nat, c \in Nat : k = idx[t] /\ m = sum[t] /\ c = segCount
  BY CorralAssumption DEF ZoneInv, ZoneTypeOK, HoldInv, HoldTypeOK, PeakInv, Everyone
<1>2. /\ k < c /\ idx'[t] = k + 1 /\ pc'[t] = "stats"
      /\ UNCHANGED <<granted, peak, highWater, zones, pc>>
      /\ sum' = [sum EXCEPT ![t] = m + UsedIn(k)]
  BY <1>1 DEF AddUp, HoldInv, HoldTypeOK, Everyone
<1>3. PICK v \in Nat, r \in Nat : v = UsedIn(k) /\ r = SizeSum(Todo(k + 1))
  BY <1>1, <1>2, TodoNext DEF PeakInv
<1>4. SizeSum(Todo(k)) = v + r BY <1>1, <1>2, <1>3, TodoNext DEF PeakInv
<1>5. sum' \in [Everyone -> Nat] /\ sum'[t] = m + v
  BY <1>2, <1>3 DEF PeakInv, Everyone
<1>6. \A u \in Threads \ {t} : pc'[u] \notin Serving
  BY <1>2, AloneServing DEF Locked
<1>7. ServeOK(t)'
  <2>1. Todo(k + 1)' = Todo(k + 1) BY <1>2 DEF Todo, Segment, zones
  <2>2. SizeSum(Todo(idx[t])') = r BY <1>2, <1>3, <2>1 DEF Todo
  <2>3. SizeSum(granted) <= m + SizeSum(Todo(k)) /\ m + SizeSum(Todo(k)) <= highWater
    BY <1>1 DEF PeakInv, ServeOK
  <2>4. m + (v + r) = (m + v) + r /\ k + 1 <= c BY <1>1, <1>2, <1>3
  <2>5. segCount' = c BY <1>1, <1>2 DEF zones
  <2> QED BY ONLY <1>2, <1>4, <1>5, <2>2, <2>3, <2>4, <2>5 DEF ServeOK
<1>8. \A u \in Threads : ServeOK(u)' BY <1>6, <1>7 DEF ServeOK, Serving
<1>9. pc'[t] \in Serving BY <1>2 DEF Serving
<1> QED BY <1>2, <1>5, <1>8, <1>9 DEF PeakInv

\* What was counted is what is in use, or more.
LEMMA PeakRaised ==
    ASSUME ZoneInv, BlockInv, HoldInv, PeakInv, NEW t \in Threads, RaisePeak(t)
    PROVE  PeakInv'
<1>1. /\ pc[t] = "stats" /\ idx[t] = segCount /\ pc'[t] = "idle"
      /\ UNCHANGED <<granted, highWater>> /\ sum' \in [Everyone -> Nat]
      /\ \A u \in Threads \ {t} : pc'[u] = pc[u]
      /\ peak' = Max({peak, sum[t]})
  <2>1. pc \in [Everyone -> Places] /\ sum \in [Everyone -> Nat] /\ t \in Everyone
        /\ Threads \subseteq Everyone
    BY DEF ZoneInv, ZoneTypeOK, PeakInv, Everyone
  <2> QED BY ONLY <2>1, RaisePeak(t) DEF RaisePeak, Goto, Return, Forget
<1>2. PICK s \in Nat, m \in Nat, p \in Nat, h \in Nat :
        s = SizeSum(granted) /\ m = sum[t] /\ p = peak /\ h = highWater
  BY TodoType DEF PeakInv, Everyone
<1>3. SizeSum(Todo(idx[t])) = 0 BY <1>1, TodoEnds, NoSize
<1>4. s <= m + 0 /\ m + 0 <= h /\ p <= h /\ s <= h BY <1>1, <1>2, <1>3 DEF PeakInv, ServeOK
<1>5. PICK z \in Nat : z = peak' /\ z \in {p, m} /\ z >= m BY <1>1, <1>2, MaxOfTwo
<1>6. s <= z /\ z <= h BY <1>4, <1>5
<1>7. \A u \in Threads : pc'[u] \notin Serving BY <1>1, AloneServing DEF Locked, Serving
<1>8. \A u \in Threads : ServeOK(u)' BY <1>7 DEF ServeOK, Serving
<1>9. IsFiniteSet(granted') BY <1>1 DEF PeakInv
<1> QED BY ONLY <1>1, <1>2, <1>4, <1>5, <1>6, <1>8, <1>9 DEF PeakInv

\* A GetStats gives a number.
LEMMA UsedInType ==
    ASSUME BlockInv, IsFiniteSet(granted)
    PROVE  \A n : UsedIn(n) \in Nat
<1> SUFFICES ASSUME NEW n PROVE UsedIn(n) \in Nat OBVIOUS
<1>1. PICK A : A = {b \in granted : Within(b.addr, Segment(n))} OBVIOUS
<1>2. A \in SUBSET granted /\ \A b \in granted : b.size \in Nat BY <1>1, TodoType
<1>3. SizeSum(A) \in Nat BY <1>2, SizePart
<1> QED BY <1>1, <1>3 DEF UsedIn, SizeSum

\* The steps that the peak has nothing to do with.
LEMMA PeakApart ==
    ASSUME ZoneInv, BlockInv, HoldInv, PeakInv,
           \/ InitScriptArena \/ ReportCorralUsage \/ Report \/ AddUp(Monitor)
           \/ UNCHANGED corralVars
    PROVE  PeakInv'
<1>1. UNCHANGED <<granted, peak, highWater>>
  BY DEF InitScriptArena, ReportCorralUsage, Report, ReportUnlock, ReportPrint, AddUp, corralVars
<1>2. UNCHANGED zones \/ \A u \in Threads : pc[u] \notin Serving
  BY DEF InitScriptArena, ReportCorralUsage, Report, ReportUnlock, ReportPrint, AddUp, corralVars,
     ZoneInv, CallOK, Locked, Serving
<1>3. /\ pc \in [Everyone -> Places] /\ HoldTypeOK /\ sum \in [Everyone -> Nat]
      /\ Monitor \in Everyone /\ Threads \subseteq Everyone /\ Monitor \notin Threads
      /\ \A n : UsedIn(n) \in Nat
  BY UsedInType, CorralAssumption DEF ZoneInv, ZoneTypeOK, HoldInv, PeakInv, Everyone
<1>4. /\ sum' \in [Everyone -> Nat]
      /\ \A u \in Threads : /\ pc'[u] = pc[u] /\ slot'[u] = slot[u] /\ idx'[u] = idx[u]
                           /\ sum'[u] = sum[u]
  <2> USE DEF HoldTypeOK, local, Goto, Forget
  <2>1. CASE InitScriptArena BY ONLY <1>3, <2>1 DEF InitScriptArena
  <2>2. CASE ReportCorralUsage BY ONLY <1>3, <2>2 DEF ReportCorralUsage
  <2>3. CASE ReportUnlock BY ONLY <1>3, <2>3 DEF ReportUnlock
  <2>4. CASE ReportPrint BY ONLY <1>3, <2>4 DEF ReportPrint
  <2>5. CASE AddUp(Monitor) BY ONLY <1>3, <2>5 DEF AddUp
  <2>6. CASE UNCHANGED corralVars BY ONLY <1>3, <2>6 DEF corralVars
  <2> QED BY <2>1, <2>2, <2>3, <2>4, <2>5, <2>6 DEF Report
<1> QED BY <1>1, <1>2, <1>4, PeakQuiet DEF Serving

\* Neither have the steps of a call before it has its slot, and of a release
\* before the slot goes back.
LEMMA PeakElsewhere ==
    ASSUME ZoneInv, BlockInv, HoldInv, PeakInv, NEW t \in Threads,
           \/ CorralReserve(t) \/ VirtualFree(t) \/ Grow(t) \/ Commit(t) \/ RealVirtualAlloc(t)
           \/ Probe(t) \/ RealVirtualFree(t) \/ Erase(t) \/ Decommit(t)
           \/ AddUp(t) /\ pc[t] # "stats"
           \/ (Search(t) \/ CarveNew(t)) /\ UNCHANGED <<granted, slot>> /\ pc'[t] \in {"grow", "os"}
    PROVE  PeakInv'
<1>1. /\ pc \in [Everyone -> Places] /\ HoldTypeOK /\ sum \in [Everyone -> Nat]
      /\ t \in Everyone /\ Threads \subseteq Everyone
      /\ \A n : UsedIn(n) \in Nat
  BY UsedInType DEF ZoneInv, ZoneTypeOK, HoldInv, PeakInv, Everyone
<1>2. /\ UNCHANGED <<granted, peak, highWater>> /\ sum' \in [Everyone -> Nat]
      /\ \A u \in Threads \ {t} : /\ pc'[u] = pc[u] /\ slot'[u] = slot[u] /\ idx'[u] = idx[u]
                                  /\ sum'[u] = sum[u]
      /\ \/ pc[t] \notin Serving /\ pc'[t] \notin Serving
         \/ pc[t] = "commit" /\ pc'[t] = "record" /\ UNCHANGED <<slot, idx, sum, zones>>
      /\ UNCHANGED zones \/ pc[t] \in Locked
  <2> USE DEF HoldTypeOK, local, Goto, Forget, Return, Serving, Locked
  <2>1. CASE CorralReserve(t) BY ONLY <1>1, <2>1 DEF CorralReserve
  <2>2. CASE VirtualFree(t) BY ONLY <1>1, <2>2 DEF VirtualFree
  <2>3. CASE SetBase(t) BY ONLY <1>1, <2>3 DEF SetBase
  <2>4. CASE SetSize(t) BY ONLY <1>1, <2>4 DEF SetSize
  <2>5. CASE Publish(t) BY ONLY <1>1, <2>5 DEF Publish
  <2>6. CASE CannotGrow(t) BY ONLY <1>1, <2>6 DEF CannotGrow
  <2>7. CASE Commit(t) BY ONLY <1>1, <2>7 DEF Commit
  <2>8. CASE RealVirtualAlloc(t) BY ONLY <1>1, <2>8 DEF RealVirtualAlloc
  <2>9. CASE Probe(t) BY ONLY <1>1, <2>9 DEF Probe
  <2>10. CASE RealVirtualFree(t) BY ONLY <1>1, <2>10 DEF RealVirtualFree
  <2>11. CASE Erase(t) BY ONLY <1>1, <2>11 DEF Erase
  <2>12. CASE Decommit(t) BY ONLY <1>1, <2>12 DEF Decommit
  <2>13. CASE AddUp(t) /\ pc[t] # "stats" BY ONLY <1>1, <2>13 DEF AddUp
  <2>14. CASE Search(t) /\ UNCHANGED <<granted, slot>> /\ pc'[t] \in {"grow", "os"}
    BY ONLY <1>1, <2>14 DEF Search, Grant
  <2>15. CASE CarveNew(t) /\ UNCHANGED <<granted, slot>> /\ pc'[t] \in {"grow", "os"}
    BY ONLY <1>1, <2>15 DEF CarveNew, Grant
  <2> QED BY <2>1, <2>2, <2>3, <2>4, <2>5, <2>6, <2>7, <2>8, <2>9, <2>10, <2>11, <2>12, <2>13,
             <2>14, <2>15 DEF Grow
<1>3. ASSUME NEW u \in Threads
      PROVE  /\ pc'[u] \in {"commit", "record"} <=> pc[u] \in {"commit", "record"}
             /\ pc'[u] = "stats" <=> pc[u] = "stats"
             /\ pc[u] \in Serving => /\ slot'[u] = slot[u] /\ idx'[u] = idx[u] /\ sum'[u] = sum[u]
                                    /\ UNCHANGED zones
  BY <1>2, AloneServing DEF Serving
<1> QED BY ONLY <1>2, <1>3, PeakInv, PeakQuiet

\* Every step.
LEMMA PeakStep ==
    ASSUME ZoneInv, BlockInv, HoldInv, ApartInv, PeakInv, [CorralNext]_corralVars
    PROVE  PeakInv'
<1>1. ASSUME NEW t \in Threads, Search(t) \/ CarveNew(t) PROVE PeakInv'
  BY <1>1, ServedFrom, PeakGrant, PeakElsewhere
<1>2. ASSUME NEW t \in Threads, AddUp(t) PROVE PeakInv'
  BY <1>2, PeakCounts, PeakElsewhere
<1> QED BY <1>1, <1>2, PeakApart, PeakElsewhere, PeakLess, PeakRecord, PeakRaised
        DEF CorralNext, Step, Serve, Release

\* Both hold always.
LEMMA PeakInvariance == CorralSpec => [](ApartInv /\ PeakInv)
<1>1. CorralInit => ApartInv /\ PeakInv BY PeakInit
<1>2. ZoneInv /\ BlockInv /\ HoldInv /\ ZoneInv' /\ ApartInv /\ PeakInv
      /\ [CorralNext]_corralVars => (ApartInv /\ PeakInv)'
  <2> SUFFICES ASSUME ZoneInv, BlockInv, HoldInv, ZoneInv', ApartInv, PeakInv,
                      [CorralNext]_corralVars
               PROVE  ApartInv' /\ PeakInv'
    OBVIOUS
  <2> QED BY ZoneStep, ApartStep, PeakStep
<1> QED BY <1>1, <1>2, CorralInvariance, PTL DEF CorralSpec

\* The peak that the heartbeat reports is neither above what was ever in use
\* nor, with no call inside CorralReserve, below what is in use now, although
\* the segments are read one after the other while slots are given back.
THEOREM PeakBoundsAlways == CorralSpec => []PeakBounds
<1>1. ZoneInv /\ BlockInv /\ HoldInv /\ PeakInv => PeakBounds
  <2> SUFFICES ASSUME ZoneInv, BlockInv, PeakInv PROVE PeakBounds OBVIOUS
  <2>1. lock = NoThread => \A t \in Threads : pc[t] \notin Serving
    BY CorralAssumption DEF ZoneInv, CallOK, Locked, Serving
  <2>2. UsedTotal = SizeSum(granted) BY TodoType DEF PeakInv
  <2> QED BY <2>1, <2>2 DEF PeakInv, PeakBounds
<1> QED BY <1>1, CorralInvariance, PeakInvariance, PTL

-----------------------------------------------------------------------------
(* The lock *)

\* m_corralCS belongs to a call between its EnterCriticalSection and its
\* LeaveCriticalSection, and to nobody else.
LockHeldInside ==
    /\ \A t \in Threads : pc[t] \in Locked <=> lock = t
    /\ pc[Monitor] = "report" <=> lock = Monitor

\* What ZoneInv does not say: the owner of the lock has not left.
LockInv ==
    /\ \A t \in Threads : lock = t => pc[t] \in Locked
    /\ lock = Monitor => pc[Monitor] = "report"

\* Each way out of CorralReserve gives the lock back.
LEMMA LeavesUnlocked ==
    ASSUME ZoneInv, LockInv, NEW t \in Threads, CorralReserve(t) \/ VirtualFree(t) \/ Step(t)
    PROVE  /\ lock' \in {lock, NoThread, t}
           /\ lock' = t => pc'[t] \in Locked
           /\ \A u \in Everyone \ {t} : pc'[u] = pc[u]
<1>1. /\ pc \in [Everyone -> Places] /\ t \in Everyone /\ t # NoThread
      /\ lock = t => pc[t] \in Locked
  BY CorralAssumption DEF ZoneInv, ZoneTypeOK, LockInv, Everyone
<1> USE DEF Goto, Return, Locked
<1>2. CASE CorralReserve(t) BY ONLY <1>1, <1>2 DEF CorralReserve
<1>3. CASE VirtualFree(t) BY ONLY <1>1, <1>3 DEF VirtualFree
<1>4. CASE SetBase(t) BY ONLY <1>1, <1>4 DEF SetBase
<1>5. CASE SetSize(t) BY ONLY <1>1, <1>5 DEF SetSize
<1>6. CASE Publish(t) BY ONLY <1>1, <1>6 DEF Publish
<1>7. CASE CannotGrow(t) BY ONLY <1>1, <1>7 DEF CannotGrow
<1>8. CASE Search(t) BY ONLY <1>1, <1>8 DEF Search, Grant
<1>9. CASE CarveNew(t) BY ONLY <1>1, <1>9 DEF CarveNew, Grant
<1>10. CASE Commit(t) BY ONLY <1>1, <1>10 DEF Commit
<1>11. CASE CommitFails(t) BY ONLY <1>1, <1>11 DEF CommitFails
<1>12. CASE Record(t) BY ONLY <1>1, <1>12 DEF Record
<1>13. CASE RaisePeak(t) BY ONLY <1>1, <1>13 DEF RaisePeak
<1>14. CASE RealVirtualAlloc(t) BY ONLY <1>1, <1>14 DEF RealVirtualAlloc
<1>15. CASE Probe(t) BY ONLY <1>1, <1>15 DEF Probe
<1>16. CASE RealVirtualFree(t) BY ONLY <1>1, <1>16 DEF RealVirtualFree
<1>17. CASE Erase(t) BY ONLY <1>1, <1>17 DEF Erase
<1>18. CASE Decommit(t) BY ONLY <1>1, <1>18 DEF Decommit
<1>19. CASE GiveBack(t) BY ONLY <1>1, <1>19 DEF GiveBack
<1>20. CASE AddUp(t) BY ONLY <1>1, <1>20 DEF AddUp
<1> QED BY <1>2, <1>3, <1>4, <1>5, <1>6, <1>7, <1>8, <1>9, <1>10, <1>11, <1>12, <1>13, <1>14,
           <1>15, <1>16, <1>17, <1>18, <1>19, <1>20 DEF Step, Grow, Serve, Release

\* Every step.
LEMMA LockStep == ASSUME ZoneInv, LockInv, [CorralNext]_corralVars PROVE LockInv'
<1>1. /\ Monitor \notin Threads /\ NoThread \notin Threads \cup {Monitor}
      /\ pc \in [Everyone -> Places] /\ Monitor \in Everyone
  BY CorralAssumption DEF ZoneInv, ZoneTypeOK, Everyone
<1>2. ASSUME NEW t \in Threads, CorralReserve(t) \/ VirtualFree(t) \/ Step(t) PROVE LockInv'
  BY <1>1, <1>2, LeavesUnlocked DEF LockInv, Everyone
<1>3. CASE InitScriptArena \/ UNCHANGED corralVars
  BY <1>3 DEF LockInv, InitScriptArena, corralVars
<1>4. CASE ReportCorralUsage BY <1>1, <1>4 DEF LockInv, ReportCorralUsage, Goto, Everyone
<1>5. CASE ReportUnlock BY <1>1, <1>5 DEF LockInv, ReportUnlock, Goto, Everyone
<1>6. CASE ReportPrint BY <1>1, <1>6 DEF LockInv, ReportPrint, Goto, Everyone
<1>7. CASE AddUp(Monitor) BY <1>7 DEF LockInv, AddUp
<1> QED BY <1>2, <1>3, <1>4, <1>5, <1>6, <1>7 DEF CorralNext, Report

\* No failure of a commit or of the growth, and no release, leaves m_corralCS
\* taken, and nobody works on the table who does not have it.
THEOREM LockHeldInsideAlways == CorralSpec => []LockHeldInside
<1>1. CorralInit => LockInv BY CorralAssumption DEF CorralInit, LockInv
<1>2. ZoneInv /\ LockInv /\ [CorralNext]_corralVars => LockInv' BY LockStep
<1>3. ZoneInv /\ LockInv => LockHeldInside BY DEF ZoneInv, CallOK, LockInv, LockHeldInside
<1> QED BY <1>1, <1>2, <1>3, CorralInvariance, PTL DEF CorralSpec

-----------------------------------------------------------------------------
(* The corral implements ArenaContract *)

\* The slots and the state of the corral, as those of a single arena.
CorralHeld == {[addr |-> b.addr, size |-> b.size] : b \in granted}
CorralPhase == IF ready = "boot" THEN "new" ELSE IF ready = "yes" THEN "up" ELSE "down"

AsArena == INSTANCE ArenaContract
             WITH ArenaSize <- AddrMax + 1, phase <- CorralPhase, held <- CorralHeld

\* A slot of any zone is a grant of the contract.
LEMMA GrantIsGrant ==
    ASSUME ZoneInv, BlockInv, NEW t \in Threads, UNCHANGED <<ready, os, zones>>,
           NEW i \in 0 .. segCount - 1, NEW b \in Block, Grant(t, i, b)
    PROVE  AsArena!Grant
<1> DEFINE v == [addr |-> b.addr, size |-> b.size]
<1>1. granted' = granted \cup {b} /\ Fits(b, granted) BY DEF Grant
<1>2. CorralHeld' = CorralHeld \cup {v} BY <1>1 DEF CorralHeld
<1>3. ready = "yes"
  <2>1. segCount # 0 BY DEF ZoneInv
  <2> QED BY <2>1 DEF ZoneInv
<1>4. \A h \in CorralHeld : AsArena!Apart(v, h)
  BY <1>1 DEF CorralHeld, AsArena!Apart, Fits, Disjoint
<1>5. /\ b.addr \in 0 .. AddrMax + 1 /\ b.size \in 1 .. AddrMax + 1
      /\ AsArena!Inside(v)
  BY <1>1, CorralAssumption DEF Fits, Block, AsArena!Inside
<1>6. CorralPhase = "up" /\ CorralPhase' = CorralPhase BY <1>3 DEF CorralPhase
<1> HIDE DEF v
<1>7. \E a \in 0 .. AddrMax + 1, n \in 1 .. AddrMax + 1 : v = [addr |-> a, size |-> n]
  BY <1>5 DEF v
<1> QED BY <1>2, <1>4, <1>5, <1>6, <1>7 DEF AsArena!Grant

\* A slot that is given back, whether its pages could not be committed or the
\* game has released it, is a return.
LEMMA ReturnIsReturn ==
    ASSUME ZoneInv, BlockInv, NEW x \in granted, granted' = granted \ {x}, UNCHANGED ready
    PROVE  AsArena!Return
<1> DEFINE v == [addr |-> x.addr, size |-> x.size]
<1>1. ready = "yes" BY DEF BlockInv, ZoneInv
<1>2. \A c \in granted : c # x => [addr |-> c.addr, size |-> c.size] # v BY BlocksDiffer
<1>3. CorralHeld' = CorralHeld \ {v} /\ v \in CorralHeld BY <1>2 DEF CorralHeld
<1>4. CorralPhase = "up" /\ CorralPhase' = CorralPhase BY <1>1 DEF CorralPhase
<1> QED BY <1>3, <1>4 DEF AsArena!Return

\* Every step of the corral is a step of the contract or invisible to it.
LEMMA CorralStepRefines ==
    ASSUME ZoneInv, BlockInv, HoldInv, [CorralNext]_corralVars
    PROVE  [AsArena!ContractNext]_AsArena!contractVars
<1> SUFFICES AsArena!ContractNext \/ UNCHANGED <<CorralPhase, CorralHeld>>
  BY DEF AsArena!contractVars
<1>1. ASSUME UNCHANGED <<ready, granted>> PROVE UNCHANGED <<CorralPhase, CorralHeld>>
  BY <1>1 DEF CorralPhase, CorralHeld
<1>2. CASE InitScriptArena
  <2>1. ready = "boot" /\ granted' = granted /\ ready' \in {"yes", "no"}
    BY <1>2 DEF InitScriptArena
  <2>2. segCount = 0 BY <2>1 DEF ZoneInv
  <2>3. granted = {} BY <2>2 DEF BlockInv
  <2>4. CorralHeld = {} /\ CorralHeld' = {} BY <2>1, <2>3 DEF CorralHeld
  <2>5. CorralPhase = "new" /\ CorralPhase' \in {"up", "down"} BY <2>1 DEF CorralPhase
  <2> QED BY <2>4, <2>5 DEF AsArena!ContractNext, AsArena!Open, AsArena!Close
<1>3. ASSUME NEW t \in Threads, Search(t) \/ CarveNew(t)
      PROVE  AsArena!ContractNext \/ UNCHANGED <<CorralPhase, CorralHeld>>
  <2>1. UNCHANGED <<ready, os, zones>> BY <1>3 DEF Search, CarveNew
  <2>2. CASE \E i \in 0 .. segCount - 1, b \in Block : Grant(t, i, b)
    BY <2>1, <2>2, GrantIsGrant DEF AsArena!ContractNext
  <2>3. CASE granted' = granted BY <1>1, <2>1, <2>3
  <2> QED BY <1>3, <2>2, <2>3, ServedFrom
<1>4. ASSUME NEW t \in Threads, CommitFails(t) \/ GiveBack(t)
      PROVE  AsArena!ContractNext
  <2>1. granted' = granted \ {slot[t]} /\ UNCHANGED ready /\ pc[t] \in {"commit", "give"}
    BY <1>4 DEF CommitFails, GiveBack
  <2>2. slot[t] \in granted BY <2>1 DEF HoldInv, SlotOK, Owns
  <2> QED BY <2>1, <2>2, ReturnIsReturn DEF AsArena!ContractNext
<1>5. ASSUME NEW t \in Threads,
             \/ CorralReserve(t) \/ VirtualFree(t) \/ Grow(t) \/ Commit(t) \/ Record(t)
             \/ RaisePeak(t) \/ RealVirtualAlloc(t) \/ Probe(t) \/ RealVirtualFree(t)
             \/ Erase(t) \/ Decommit(t) \/ AddUp(t)
      PROVE  UNCHANGED <<CorralPhase, CorralHeld>>
  BY <1>1, <1>5 DEF CorralReserve, VirtualFree, Grow, SetBase, SetSize, Publish, CannotGrow, Commit,
     Record, RaisePeak, RealVirtualAlloc, Probe, RealVirtualFree, Erase, Decommit, AddUp
<1>6. CASE ReportCorralUsage \/ Report \/ AddUp(Monitor) \/ UNCHANGED corralVars
  BY <1>1, <1>6 DEF ReportCorralUsage, Report, ReportUnlock, ReportPrint, AddUp, corralVars
<1> QED BY <1>2, <1>3, <1>4, <1>5, <1>6 DEF CorralNext, Step, Serve, Release

\* The zones together, with a table that grows while slots are out, give their
\* users what a single arena gives: slots that share no byte and stay out until
\* they are given back.
THEOREM CorralRefinement == CorralSpec => AsArena!ContractSpec
<1>1. CorralInit => AsArena!ContractInit
  BY DEF CorralInit, CorralPhase, CorralHeld, AsArena!ContractInit
<1>2. ZoneInv /\ BlockInv /\ HoldInv /\ [CorralNext]_corralVars
        => [AsArena!ContractNext]_AsArena!contractVars
  BY CorralStepRefines
<1> QED BY <1>1, <1>2, CorralInvariance, PTL DEF CorralSpec, AsArena!ContractSpec

-----------------------------------------------------------------------------
(* Type correctness *)

\* What the other invariants leave open about the types.
RestOK ==
    /\ segBase \in [0 .. MaxSegs - 1 -> 0 .. AddrMax]
    /\ segSize \in [0 .. MaxSegs - 1 -> 0 .. Width - 1]
    /\ totalReserved \in 0 .. Width - 1
    /\ sizes \cup committed \subseteq Block
    /\ idx \in [Everyone -> 0 .. MaxSegs] /\ limit \in [Everyone -> 0 .. MaxSegs]

LEMMA RestInit == CorralInit => RestOK
<1> SUFFICES ASSUME CorralInit PROVE RestOK OBVIOUS
<1>1. /\ 0 \in 0 .. AddrMax /\ 0 \in 0 .. Width - 1 /\ 0 \in 0 .. MaxSegs
  BY CorralAssumption
<1> QED BY ONLY <1>1, CorralInit DEF CorralInit, RestOK

\* The table keeps to the address space and to the width of its arithmetic.
LEMMA RestGrows ==
    ASSUME ZoneInv, RestOK,
           InitScriptArena \/ \E t \in Threads : SetBase(t) \/ SetSize(t) \/ Publish(t)
    PROVE  RestOK'
<1>1. /\ 0 \in 0 .. MaxSegs - 1 /\ 0 .. Width - 1 = 0 .. Width - 1
      /\ 1 .. Width - 1 \subseteq 0 .. Width - 1 /\ 1 .. AddrMax \subseteq 0 .. AddrMax
      /\ StartSize \in 1 .. Width - 1 /\ Width \in Nat \ {0}
  BY CorralAssumption
<1>2. CASE InitScriptArena
  <2>1. UNCHANGED <<sizes, committed, idx, limit>> BY <1>2 DEF InitScriptArena, local
  <2>2. CASE UNCHANGED zones BY <2>1, <2>2 DEF RestOK, zones
  <2>3. CASE /\ \E a \in 1 .. AddrMax : segBase' = [segBase EXCEPT ![0] = a]
             /\ segSize' = [segSize EXCEPT ![0] = StartSize] /\ totalReserved' = StartSize
    BY ONLY <1>1, <2>1, <2>3, RestOK DEF RestOK
  <2> QED BY <1>2, <2>2, <2>3 DEF InitScriptArena
<1>3. ASSUME NEW t \in Threads, SetBase(t) \/ SetSize(t) \/ Publish(t) PROVE RestOK'
  <2>1. UNCHANGED <<sizes, committed, idx, limit>>
    BY <1>3 DEF SetBase, SetSize, Publish, local
  <2>2. CASE SetBase(t)
    <3>1. PICK a \in 1 .. AddrMax : segBase' = [segBase EXCEPT ![segCount] = a]
      BY <2>2 DEF SetBase
    <3>2. UNCHANGED <<segSize, totalReserved>> BY <2>2 DEF SetBase
    <3> QED BY ONLY <1>1, <2>1, <3>1, <3>2, RestOK DEF RestOK
  <2>3. CASE SetSize(t)
    <3>1. PICK n : n = GrowBy(req[t].size) OBVIOUS
    <3>2. n \in 1 .. Width - 1 BY <2>3, <3>1, GrowBySize DEF SetSize, ZoneInv, CallOK, Asking
    <3>3. /\ segSize' = [segSize EXCEPT ![segCount] = n] /\ UNCHANGED segBase
          /\ totalReserved' = (totalReserved + n) % Width
      BY <2>3, <3>1 DEF SetSize
    <3>4. totalReserved' \in 0 .. Width - 1
      <4>1. totalReserved \in Nat /\ n \in Nat BY <1>1, <3>2 DEF RestOK
      <4>2. PICK k \in Nat : k = totalReserved + n BY <4>1
      <4>3. k % Width \in 0 .. Width - 1 BY <1>1
      <4> QED BY <3>3, <4>2, <4>3
    <3>5. segSize' \in [0 .. MaxSegs - 1 -> 0 .. Width - 1]
      BY ONLY <1>1, <3>2, <3>3, RestOK DEF RestOK
    <3> QED BY <2>1, <3>3, <3>4, <3>5 DEF RestOK
  <2>4. CASE Publish(t) BY <2>1, <2>4 DEF Publish, RestOK
  <2> QED BY <1>3, <2>2, <2>3, <2>4
<1> QED BY <1>2, <1>3

\* The loops stay inside the table, and only blocks are recorded.
LEMMA RestCall ==
    ASSUME ZoneInv, BlockInv, HoldInv, RestOK, NEW t \in Threads,
           \/ CorralReserve(t) \/ VirtualFree(t) \/ CannotGrow(t) \/ Serve(t) \/ Release(t)
    PROVE  RestOK'
<1>1. /\ segCount \in 0 .. MaxSegs /\ 0 \in 0 .. MaxSegs /\ t \in Everyone
      /\ pc[t] \in {"commit", "record"} => slot[t] \in Block
      /\ pc[t] = "probe" /\ idx[t] < limit[t] => idx[t] + 1 \in 0 .. MaxSegs
  <2>1. segCount \in 0 .. MaxSegs /\ 0 \in 0 .. MaxSegs /\ t \in Everyone
    BY CorralAssumption DEF ZoneInv, ZoneTypeOK, Everyone
  <2>2. pc[t] \in {"commit", "record"} => slot[t] \in granted BY DEF HoldInv, SlotOK, Owns
  <2>3. \A i, j \in 0 .. MaxSegs : i < j => i + 1 \in 0 .. MaxSegs BY CorralAssumption
  <2> QED BY <2>1, <2>2, <2>3 DEF BlockInv, RestOK
<1>2. UNCHANGED zones
  BY DEF CorralReserve, VirtualFree, CannotGrow, Serve, Search, CarveNew, Commit, CommitFails,
         Record, RaisePeak, RealVirtualAlloc, Release, Probe, RealVirtualFree, Erase, Decommit,
         GiveBack
<1>3. /\ sizes' \cup committed' \subseteq Block
      /\ idx' \in [Everyone -> 0 .. MaxSegs] /\ limit' \in [Everyone -> 0 .. MaxSegs]
  <2>1. /\ sizes \cup committed \subseteq Block
        /\ idx \in [Everyone -> 0 .. MaxSegs] /\ limit \in [Everyone -> 0 .. MaxSegs]
    BY DEF RestOK
  <2> USE DEF local, Return, Forget, Goto
  <2>2. CASE CorralReserve(t) BY ONLY <1>1, <2>1, <2>2 DEF CorralReserve
  <2>3. CASE VirtualFree(t) BY ONLY <1>1, <2>1, <2>3 DEF VirtualFree
  <2>4. CASE CannotGrow(t) BY ONLY <1>1, <2>1, <2>4 DEF CannotGrow
  <2>5. CASE Search(t) BY ONLY <1>1, <2>1, <2>5 DEF Search, Grant
  <2>6. CASE CarveNew(t) BY ONLY <1>1, <2>1, <2>6 DEF CarveNew, Grant
  <2>7. CASE Commit(t) BY ONLY <1>1, <2>1, <2>7 DEF Commit
  <2>8. CASE CommitFails(t) BY ONLY <1>1, <2>1, <2>8 DEF CommitFails
  <2>9. CASE Record(t) BY ONLY <1>1, <2>1, <2>9 DEF Record
  <2>10. CASE RaisePeak(t) BY ONLY <1>1, <2>1, <2>10 DEF RaisePeak
  <2>11. CASE RealVirtualAlloc(t) BY ONLY <1>1, <2>1, <2>11 DEF RealVirtualAlloc
  <2>12. CASE Probe(t) BY ONLY <1>1, <2>1, <2>12 DEF Probe
  <2>13. CASE RealVirtualFree(t) BY ONLY <1>1, <2>1, <2>13 DEF RealVirtualFree
  <2>14. CASE Erase(t) BY ONLY <1>1, <2>1, <2>14 DEF Erase
  <2>15. CASE Decommit(t) BY ONLY <1>1, <2>1, <2>15 DEF Decommit
  <2>16. CASE GiveBack(t) BY ONLY <1>1, <2>1, <2>16 DEF GiveBack
  <2> QED BY <2>2, <2>3, <2>4, <2>5, <2>6, <2>7, <2>8, <2>9, <2>10, <2>11, <2>12, <2>13,
             <2>14, <2>15, <2>16 DEF Serve, Release
<1> QED BY <1>2, <1>3 DEF RestOK, zones

\* Every step.
LEMMA RestStep ==
    ASSUME ZoneInv, BlockInv, HoldInv, RestOK, [CorralNext]_corralVars
    PROVE  RestOK'
<1>1. ASSUME NEW t \in Everyone, AddUp(t) PROVE RestOK'
  <2>1. /\ segCount \in 0 .. MaxSegs /\ idx[t] \in 0 .. MaxSegs /\ idx[t] < segCount
        /\ idx' = [idx EXCEPT ![t] = idx[t] + 1]
        /\ UNCHANGED <<zones, sizes, committed, limit>>
    BY <1>1 DEF ZoneInv, ZoneTypeOK, RestOK, AddUp
  <2>2. \A i, j \in 0 .. MaxSegs : i < j => i + 1 \in 0 .. MaxSegs BY CorralAssumption
  <2>3. idx[t] + 1 \in 0 .. MaxSegs BY <2>1, <2>2
  <2> QED BY <2>1, <2>3 DEF RestOK, zones
<1>2. CASE ReportCorralUsage \/ Report \/ UNCHANGED corralVars
  <2>1. UNCHANGED <<zones, sizes, committed>>
    BY <1>2 DEF ReportCorralUsage, Report, ReportUnlock, ReportPrint, corralVars
  <2>2. idx' \in [Everyone -> 0 .. MaxSegs] /\ limit' \in [Everyone -> 0 .. MaxSegs]
    <3>1. 0 \in 0 .. MaxSegs /\ idx \in [Everyone -> 0 .. MaxSegs]
          /\ limit \in [Everyone -> 0 .. MaxSegs]
      BY CorralAssumption DEF RestOK
    <3> QED BY ONLY <1>2, <3>1 DEF ReportCorralUsage, Report, ReportUnlock, ReportPrint,
            corralVars, local, Forget
  <2> QED BY <2>1, <2>2 DEF RestOK, zones
<1> QED BY <1>1, <1>2, RestGrows, RestCall DEF CorralNext, Step, Grow, Everyone

\* Every variable of the corral has its type, and the loops over the segments
\* stay inside the table.
THEOREM CorralTypeCorrect == CorralSpec => []CorralTypeOK
<1>1. CorralInit => RestOK BY RestInit
<1>2. ZoneInv /\ BlockInv /\ HoldInv /\ RestOK /\ [CorralNext]_corralVars => RestOK'
  BY RestStep
<1>3. ZoneInv /\ BlockInv /\ HoldInv /\ PeakInv /\ RestOK => CorralTypeOK
  BY DEF ZoneInv, ZoneTypeOK, BlockInv, HoldInv, HoldTypeOK, PeakInv, RestOK, CorralTypeOK
<1> QED BY <1>1, <1>2, <1>3, CorralInvariance, PeakInvariance, PTL DEF CorralSpec
=============================================================================
