-------------------------- MODULE HookedMemoryProofs --------------------------
(***************************************************************************)
(* HookInv is inductive as long as the real heap serves every realloc: no  *)
(* interleaving of the hooks loses a slot, gives one to two owners or      *)
(* takes the memory of a pointer the game holds, for any number of         *)
(* threads and slots, any size of the VAT array and with or without direct *)
(* callers of the Nt exports.                                              *)
(***************************************************************************)
EXTENDS HookedMemory, FiniteSetTheorems, TLAPS

\* The hooks are installed over an arena with nothing granted.
LEMMA InitHookInv == HookInit => HookInv
BY DEF HookInit, HookInv, HookTypeOK, HeldIsUsable, OneOwner, FreeSlotsClean,
       SlotsAccounted, LedgersApart, CallOK, GamePtrs, Hand

\* A hook that is entered for a request it redirects.
LEMMA RedirectInv ==
    ASSUME HookInv, NEW t \in Threads, NEW kind \in {"heap", "va", "nt"}, Redirect(t, kind)
    PROVE  HookInv'
<1> USE HookAssumption DEF HookInv, memory, ghosts, Redirect
<1>1. HookTypeOK' BY DEF HookTypeOK, CallOK
<1>2. Hand(t)' = Hand(t)
  BY DEF HookTypeOK, Hand, CallOK
<1>3. \A u \in Threads \ {t} : Hand(u)' = Hand(u) BY DEF HookTypeOK, Hand
<1>4. HeldIsUsable'
  BY DEF HeldIsUsable, GamePtrs, OneOwner, CallOK, Hand, HookTypeOK, LedgersApart
<1>5. FreeSlotsClean'
  BY DEF FreeSlotsClean, CallOK, HookTypeOK
<1>6. OneOwner'
  <2>1. heapPtrs' \cap vaPtrs' = {}
    BY DEF OneOwner, GamePtrs, CallOK, LedgersApart, Hand, HookTypeOK
  <2>2. Hand(t)' \cap GamePtrs' = {}
    BY <1>2 DEF OneOwner, GamePtrs, HeldIsUsable, CallOK, Hand, HookTypeOK
  <2>3. \A u \in Threads \ {t} : Hand(u)' \cap GamePtrs' = {}
    BY <1>3 DEF OneOwner, GamePtrs, CallOK, Hand, HookTypeOK
  <2>4. \A u \in Threads : pc'[u] # "done" /\ new'[u] # None => new'[u] # old'[u]
    BY DEF OneOwner, CallOK, HookTypeOK
  <2>5. \A u \in Threads \ {t} : Hand(t)' \cap Hand(u)' = {}
    BY <1>2, <1>3 DEF OneOwner, GamePtrs, CallOK, Hand, HookTypeOK
  <2>6. \A u, v \in Threads \ {t} : u # v => Hand(u)' \cap Hand(v)' = {}
    BY <1>3 DEF OneOwner
  <2> QED BY <2>1, <2>2, <2>3, <2>4, <2>5, <2>6 DEF OneOwner
<1>7. SlotsAccounted'
  BY <1>2, <1>3 DEF SlotsAccounted, GamePtrs, CallOK, HookTypeOK, Hand
<1>8. LedgersApart'
  BY <1>2, <1>3 DEF LedgersApart, OneOwner, GamePtrs, CallOK, HookTypeOK, Hand, FreeSlotsClean,
                    HeldIsUsable
<1>9. CallOK(t)'
  BY DEF CallOK, HookTypeOK, LedgersApart, OneOwner, HeldIsUsable, GamePtrs, Hand, FreeSlotsClean
<1>10. \A u \in Threads \ {t} : CallOK(u)'
  BY DEF CallOK, HookTypeOK, OneOwner, Hand, GamePtrs, LedgersApart, HeldIsUsable
<1> QED BY <1>1, <1>4, <1>5, <1>6, <1>7, <1>8, <1>9, <1>10

\* The arena grants a slot, or refuses.
LEMMA CarveInv ==
    ASSUME HookInv, NEW t \in Threads, Carve(t)
    PROVE  HookInv'
<1> USE HookAssumption DEF HookInv, memory, ghosts, Carve
<1>1. HookTypeOK' BY DEF HookTypeOK, CallOK
<1>2. Hand(t)' = Hand(t) \cup (held' \ held)
  BY DEF HookTypeOK, Hand, CallOK
<1>3. \A u \in Threads \ {t} : Hand(u)' = Hand(u) BY DEF HookTypeOK, Hand
<1>4. HeldIsUsable'
  BY DEF HeldIsUsable, GamePtrs, OneOwner, CallOK, Hand, HookTypeOK, LedgersApart
<1>5. FreeSlotsClean'
  BY DEF FreeSlotsClean, CallOK, HookTypeOK
<1>6. OneOwner'
  <2>1. heapPtrs' \cap vaPtrs' = {}
    BY DEF OneOwner, GamePtrs, CallOK, LedgersApart, Hand, HookTypeOK
  <2>2. Hand(t)' \cap GamePtrs' = {}
    BY <1>2 DEF OneOwner, GamePtrs, HeldIsUsable, CallOK, Hand, HookTypeOK
  <2>3. \A u \in Threads \ {t} : Hand(u)' \cap GamePtrs' = {}
    BY <1>3 DEF OneOwner, GamePtrs, CallOK, Hand, HookTypeOK
  <2>4. \A u \in Threads : pc'[u] # "done" /\ new'[u] # None => new'[u] # old'[u]
    BY DEF OneOwner, CallOK, HookTypeOK
  <2>5. \A u \in Threads \ {t} : Hand(t)' \cap Hand(u)' = {}
    BY <1>2, <1>3 DEF OneOwner, GamePtrs, CallOK, Hand, HookTypeOK
  <2>6. \A u, v \in Threads \ {t} : u # v => Hand(u)' \cap Hand(v)' = {}
    BY <1>3 DEF OneOwner
  <2> QED BY <2>1, <2>2, <2>3, <2>4, <2>5, <2>6 DEF OneOwner
<1>7. SlotsAccounted'
  BY <1>2, <1>3 DEF SlotsAccounted, GamePtrs, CallOK, HookTypeOK, Hand
<1>8. LedgersApart'
  BY <1>2, <1>3 DEF LedgersApart, OneOwner, GamePtrs, CallOK, HookTypeOK, Hand, FreeSlotsClean,
                    HeldIsUsable
<1>9. CallOK(t)'
  BY DEF CallOK, HookTypeOK, LedgersApart, OneOwner, HeldIsUsable, GamePtrs, Hand, FreeSlotsClean
<1>10. \A u \in Threads \ {t} : CallOK(u)'
  BY DEF CallOK, HookTypeOK, OneOwner, Hand, GamePtrs, LedgersApart, HeldIsUsable
<1> QED BY <1>1, <1>4, <1>5, <1>6, <1>7, <1>8, <1>9, <1>10

\* The commit succeeds, or the slot goes back.
LEMMA CommitInv ==
    ASSUME HookInv, NEW t \in Threads, Commit(t)
    PROVE  HookInv'
<1> USE HookAssumption DEF HookInv, memory, ghosts, Commit
<1>1. HookTypeOK' BY DEF HookTypeOK, CallOK
<1>2. Hand(t)' = IF held' = held THEN Hand(t) ELSE Hand(t) \ {new[t]}
  BY DEF HookTypeOK, Hand, CallOK
<1>3. \A u \in Threads \ {t} : Hand(u)' = Hand(u) BY DEF HookTypeOK, Hand
<1>4. HeldIsUsable'
  BY DEF HeldIsUsable, GamePtrs, OneOwner, CallOK, Hand, HookTypeOK, LedgersApart
<1>5. FreeSlotsClean'
  BY DEF FreeSlotsClean, CallOK, HookTypeOK
<1>6. OneOwner'
  <2>1. heapPtrs' \cap vaPtrs' = {}
    BY DEF OneOwner, GamePtrs, CallOK, LedgersApart, Hand, HookTypeOK
  <2>2. Hand(t)' \cap GamePtrs' = {}
    BY <1>2 DEF OneOwner, GamePtrs, HeldIsUsable, CallOK, Hand, HookTypeOK
  <2>3. \A u \in Threads \ {t} : Hand(u)' \cap GamePtrs' = {}
    BY <1>3 DEF OneOwner, GamePtrs, CallOK, Hand, HookTypeOK
  <2>4. \A u \in Threads : pc'[u] # "done" /\ new'[u] # None => new'[u] # old'[u]
    BY DEF OneOwner, CallOK, HookTypeOK
  <2>5. \A u \in Threads \ {t} : Hand(t)' \cap Hand(u)' = {}
    BY <1>2, <1>3 DEF OneOwner, GamePtrs, CallOK, Hand, HookTypeOK
  <2>6. \A u, v \in Threads \ {t} : u # v => Hand(u)' \cap Hand(v)' = {}
    BY <1>3 DEF OneOwner
  <2> QED BY <2>1, <2>2, <2>3, <2>4, <2>5, <2>6 DEF OneOwner
<1>7. SlotsAccounted'
  BY <1>2, <1>3 DEF SlotsAccounted, GamePtrs, CallOK, HookTypeOK, Hand
<1>8. LedgersApart'
  BY <1>2, <1>3 DEF LedgersApart, OneOwner, GamePtrs, CallOK, HookTypeOK, Hand, FreeSlotsClean,
                    HeldIsUsable
<1>9. CallOK(t)'
  BY DEF CallOK, HookTypeOK, LedgersApart, OneOwner, HeldIsUsable, GamePtrs, Hand, FreeSlotsClean
<1>10. \A u \in Threads \ {t} : CallOK(u)'
  BY DEF CallOK, HookTypeOK, OneOwner, Hand, GamePtrs, LedgersApart, HeldIsUsable
<1> QED BY <1>1, <1>4, <1>5, <1>6, <1>7, <1>8, <1>9, <1>10

\* A heap slot is recorded and, for an allocation, returned.
LEMMA RecordInv ==
    ASSUME HookInv, NEW t \in Threads, Record(t)
    PROVE  HookInv'
<1> USE HookAssumption DEF HookInv, memory, ghosts, Record, ReturnToGame
<1>1. HookTypeOK'
  <2>1. new[t] \in Slots BY DEF HookTypeOK, CallOK
  <2>2. CASE api[t] = "heap"
    <3>1. inHook' \in [Threads -> BOOLEAN] BY <2>2 DEF HookTypeOK
    <3>2. pc' = [pc EXCEPT ![t] = "game"] /\ api' = [api EXCEPT ![t] = "none"]
      BY <2>2
    <3> QED BY <2>1, <2>2, <3>1, <3>2 DEF HookTypeOK
  <2>3. CASE api[t] # "heap" BY <2>1, <2>3 DEF HookTypeOK
  <2> QED BY <2>2, <2>3
<1>2. Hand(t)' = IF api[t] = "heap" THEN {} ELSE Hand(t)
  BY DEF HookTypeOK, Hand, CallOK
<1>3. \A u \in Threads \ {t} : Hand(u)' = Hand(u) BY DEF HookTypeOK, Hand
<1>4. HeldIsUsable'
  BY DEF HeldIsUsable, GamePtrs, OneOwner, CallOK, Hand, HookTypeOK, LedgersApart
<1>5. FreeSlotsClean'
  BY DEF FreeSlotsClean, CallOK, HookTypeOK
<1>6. OneOwner'
  <2>1. heapPtrs' \cap vaPtrs' = {}
    BY DEF OneOwner, GamePtrs, CallOK, LedgersApart, Hand, HookTypeOK
  <2>2. Hand(t)' \cap GamePtrs' = {}
    BY <1>2 DEF OneOwner, GamePtrs, HeldIsUsable, CallOK, Hand, HookTypeOK
  <2>3. \A u \in Threads \ {t} : Hand(u)' \cap GamePtrs' = {}
    BY <1>3 DEF OneOwner, GamePtrs, CallOK, Hand, HookTypeOK
  <2>4. \A u \in Threads : pc'[u] # "done" /\ new'[u] # None => new'[u] # old'[u]
    BY DEF OneOwner, CallOK, HookTypeOK
  <2>5. \A u \in Threads \ {t} : Hand(t)' \cap Hand(u)' = {}
    BY <1>2, <1>3 DEF OneOwner, GamePtrs, CallOK, Hand, HookTypeOK
  <2>6. \A u, v \in Threads \ {t} : u # v => Hand(u)' \cap Hand(v)' = {}
    BY <1>3 DEF OneOwner
  <2> QED BY <2>1, <2>2, <2>3, <2>4, <2>5, <2>6 DEF OneOwner
<1>7. SlotsAccounted'
  BY <1>2, <1>3 DEF SlotsAccounted, GamePtrs, CallOK, HookTypeOK, Hand
<1>8. LedgersApart'
  BY <1>2, <1>3 DEF LedgersApart, OneOwner, GamePtrs, CallOK, HookTypeOK, Hand, FreeSlotsClean,
                    HeldIsUsable
<1>9. CallOK(t)'
  BY DEF CallOK, HookTypeOK, LedgersApart, OneOwner, HeldIsUsable, GamePtrs, Hand, FreeSlotsClean
<1>10. \A u \in Threads \ {t} : CallOK(u)'
  <2> SUFFICES ASSUME NEW u \in Threads \ {t} PROVE CallOK(u)'
    OBVIOUS
  <2>1. /\ pc'[u] = pc[u] /\ api'[u] = api[u] /\ new'[u] = new[u] /\ old'[u] = old[u]
        /\ held' = held /\ committed' = committed /\ vat' = vat
    BY DEF HookTypeOK
  <2>2. records' = records \cup {new[t]} /\ new[t] \in Hand(t)
    BY DEF Hand, CallOK, HookTypeOK
  <2>3. Hand(t) \cap Hand(u) = {} BY DEF OneOwner
  <2>4. pc[u] \in {"commit", "publish"} => new[u] \notin records'
    BY <2>2, <2>3 DEF CallOK, Hand, HookTypeOK
  <2>5. pc[u] \in {"decommit", "giveback"} => old[u] \notin records'
    BY <2>2, <2>3 DEF CallOK, Hand, HookTypeOK
  <2>6. CallOK(u) OBVIOUS
  <2> HIDE DEF Record, HookInv
  <2> QED BY <2>1, <2>2, <2>4, <2>5, <2>6 DEF CallOK
<1> QED BY <1>1, <1>4, <1>5, <1>6, <1>7, <1>8, <1>9, <1>10

\* A reserve is entered in the VAT array, if it has room, and returned.
LEMMA VatTrackInv ==
    ASSUME HookInv, NEW t \in Threads, VatTrack(t)
    PROVE  HookInv'
<1> USE HookAssumption DEF HookInv, memory, ghosts, VatTrack, ReturnToGame
<1>1. HookTypeOK' BY DEF HookTypeOK, CallOK
<1>2. Hand(t)' = {}
  BY DEF HookTypeOK, Hand, CallOK
<1>3. \A u \in Threads \ {t} : Hand(u)' = Hand(u) BY DEF HookTypeOK, Hand
<1>4. HeldIsUsable'
  BY DEF HeldIsUsable, GamePtrs, OneOwner, CallOK, Hand, HookTypeOK, LedgersApart
<1>5. FreeSlotsClean'
  BY DEF FreeSlotsClean, CallOK, HookTypeOK
<1>6. OneOwner'
  <2>1. heapPtrs' \cap vaPtrs' = {}
    BY DEF OneOwner, GamePtrs, CallOK, LedgersApart, Hand, HookTypeOK
  <2>2. Hand(t)' \cap GamePtrs' = {}
    BY <1>2 DEF OneOwner, GamePtrs, HeldIsUsable, CallOK, Hand, HookTypeOK
  <2>3. \A u \in Threads \ {t} : Hand(u)' \cap GamePtrs' = {}
    BY <1>3 DEF OneOwner, GamePtrs, CallOK, Hand, HookTypeOK
  <2>4. \A u \in Threads : pc'[u] # "done" /\ new'[u] # None => new'[u] # old'[u]
    BY DEF OneOwner, CallOK, HookTypeOK
  <2>5. \A u \in Threads \ {t} : Hand(t)' \cap Hand(u)' = {}
    BY <1>2, <1>3 DEF OneOwner, GamePtrs, CallOK, Hand, HookTypeOK
  <2>6. \A u, v \in Threads \ {t} : u # v => Hand(u)' \cap Hand(v)' = {}
    BY <1>3 DEF OneOwner
  <2> QED BY <2>1, <2>2, <2>3, <2>4, <2>5, <2>6 DEF OneOwner
<1>7. SlotsAccounted'
  BY <1>2, <1>3 DEF SlotsAccounted, GamePtrs, CallOK, HookTypeOK, Hand
<1>8. LedgersApart'
  BY <1>2, <1>3 DEF LedgersApart, OneOwner, GamePtrs, CallOK, HookTypeOK, Hand, FreeSlotsClean,
                    HeldIsUsable
<1>9. CallOK(t)'
  BY DEF CallOK, HookTypeOK, LedgersApart, OneOwner, HeldIsUsable, GamePtrs, Hand, FreeSlotsClean
<1>10. \A u \in Threads \ {t} : CallOK(u)'
  <2> SUFFICES ASSUME NEW u \in Threads \ {t} PROVE CallOK(u)'
    OBVIOUS
  <2>1. /\ pc'[u] = pc[u] /\ api'[u] = api[u] /\ new'[u] = new[u] /\ old'[u] = old[u]
        /\ held' = held /\ committed' = committed /\ records' = records
    BY DEF HookTypeOK
  <2>2. vat' \subseteq vat \cup {new[t]} /\ new[t] \in Hand(t) BY DEF Hand, CallOK, HookTypeOK
  <2>3. Hand(t) \cap Hand(u) = {} BY DEF OneOwner
  <2>4. pc[u] \in {"commit", "publish"} => new[u] \notin vat'
    BY <2>2, <2>3 DEF CallOK, Hand, HookTypeOK
  <2>5. pc[u] \in {"decommit", "giveback"} => old[u] \notin vat'
    BY <2>2, <2>3 DEF CallOK, Hand, HookTypeOK
  <2>6. CallOK(u) OBVIOUS
  <2> HIDE DEF VatTrack, HookInv
  <2> QED BY <2>1, <2>4, <2>5, <2>6 DEF CallOK
<1> QED BY <1>1, <1>4, <1>5, <1>6, <1>7, <1>8, <1>9, <1>10

\* The real allocator serves the request.
LEMMA RealAllocatorInv ==
    ASSUME HookInv, NEW t \in Threads, ~RealHeapCanFail, RealAllocator(t)
    PROVE  HookInv'
<1> USE HookAssumption DEF HookInv, memory, ghosts, RealAllocator, ReturnToGame
<1>1. HookTypeOK'
  <2>1. inHook' \in [Threads -> BOOLEAN]
    <3>1. inHook' \in {inHook, [inHook EXCEPT ![t] = FALSE]} OBVIOUS
    <3> QED BY <3>1, Zenon DEF HookTypeOK
  <2>2. CASE api[t] # "realloc" BY <2>1, <2>2 DEF HookTypeOK
  <2>3. CASE api[t] = "realloc" BY <2>1, <2>3 DEF HookTypeOK
  <2> QED BY <2>2, <2>3
<1>2. Hand(t)' = Hand(t)
  BY DEF HookTypeOK, Hand, CallOK
<1>3. \A u \in Threads \ {t} : Hand(u)' = Hand(u) BY DEF HookTypeOK, Hand
<1>4. HeldIsUsable'
  BY DEF HeldIsUsable, GamePtrs, OneOwner, CallOK, Hand, HookTypeOK, LedgersApart
<1>5. FreeSlotsClean'
  BY DEF FreeSlotsClean, CallOK, HookTypeOK
<1>6. OneOwner'
  <2>1. heapPtrs' \cap vaPtrs' = {}
    BY DEF OneOwner, GamePtrs, CallOK, LedgersApart, Hand, HookTypeOK
  <2>2. Hand(t)' \cap GamePtrs' = {}
    BY <1>2 DEF OneOwner, GamePtrs, HeldIsUsable, CallOK, Hand, HookTypeOK
  <2>3. \A u \in Threads \ {t} : Hand(u)' \cap GamePtrs' = {}
    BY <1>3 DEF OneOwner, GamePtrs, CallOK, Hand, HookTypeOK
  <2>4. \A u \in Threads : pc'[u] # "done" /\ new'[u] # None => new'[u] # old'[u]
    BY DEF OneOwner, CallOK, HookTypeOK
  <2>5. \A u \in Threads \ {t} : Hand(t)' \cap Hand(u)' = {}
    BY <1>2, <1>3 DEF OneOwner, GamePtrs, CallOK, Hand, HookTypeOK
  <2>6. \A u, v \in Threads \ {t} : u # v => Hand(u)' \cap Hand(v)' = {}
    BY <1>3 DEF OneOwner
  <2> QED BY <2>1, <2>2, <2>3, <2>4, <2>5, <2>6 DEF OneOwner
<1>7. SlotsAccounted'
  BY <1>2, <1>3 DEF SlotsAccounted, GamePtrs, CallOK, HookTypeOK, Hand
<1>8. LedgersApart'
  BY <1>2, <1>3 DEF LedgersApart, OneOwner, GamePtrs, CallOK, HookTypeOK, Hand, FreeSlotsClean,
                    HeldIsUsable
<1>9. CallOK(t)'
  BY DEF CallOK, HookTypeOK, LedgersApart, OneOwner, HeldIsUsable, GamePtrs, Hand, FreeSlotsClean
<1>10. \A u \in Threads \ {t} : CallOK(u)'
  BY DEF CallOK, HookTypeOK, OneOwner, Hand, GamePtrs, LedgersApart, HeldIsUsable
<1> QED BY <1>1, <1>4, <1>5, <1>6, <1>7, <1>8, <1>9, <1>10

\* The game frees a heap slot.
LEMMA FreeHeapInv ==
    ASSUME HookInv, NEW t \in Threads, NEW p, FreeHeap(t, p)
    PROVE  HookInv'
<1> USE HookAssumption DEF HookInv, memory, ghosts, FreeHeap
<1>1. HookTypeOK' BY DEF HookTypeOK, CallOK
<1>2. Hand(t)' = {p}
  BY DEF HookTypeOK, Hand, CallOK
<1>3. \A u \in Threads \ {t} : Hand(u)' = Hand(u) BY DEF HookTypeOK, Hand
<1>4. HeldIsUsable'
  BY DEF HeldIsUsable, GamePtrs, OneOwner, CallOK, Hand, HookTypeOK, LedgersApart
<1>5. FreeSlotsClean'
  BY DEF FreeSlotsClean, CallOK, HookTypeOK
<1>6. OneOwner'
  <2>1. heapPtrs' \cap vaPtrs' = {}
    BY DEF OneOwner, GamePtrs, CallOK, LedgersApart, Hand, HookTypeOK
  <2>2. Hand(t)' \cap GamePtrs' = {}
    BY <1>2 DEF OneOwner, GamePtrs, HeldIsUsable, CallOK, Hand, HookTypeOK
  <2>3. \A u \in Threads \ {t} : Hand(u)' \cap GamePtrs' = {}
    BY <1>3 DEF OneOwner, GamePtrs, CallOK, Hand, HookTypeOK
  <2>4. \A u \in Threads : pc'[u] # "done" /\ new'[u] # None => new'[u] # old'[u]
    BY DEF OneOwner, CallOK, HookTypeOK
  <2>5. \A u \in Threads \ {t} : Hand(t)' \cap Hand(u)' = {}
    BY <1>2, <1>3 DEF OneOwner, GamePtrs, CallOK, Hand, HookTypeOK
  <2>6. \A u, v \in Threads \ {t} : u # v => Hand(u)' \cap Hand(v)' = {}
    BY <1>3 DEF OneOwner
  <2> QED BY <2>1, <2>2, <2>3, <2>4, <2>5, <2>6 DEF OneOwner
<1>7. SlotsAccounted'
  BY <1>2, <1>3 DEF SlotsAccounted, GamePtrs, CallOK, HookTypeOK, Hand
<1>8. LedgersApart'
  BY <1>2, <1>3 DEF LedgersApart, OneOwner, GamePtrs, CallOK, HookTypeOK, Hand, FreeSlotsClean,
                    HeldIsUsable
<1>9. CallOK(t)'
  BY DEF CallOK, HookTypeOK, LedgersApart, OneOwner, HeldIsUsable, GamePtrs, Hand, FreeSlotsClean
<1>10. \A u \in Threads \ {t} : CallOK(u)'
  BY DEF CallOK, HookTypeOK, OneOwner, Hand, GamePtrs, LedgersApart, HeldIsUsable
<1> QED BY <1>1, <1>4, <1>5, <1>6, <1>7, <1>8, <1>9, <1>10

\* The game releases a reserve; the flag may be set or left alone.
LEMMA VatUntrackInv ==
    ASSUME HookInv, NEW t \in Threads, NEW p \in vaPtrs, pc[t] = "game", VatUntrack(t, p),
           inHook' \in {inHook, [inHook EXCEPT ![t] = TRUE]}
    PROVE  HookInv'
<1> USE HookAssumption DEF HookInv, memory, ghosts, VatUntrack
<1>1. HookTypeOK'
  <2>1. inHook' \in [Threads -> BOOLEAN] BY Zenon DEF HookTypeOK
  <2>2. CASE p \in vat
    <3>1. old' \in [Threads -> Slots \cup {None}] BY <2>2 DEF HookTypeOK
    <3> QED BY <2>1, <2>2, <3>1 DEF HookTypeOK
  <2>3. CASE p \notin vat
    <3>1. stray' \subseteq Slots BY <2>3 DEF HookTypeOK
    <3> QED BY <2>1, <2>3, <3>1 DEF HookTypeOK
  <2> QED BY <2>2, <2>3
<1>2. Hand(t)' = IF p \in vat THEN {p} ELSE {}
  BY DEF HookTypeOK, Hand, CallOK
<1>3. \A u \in Threads \ {t} : Hand(u)' = Hand(u) BY DEF HookTypeOK, Hand
<1>4. HeldIsUsable'
  BY DEF HeldIsUsable, GamePtrs, OneOwner, CallOK, Hand, HookTypeOK, LedgersApart
<1>5. FreeSlotsClean'
  BY DEF FreeSlotsClean, CallOK, HookTypeOK
<1>6. OneOwner'
  <2>1. heapPtrs' \cap vaPtrs' = {}
    BY DEF OneOwner, GamePtrs, CallOK, LedgersApart, Hand, HookTypeOK
  <2>2. Hand(t)' \cap GamePtrs' = {}
    BY <1>2 DEF OneOwner, GamePtrs, HeldIsUsable, CallOK, Hand, HookTypeOK
  <2>3. \A u \in Threads \ {t} : Hand(u)' \cap GamePtrs' = {}
    BY <1>3 DEF OneOwner, GamePtrs, CallOK, Hand, HookTypeOK
  <2>4. \A u \in Threads : pc'[u] # "done" /\ new'[u] # None => new'[u] # old'[u]
    BY DEF OneOwner, CallOK, HookTypeOK
  <2>5. \A u \in Threads \ {t} : Hand(t)' \cap Hand(u)' = {}
    BY <1>2, <1>3 DEF OneOwner, GamePtrs, CallOK, Hand, HookTypeOK
  <2>6. \A u, v \in Threads \ {t} : u # v => Hand(u)' \cap Hand(v)' = {}
    BY <1>3 DEF OneOwner
  <2> QED BY <2>1, <2>2, <2>3, <2>4, <2>5, <2>6 DEF OneOwner
<1>7. SlotsAccounted'
  BY <1>2, <1>3 DEF SlotsAccounted, GamePtrs, CallOK, HookTypeOK, Hand
<1>8. LedgersApart'
  BY <1>2, <1>3 DEF LedgersApart, OneOwner, GamePtrs, CallOK, HookTypeOK, Hand, FreeSlotsClean,
                    HeldIsUsable
<1>9. CallOK(t)'
  BY DEF CallOK, HookTypeOK, LedgersApart, OneOwner, HeldIsUsable, GamePtrs, Hand, FreeSlotsClean
<1>10. \A u \in Threads \ {t} : CallOK(u)'
  BY DEF CallOK, HookTypeOK, OneOwner, Hand, GamePtrs, LedgersApart, HeldIsUsable
<1> QED BY <1>1, <1>4, <1>5, <1>6, <1>7, <1>8, <1>9, <1>10

\* The record of the freed slot is erased.
LEMMA EraseRecordInv ==
    ASSUME HookInv, NEW t \in Threads, EraseRecord(t)
    PROVE  HookInv'
<1> USE HookAssumption DEF HookInv, memory, ghosts, EraseRecord
<1>1. HookTypeOK' BY DEF HookTypeOK, CallOK
<1>2. Hand(t)' = Hand(t)
  BY DEF HookTypeOK, Hand, CallOK
<1>3. \A u \in Threads \ {t} : Hand(u)' = Hand(u) BY DEF HookTypeOK, Hand
<1>4. HeldIsUsable'
  BY DEF HeldIsUsable, GamePtrs, OneOwner, CallOK, Hand, HookTypeOK, LedgersApart
<1>5. FreeSlotsClean'
  BY DEF FreeSlotsClean, CallOK, HookTypeOK
<1>6. OneOwner'
  <2>1. heapPtrs' \cap vaPtrs' = {}
    BY DEF OneOwner, GamePtrs, CallOK, LedgersApart, Hand, HookTypeOK
  <2>2. Hand(t)' \cap GamePtrs' = {}
    BY <1>2 DEF OneOwner, GamePtrs, HeldIsUsable, CallOK, Hand, HookTypeOK
  <2>3. \A u \in Threads \ {t} : Hand(u)' \cap GamePtrs' = {}
    BY <1>3 DEF OneOwner, GamePtrs, CallOK, Hand, HookTypeOK
  <2>4. \A u \in Threads : pc'[u] # "done" /\ new'[u] # None => new'[u] # old'[u]
    BY DEF OneOwner, CallOK, HookTypeOK
  <2>5. \A u \in Threads \ {t} : Hand(t)' \cap Hand(u)' = {}
    BY <1>2, <1>3 DEF OneOwner, GamePtrs, CallOK, Hand, HookTypeOK
  <2>6. \A u, v \in Threads \ {t} : u # v => Hand(u)' \cap Hand(v)' = {}
    BY <1>3 DEF OneOwner
  <2> QED BY <2>1, <2>2, <2>3, <2>4, <2>5, <2>6 DEF OneOwner
<1>7. SlotsAccounted'
  BY <1>2, <1>3 DEF SlotsAccounted, GamePtrs, CallOK, HookTypeOK, Hand
<1>8. LedgersApart'
  BY <1>2, <1>3 DEF LedgersApart, OneOwner, GamePtrs, CallOK, HookTypeOK, Hand, FreeSlotsClean,
                    HeldIsUsable
<1>9. CallOK(t)'
  BY DEF CallOK, HookTypeOK, LedgersApart, OneOwner, HeldIsUsable, GamePtrs, Hand, FreeSlotsClean
<1>10. \A u \in Threads \ {t} : CallOK(u)'
  BY DEF CallOK, HookTypeOK, OneOwner, Hand, GamePtrs, LedgersApart, HeldIsUsable
<1> QED BY <1>1, <1>4, <1>5, <1>6, <1>7, <1>8, <1>9, <1>10

\* Its pages are decommitted.
LEMMA DecommitInv ==
    ASSUME HookInv, NEW t \in Threads, Decommit(t)
    PROVE  HookInv'
<1> USE HookAssumption DEF HookInv, memory, ghosts, Decommit
<1>1. HookTypeOK' BY DEF HookTypeOK, CallOK
<1>2. Hand(t)' = Hand(t)
  BY DEF HookTypeOK, Hand, CallOK
<1>3. \A u \in Threads \ {t} : Hand(u)' = Hand(u) BY DEF HookTypeOK, Hand
<1>4. HeldIsUsable'
  BY DEF HeldIsUsable, GamePtrs, OneOwner, CallOK, Hand, HookTypeOK, LedgersApart
<1>5. FreeSlotsClean'
  BY DEF FreeSlotsClean, CallOK, HookTypeOK
<1>6. OneOwner'
  <2>1. heapPtrs' \cap vaPtrs' = {}
    BY DEF OneOwner, GamePtrs, CallOK, LedgersApart, Hand, HookTypeOK
  <2>2. Hand(t)' \cap GamePtrs' = {}
    BY <1>2 DEF OneOwner, GamePtrs, HeldIsUsable, CallOK, Hand, HookTypeOK
  <2>3. \A u \in Threads \ {t} : Hand(u)' \cap GamePtrs' = {}
    BY <1>3 DEF OneOwner, GamePtrs, CallOK, Hand, HookTypeOK
  <2>4. \A u \in Threads : pc'[u] # "done" /\ new'[u] # None => new'[u] # old'[u]
    BY DEF OneOwner, CallOK, HookTypeOK
  <2>5. \A u \in Threads \ {t} : Hand(t)' \cap Hand(u)' = {}
    BY <1>2, <1>3 DEF OneOwner, GamePtrs, CallOK, Hand, HookTypeOK
  <2>6. \A u, v \in Threads \ {t} : u # v => Hand(u)' \cap Hand(v)' = {}
    BY <1>3 DEF OneOwner
  <2> QED BY <2>1, <2>2, <2>3, <2>4, <2>5, <2>6 DEF OneOwner
<1>7. SlotsAccounted'
  BY <1>2, <1>3 DEF SlotsAccounted, GamePtrs, CallOK, HookTypeOK, Hand
<1>8. LedgersApart'
  BY <1>2, <1>3 DEF LedgersApart, OneOwner, GamePtrs, CallOK, HookTypeOK, Hand, FreeSlotsClean,
                    HeldIsUsable
<1>9. CallOK(t)'
  BY DEF CallOK, HookTypeOK, LedgersApart, OneOwner, HeldIsUsable, GamePtrs, Hand, FreeSlotsClean
<1>10. \A u \in Threads \ {t} : CallOK(u)'
  BY DEF CallOK, HookTypeOK, OneOwner, Hand, GamePtrs, LedgersApart, HeldIsUsable
<1> QED BY <1>1, <1>4, <1>5, <1>6, <1>7, <1>8, <1>9, <1>10

\* The slot goes back to the arena.
LEMMA GiveBackInv ==
    ASSUME HookInv, NEW t \in Threads, GiveBack(t)
    PROVE  HookInv'
<1> USE HookAssumption DEF HookInv, memory, ghosts, GiveBack
<1>1. HookTypeOK' BY DEF HookTypeOK, CallOK
<1>2. Hand(t)' = Hand(t) \ {old[t]}
  BY DEF HookTypeOK, Hand, CallOK
<1>3. \A u \in Threads \ {t} : Hand(u)' = Hand(u) BY DEF HookTypeOK, Hand
<1>4. HeldIsUsable'
  BY DEF HeldIsUsable, GamePtrs, OneOwner, CallOK, Hand, HookTypeOK, LedgersApart
<1>5. FreeSlotsClean'
  BY DEF FreeSlotsClean, CallOK, HookTypeOK
<1>6. OneOwner'
  <2>1. heapPtrs' \cap vaPtrs' = {}
    BY DEF OneOwner, GamePtrs, CallOK, LedgersApart, Hand, HookTypeOK
  <2>2. Hand(t)' \cap GamePtrs' = {}
    BY <1>2 DEF OneOwner, GamePtrs, HeldIsUsable, CallOK, Hand, HookTypeOK
  <2>3. \A u \in Threads \ {t} : Hand(u)' \cap GamePtrs' = {}
    BY <1>3 DEF OneOwner, GamePtrs, CallOK, Hand, HookTypeOK
  <2>4. \A u \in Threads : pc'[u] # "done" /\ new'[u] # None => new'[u] # old'[u]
    BY DEF OneOwner, CallOK, HookTypeOK
  <2>5. \A u \in Threads \ {t} : Hand(t)' \cap Hand(u)' = {}
    BY <1>2, <1>3 DEF OneOwner, GamePtrs, CallOK, Hand, HookTypeOK
  <2>6. \A u, v \in Threads \ {t} : u # v => Hand(u)' \cap Hand(v)' = {}
    BY <1>3 DEF OneOwner
  <2> QED BY <2>1, <2>2, <2>3, <2>4, <2>5, <2>6 DEF OneOwner
<1>7. SlotsAccounted'
  BY <1>2, <1>3 DEF SlotsAccounted, GamePtrs, CallOK, HookTypeOK, Hand
<1>8. LedgersApart'
  BY <1>2, <1>3 DEF LedgersApart, OneOwner, GamePtrs, CallOK, HookTypeOK, Hand, FreeSlotsClean,
                    HeldIsUsable
<1>9. CallOK(t)'
  BY DEF CallOK, HookTypeOK, LedgersApart, OneOwner, HeldIsUsable, GamePtrs, Hand, FreeSlotsClean
<1>10. \A u \in Threads \ {t} : CallOK(u)'
  BY DEF CallOK, HookTypeOK, OneOwner, Hand, GamePtrs, LedgersApart, HeldIsUsable
<1> QED BY <1>1, <1>4, <1>5, <1>6, <1>7, <1>8, <1>9, <1>10

\* The free or the realloc returns.
LEMMA FreeReturnsInv ==
    ASSUME HookInv, NEW t \in Threads, FreeReturns(t)
    PROVE  HookInv'
<1> USE HookAssumption DEF HookInv, memory, ghosts, FreeReturns, ReturnToGame
<1>1. HookTypeOK' BY DEF HookTypeOK, CallOK
<1>2. Hand(t)' = {}
  BY DEF HookTypeOK, Hand, CallOK
<1>3. \A u \in Threads \ {t} : Hand(u)' = Hand(u) BY DEF HookTypeOK, Hand
<1>4. HeldIsUsable'
  BY DEF HeldIsUsable, GamePtrs, OneOwner, CallOK, Hand, HookTypeOK, LedgersApart
<1>5. FreeSlotsClean'
  BY DEF FreeSlotsClean, CallOK, HookTypeOK
<1>6. OneOwner'
  <2>1. heapPtrs' \cap vaPtrs' = {}
    BY DEF OneOwner, GamePtrs, CallOK, LedgersApart, Hand, HookTypeOK
  <2>2. Hand(t)' \cap GamePtrs' = {}
    BY <1>2 DEF OneOwner, GamePtrs, HeldIsUsable, CallOK, Hand, HookTypeOK
  <2>3. \A u \in Threads \ {t} : Hand(u)' \cap GamePtrs' = {}
    BY <1>3 DEF OneOwner, GamePtrs, CallOK, Hand, HookTypeOK
  <2>4. \A u \in Threads : pc'[u] # "done" /\ new'[u] # None => new'[u] # old'[u]
    BY DEF OneOwner, CallOK, HookTypeOK
  <2>5. \A u \in Threads \ {t} : Hand(t)' \cap Hand(u)' = {}
    BY <1>2, <1>3 DEF OneOwner, GamePtrs, CallOK, Hand, HookTypeOK
  <2>6. \A u, v \in Threads \ {t} : u # v => Hand(u)' \cap Hand(v)' = {}
    BY <1>3 DEF OneOwner
  <2> QED BY <2>1, <2>2, <2>3, <2>4, <2>5, <2>6 DEF OneOwner
<1>7. SlotsAccounted'
  BY <1>2, <1>3 DEF SlotsAccounted, GamePtrs, CallOK, HookTypeOK, Hand
<1>8. LedgersApart'
  BY <1>2, <1>3 DEF LedgersApart, OneOwner, GamePtrs, CallOK, HookTypeOK, Hand, FreeSlotsClean,
                    HeldIsUsable
<1>9. CallOK(t)'
  BY DEF CallOK, HookTypeOK, LedgersApart, OneOwner, HeldIsUsable, GamePtrs, Hand, FreeSlotsClean
<1>10. \A u \in Threads \ {t} : CallOK(u)'
  BY DEF CallOK, HookTypeOK, OneOwner, Hand, GamePtrs, LedgersApart, HeldIsUsable
<1> QED BY <1>1, <1>4, <1>5, <1>6, <1>7, <1>8, <1>9, <1>10

\* A realloc of an arena block starts.
LEMMA ReallocSlotInv ==
    ASSUME HookInv, NEW t \in Threads, NEW p \in heapPtrs, pc[t] = "game", ReallocSlot(t, p)
    PROVE  HookInv'
<1> USE HookAssumption DEF HookInv, memory, ghosts, ReallocSlot
<1>1. HookTypeOK' BY DEF HookTypeOK, CallOK
<1>2. Hand(t)' = {p}
  BY DEF HookTypeOK, Hand, CallOK
<1>3. \A u \in Threads \ {t} : Hand(u)' = Hand(u) BY DEF HookTypeOK, Hand
<1>4. HeldIsUsable'
  BY DEF HeldIsUsable, GamePtrs, OneOwner, CallOK, Hand, HookTypeOK, LedgersApart
<1>5. FreeSlotsClean'
  BY DEF FreeSlotsClean, CallOK, HookTypeOK
<1>6. OneOwner'
  <2>1. heapPtrs' \cap vaPtrs' = {}
    BY DEF OneOwner, GamePtrs, CallOK, LedgersApart, Hand, HookTypeOK
  <2>2. Hand(t)' \cap GamePtrs' = {}
    BY <1>2 DEF OneOwner, GamePtrs, HeldIsUsable, CallOK, Hand, HookTypeOK
  <2>3. \A u \in Threads \ {t} : Hand(u)' \cap GamePtrs' = {}
    BY <1>3 DEF OneOwner, GamePtrs, CallOK, Hand, HookTypeOK
  <2>4. \A u \in Threads : pc'[u] # "done" /\ new'[u] # None => new'[u] # old'[u]
    BY DEF OneOwner, CallOK, HookTypeOK
  <2>5. \A u \in Threads \ {t} : Hand(t)' \cap Hand(u)' = {}
    BY <1>2, <1>3 DEF OneOwner, GamePtrs, CallOK, Hand, HookTypeOK
  <2>6. \A u, v \in Threads \ {t} : u # v => Hand(u)' \cap Hand(v)' = {}
    BY <1>3 DEF OneOwner
  <2> QED BY <2>1, <2>2, <2>3, <2>4, <2>5, <2>6 DEF OneOwner
<1>7. SlotsAccounted'
  BY <1>2, <1>3 DEF SlotsAccounted, GamePtrs, CallOK, HookTypeOK, Hand
<1>8. LedgersApart'
  BY <1>2, <1>3 DEF LedgersApart, OneOwner, GamePtrs, CallOK, HookTypeOK, Hand, FreeSlotsClean,
                    HeldIsUsable
<1>9. CallOK(t)'
  BY DEF CallOK, HookTypeOK, LedgersApart, OneOwner, HeldIsUsable, GamePtrs, Hand, FreeSlotsClean
<1>10. \A u \in Threads \ {t} : CallOK(u)'
  BY DEF CallOK, HookTypeOK, OneOwner, Hand, GamePtrs, LedgersApart, HeldIsUsable
<1> QED BY <1>1, <1>4, <1>5, <1>6, <1>7, <1>8, <1>9, <1>10

\* The guard sends an arena pointer to the real function: a release through
\* NtFreeVirtualMemory, or a realloc.
LEMMA StrayInv ==
    ASSUME HookInv, NEW t \in Threads, NEW p \in GamePtrs,
           heapPtrs' = heapPtrs \ {p}, vaPtrs' = vaPtrs \ {p}, stray' = stray \cup {p},
           UNCHANGED <<memory, inHook, shuttingDown, pc, api, new, old>>
    PROVE  HookInv'
<1> USE HookAssumption DEF HookInv, memory
<1>1. HookTypeOK' BY DEF HookTypeOK, GamePtrs
<1>2. \A u \in Threads : Hand(u)' = Hand(u) BY DEF Hand
<1>3. HeldIsUsable' /\ FreeSlotsClean' BY DEF HeldIsUsable, FreeSlotsClean, GamePtrs
<1>4. OneOwner' BY <1>2 DEF OneOwner, GamePtrs
<1>5. SlotsAccounted' BY <1>2 DEF SlotsAccounted, GamePtrs
<1>6. LedgersApart' BY <1>2 DEF LedgersApart, GamePtrs, HeldIsUsable, OneOwner
<1>7. \A u \in Threads : CallOK(u)' BY DEF CallOK
<1> QED BY <1>1, <1>3, <1>4, <1>5, <1>6, <1>7

\* A step that changes nothing but the shutdown flag.
LEMMA ShutdownInv ==
    ASSUME HookInv,
           UNCHANGED <<memory, inHook, pc, api, new, old, ghosts>>,
           shuttingDown' \in BOOLEAN
    PROVE  HookInv'
<1> USE DEF HookInv, memory, ghosts
<1>1. HookTypeOK' BY DEF HookTypeOK
<1>2. \A u \in Threads : Hand(u)' = Hand(u) BY DEF Hand
<1>3. HeldIsUsable' /\ FreeSlotsClean' BY DEF HeldIsUsable, FreeSlotsClean, GamePtrs
<1>4. OneOwner' BY <1>2 DEF OneOwner, GamePtrs
<1>5. SlotsAccounted' BY <1>2 DEF SlotsAccounted, GamePtrs
<1>6. LedgersApart' BY <1>2 DEF LedgersApart, GamePtrs
<1>7. \A u \in Threads : CallOK(u)' BY DEF CallOK
<1> QED BY <1>1, <1>3, <1>4, <1>5, <1>6, <1>7

\* A call the game makes into a hook.
LEMMA HookEntryInv ==
    ASSUME HookInv, NEW t \in Threads, HookEntry(t)
    PROVE  HookInv'
<1>1. CASE \E kind \in {"heap", "va", "nt"} : Redirect(t, kind)
  BY <1>1, RedirectInv
<1>2. CASE \E p \in heapPtrs : RtlFreeHeap(t, p) \/ HeapFree(t, p)
  BY <1>2, FreeHeapInv DEF RtlFreeHeap, HeapFree
<1>3. ASSUME NEW p \in heapPtrs, RtlReAllocateHeap(t, p) PROVE HookInv'
  <2>1. CASE ~Guarded(t) BY <1>3, <2>1, ReallocSlotInv DEF RtlReAllocateHeap
  <2>2. CASE Guarded(t)
    <3>1. vaPtrs' = vaPtrs \ {p}
      BY <1>3, <2>2 DEF RtlReAllocateHeap, HookInv, OneOwner
    <3> QED BY <1>3, <2>2, <3>1, StrayInv DEF RtlReAllocateHeap, GamePtrs
  <2> QED BY <2>1, <2>2
<1>4. CASE \E p \in heapPtrs : HeapReAlloc(t, p)
  BY <1>4, ReallocSlotInv DEF HeapReAlloc
<1>5. CASE \E p \in vaPtrs : VirtualFree(t, p)
  BY <1>5, VatUntrackInv DEF VirtualFree
<1>6. ASSUME NEW p \in vaPtrs, NtFreeVirtualMemory(t, p) PROVE HookInv'
  <2>1. CASE ~Guarded(t) BY <1>6, <2>1, VatUntrackInv DEF NtFreeVirtualMemory
  <2>2. CASE Guarded(t)
    <3>1. heapPtrs' = heapPtrs \ {p}
      BY <1>6, <2>2 DEF NtFreeVirtualMemory, HookInv, OneOwner
    <3> QED BY <1>6, <2>2, <3>1, StrayInv DEF NtFreeVirtualMemory, GamePtrs
  <2> QED BY <2>1, <2>2
<1> QED
  BY <1>1, <1>2, <1>3, <1>4, <1>5, <1>6
  DEF HookEntry, RtlAllocateHeap, HeapAlloc, HeapReAllocMoves, VirtualAlloc, NtAllocateVirtualMemory,
      NtAllocateVirtualMemoryEx

\* HookInv holds in every reachable state, for all Threads, Slots, VatMax and
\* DirectNt, when the real heap never refuses a realloc.
THEOREM HookInvariance ==
    ASSUME ~RealHeapCanFail
    PROVE  HookSpec => []HookInv
<1>1. HookInv /\ [HookNext]_hookVars => HookInv'
  <2> SUFFICES ASSUME HookInv, [HookNext]_hookVars PROVE HookInv' OBVIOUS
  <2>1. CASE BeginShutdown BY <2>1, ShutdownInv DEF BeginShutdown
  <2>2. ASSUME NEW t \in Threads, HookEntry(t) PROVE HookInv' BY <2>2, HookEntryInv
  <2>3. ASSUME NEW t \in Threads, HookStep(t) PROVE HookInv'
    BY <2>3, CarveInv, CommitInv, RecordInv, VatTrackInv, RealAllocatorInv,
       EraseRecordInv, DecommitInv, GiveBackInv, FreeReturnsInv DEF HookStep
  <2>4. CASE UNCHANGED hookVars
    <3>1. shuttingDown \in BOOLEAN BY DEF HookInv, HookTypeOK
    <3> QED BY <2>4, <3>1, ShutdownInv DEF hookVars
  <2> QED BY <2>1, <2>2, <2>3, <2>4 DEF HookNext
<1> QED BY <1>1, InitHookInv, PTL DEF HookSpec

\* Every arena pointer the game holds is granted and committed, whatever the
\* other threads allocate, free and reallocate meanwhile.
THEOREM HeldIsUsableAlways ==
    ASSUME ~RealHeapCanFail
    PROVE  HookSpec => []HeldIsUsable
<1>1. HookInv => HeldIsUsable BY DEF HookInv
<1> QED BY <1>1, HookInvariance, PTL

\* A slot never has two owners.
THEOREM OneOwnerAlways ==
    ASSUME ~RealHeapCanFail
    PROVE  HookSpec => []OneOwner
<1>1. HookInv => OneOwner BY DEF HookInv
<1> QED BY <1>1, HookInvariance, PTL

\* A slot the arena may grant again is decommitted and on no ledger.
THEOREM FreeSlotsCleanAlways ==
    ASSUME ~RealHeapCanFail
    PROVE  HookSpec => []FreeSlotsClean
<1>1. HookInv => FreeSlotsClean BY DEF HookInv
<1> QED BY <1>1, HookInvariance, PTL

\* A granted slot is the game's, in a hook's hands, or astray.
THEOREM SlotsAccountedAlways ==
    ASSUME ~RealHeapCanFail
    PROVE  HookSpec => []SlotsAccounted
<1>1. HookInv => SlotsAccounted BY DEF HookInv
<1> QED BY <1>1, HookInvariance, PTL

\* The state of MemoryManager and the hooks is well typed.
THEOREM HookTypeCorrect ==
    ASSUME ~RealHeapCanFail
    PROVE  HookSpec => []HookTypeOK
<1>1. HookInv => HookTypeOK BY DEF HookInv
<1> QED BY <1>1, HookInvariance, PTL

-----------------------------------------------------------------------------
(* The arena pointers that reach the real allocator *)

\* An array with an entry for every slot has one left for a slot it does not
\* track.
LEMMA RoomForOneMore ==
    ASSUME NEW S, S \subseteq Slots, NEW p \in Slots \ S, Cardinality(Slots) <= VatMax
    PROVE  Cardinality(S) < VatMax
<1>1. IsFiniteSet(Slots) /\ VatMax \in Nat BY HookAssumption
<1>2. IsFiniteSet(Slots \ {p}) /\ Cardinality(Slots \ {p}) = Cardinality(Slots) - 1
  BY <1>1, FS_RemoveElement
<1>3. S \subseteq Slots \ {p} OBVIOUS
<1>4. IsFiniteSet(S) /\ Cardinality(S) <= Cardinality(Slots \ {p})
  BY <1>2, <1>3, FS_Subset
<1>5. Cardinality(S) \in Nat /\ Cardinality(Slots) \in Nat
  BY <1>1, <1>4, FS_CardinalityType
<1> QED BY <1>1, <1>2, <1>4, <1>5

\* The steps on the VAT array keep an entry for every reserve the game holds;
\* the others touch neither.
LEMMA VatHasRoomStep ==
    ASSUME HookInv, VatHasRoom, [HookNext]_hookVars
    PROVE  VatHasRoom'
<1> SUFFICES ASSUME Cardinality(Slots) <= VatMax PROVE vaPtrs' \subseteq vat'
  BY DEF VatHasRoom
<1>1. vaPtrs \subseteq vat BY DEF VatHasRoom
<1>2. CASE UNCHANGED <<vaPtrs, vat>> BY <1>1, <1>2
<1>3. ASSUME NEW t \in Threads, VatTrack(t) PROVE vaPtrs' \subseteq vat'
  <2>1. new[t] \in Slots \ vat /\ vat \subseteq Slots
    BY <1>3 DEF VatTrack, HookInv, CallOK, HookTypeOK
  <2>2. Cardinality(vat) < VatMax BY <2>1, RoomForOneMore
  <2>3. vat' = vat \cup {new[t]} BY <1>3, <2>2 DEF VatTrack
  <2> QED BY <1>1, <1>3, <2>3 DEF VatTrack
<1>4. ASSUME NEW t \in Threads, NEW p \in vaPtrs, VatUntrack(t, p)
      PROVE  vaPtrs' \subseteq vat'
  BY <1>1, <1>4 DEF VatUntrack
<1>5. ASSUME NEW t \in Threads, NEW p \in vaPtrs, VirtualFree(t, p) \/ NtFreeVirtualMemory(t, p)
      PROVE  vaPtrs' \subseteq vat'
  BY <1>1, <1>4, <1>5 DEF VirtualFree, NtFreeVirtualMemory, memory
<1>6. ASSUME NEW t \in Threads, NEW p \in heapPtrs,
             \/ RtlFreeHeap(t, p) \/ HeapFree(t, p)
             \/ RtlReAllocateHeap(t, p) \/ HeapReAlloc(t, p)
      PROVE  UNCHANGED <<vaPtrs, vat>>
  BY <1>6 DEF RtlFreeHeap, HeapFree, RtlReAllocateHeap, HeapReAlloc, FreeHeap, ReallocSlot, memory
<1>7. ASSUME NEW t \in Threads, NEW kind, Redirect(t, kind) PROVE UNCHANGED <<vaPtrs, vat>>
  BY <1>7 DEF Redirect, memory, ghosts
<1>8. ASSUME NEW t \in Threads, HookEntry(t) PROVE vaPtrs' \subseteq vat'
  BY <1>2, <1>5, <1>6, <1>7, <1>8
  DEF HookEntry, RtlAllocateHeap, HeapAlloc, HeapReAllocMoves, VirtualAlloc,
      NtAllocateVirtualMemory, NtAllocateVirtualMemoryEx
<1>9. ASSUME NEW t \in Threads, HookStep(t), ~VatTrack(t) PROVE UNCHANGED <<vaPtrs, vat>>
  BY <1>9 DEF HookStep, Carve, Commit, Record, RealAllocator, EraseRecord, Decommit, GiveBack,
              FreeReturns, memory, ghosts
<1>10. BeginShutdown \/ UNCHANGED hookVars => UNCHANGED <<vaPtrs, vat>>
  BY DEF BeginShutdown, hookVars, memory, ghosts
<1> QED BY <1>2, <1>3, <1>8, <1>9, <1>10 DEF HookNext

\* A step of a running tool whose threads left the hooks with a clear flag, and
\* whose VAT array tracks every reserve, sends no arena pointer to the real
\* allocator: the guarded branches are closed and every release is recognised.
LEMMA NoStrayStep ==
    ASSUME HookInv, VatHasRoom, [HookNext]_hookVars,
           ~shuttingDown, FlagClearInGame, Cardinality(Slots) <= VatMax
    PROVE  stray' = stray
<1>1. vaPtrs \subseteq vat BY DEF VatHasRoom
<1>2. \A t \in Threads : pc[t] = "game" => ~Guarded(t) BY DEF FlagClearInGame, Guarded
<1>3. ASSUME NEW t \in Threads, NEW p \in vaPtrs, VirtualFree(t, p) \/ NtFreeVirtualMemory(t, p)
      PROVE  stray' = stray
  BY <1>1, <1>2, <1>3 DEF VirtualFree, NtFreeVirtualMemory, VatUntrack
<1>4. ASSUME NEW t \in Threads, NEW p \in heapPtrs,
             \/ RtlFreeHeap(t, p) \/ HeapFree(t, p)
             \/ RtlReAllocateHeap(t, p) \/ HeapReAlloc(t, p)
      PROVE  stray' = stray
  BY <1>2, <1>4 DEF RtlFreeHeap, HeapFree, RtlReAllocateHeap, HeapReAlloc, FreeHeap, ReallocSlot
<1>5. ASSUME NEW t \in Threads, NEW kind, Redirect(t, kind) PROVE stray' = stray
  BY <1>5 DEF Redirect, ghosts
<1>6. ASSUME NEW t \in Threads, HookEntry(t) PROVE stray' = stray
  BY <1>3, <1>4, <1>5, <1>6
  DEF HookEntry, RtlAllocateHeap, HeapAlloc, HeapReAllocMoves, VirtualAlloc,
      NtAllocateVirtualMemory, NtAllocateVirtualMemoryEx
<1>7. ASSUME NEW t \in Threads, HookStep(t) PROVE stray' = stray
  BY <1>7 DEF HookStep, Carve, Commit, Record, VatTrack, RealAllocator, EraseRecord, Decommit,
              GiveBack, FreeReturns, ghosts
<1>8. BeginShutdown \/ UNCHANGED hookVars => stray' = stray
  BY DEF BeginShutdown, hookVars, ghosts
<1> QED BY <1>6, <1>7, <1>8 DEF HookNext

\* No hook passes an arena pointer to the real allocator while the tool runs,
\* unless an Nt export was entered directly or the VAT array is too small.
THEOREM NoStrayWhileRunningAlways ==
    ASSUME ~RealHeapCanFail
    PROVE  HookSpec => NoStrayWhileRunning
<1>1. HookInit => VatHasRoom BY DEF HookInit, VatHasRoom
<1>2. HookInv /\ VatHasRoom /\ [HookNext]_hookVars => VatHasRoom' BY VatHasRoomStep
<1>3. HookInv /\ VatHasRoom /\ [HookNext]_hookVars
        => [~shuttingDown /\ FlagClearInGame /\ Cardinality(Slots) <= VatMax
               => stray' = stray]_hookVars
  BY NoStrayStep
<1> QED BY <1>1, <1>2, <1>3, HookInvariance, PTL DEF HookSpec, NoStrayWhileRunning
===============================================================================
