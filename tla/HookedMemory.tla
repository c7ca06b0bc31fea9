----------------------------- MODULE HookedMemory -----------------------------
(***************************************************************************)
(* The allocation hooks and MemoryManager between the game and the arena.  *)
(* A heap request that is large enough becomes an arena slot with a record *)
(* in m_allocations; a VirtualAlloc or NtAllocateVirtualMemory reserve     *)
(* becomes a slot with an entry in the VAT array.  The free and realloc    *)
(* hooks recognise those slots by address.  Every hook runs on the calling *)
(* game thread, and each of its steps (carve, commit, record, erase,       *)
(* decommit, give back) takes its own lock or none, so threads interleave  *)
(* between them.                                                           *)
(*                                                                         *)
(* The arena is used through ArenaContract: it grants some slot that is    *)
(* not out, or none.  A slot stands for its address.  Requests the hooks   *)
(* do not redirect go to the real allocator and change nothing here.       *)
(* heapPtrs, vaPtrs and stray are ghosts: the pointers the game holds, and *)
(* the arena pointers that reached the real allocator.                     *)
(***************************************************************************)
EXTENDS Naturals, FiniteSets

CONSTANTS Threads,          \* game threads
          Slots,            \* arena slots, by address
          None,             \* no slot
          VatMax,           \* kVatMax
          DirectNt,         \* some caller enters the Nt* exports directly
          RealHeapCanFail   \* the real heap may return null to a realloc

ASSUME HookAssumption ==
    /\ IsFiniteSet(Slots) /\ None \notin Slots
    /\ VatMax \in Nat
    /\ DirectNt \in BOOLEAN
    /\ RealHeapCanFail \in BOOLEAN

VARIABLES held,           \* slots ProxyAllocator has granted
          committed,      \* slots whose pages are committed
          records,        \* m_allocations
          vat,            \* s_vatAddr[0 .. s_vatCount - 1]
          inHook,         \* the TLS in-hook flag of each thread
          shuttingDown,   \* s_shuttingDown
          pc, api,        \* where a thread is, and in which kind of call
          new, old,       \* the slot it is taking and the slot it is freeing
          heapPtrs, vaPtrs, stray

memory == <<held, committed, records, vat>>
ghosts == <<heapPtrs, vaPtrs, stray>>
hookVars == <<memory, inHook, shuttingDown, pc, api, new, old, ghosts>>

HookInit ==
    /\ held = {} /\ committed = {} /\ records = {} /\ vat = {}
    /\ inHook = [t \in Threads |-> FALSE]
    /\ shuttingDown = FALSE
    /\ pc = [t \in Threads |-> "game"]
    /\ api = [t \in Threads |-> "none"]
    /\ new = [t \in Threads |-> None]
    /\ old = [t \in Threads |-> None]
    /\ heapPtrs = {} /\ vaPtrs = {} /\ stray = {}

\* The guard at the top of the hooks: a nested call, or one during shutdown,
\* goes straight to the real function.
Guarded(t) == inHook[t] \/ shuttingDown

-----------------------------------------------------------------------------
(* Allocation *)

\* A request the hook redirects; the in-hook flag is set on the way in.
Redirect(t, kind) ==
    /\ pc[t] = "game" /\ ~Guarded(t)
    /\ pc' = [pc EXCEPT ![t] = "carve"]
    /\ api' = [api EXCEPT ![t] = kind]
    /\ inHook' = [inHook EXCEPT ![t] = TRUE]
    /\ UNCHANGED <<memory, shuttingDown, new, old, ghosts>>

RtlAllocateHeap(t) == Redirect(t, "heap")
HeapAlloc(t) == Redirect(t, "heap")
\* A block of the real heap that HeapReAlloc moves into the arena.
HeapReAllocMoves(t) == Redirect(t, "heap")
VirtualAlloc(t) == Redirect(t, "va")
NtAllocateVirtualMemory(t) == DirectNt /\ Redirect(t, "nt")
NtAllocateVirtualMemoryEx(t) == DirectNt /\ Redirect(t, "nt")

\* Back to the game.  The heap and VirtualAlloc hooks clear the flag; the Nt
\* hooks have no SetInHook(false), and the others never set it.
ReturnToGame(t) ==
    /\ pc' = [pc EXCEPT ![t] = "game"]
    /\ api' = [api EXCEPT ![t] = "none"]
    /\ inHook' = IF api[t] \in {"heap", "va"} THEN [inHook EXCEPT ![t] = FALSE] ELSE inHook

\* ProxyAllocator::Allocate, by its contract.
Carve(t) ==
    /\ pc[t] = "carve"
    /\ \/ \E s \in Slots \ held :
            /\ held' = held \cup {s}
            /\ new' = [new EXCEPT ![t] = s]
            /\ pc' = [pc EXCEPT ![t] = "commit"]
       \/ /\ pc' = [pc EXCEPT ![t] = "real"]
          /\ UNCHANGED <<held, new>>
    /\ UNCHANGED <<committed, records, vat, inHook, shuttingDown, api, old, ghosts>>

\* Mutant: the slot is kept when its commit fails.
CommitLeaks(t) ==
    /\ pc[t] = "commit"
    /\ \/ /\ committed' = committed \cup {new[t]}
          /\ pc' = [pc EXCEPT ![t] = "publish"]
          /\ UNCHANGED new
       \/ /\ new' = [new EXCEPT ![t] = None]
          /\ pc' = [pc EXCEPT ![t] = "real"]
          /\ UNCHANGED committed
    /\ UNCHANGED <<held, records, vat, inHook, shuttingDown, api, old, ghosts>>

\* Mutant: a slot whose commit failed is freed and returned all the same.
CommitFallsThrough(t) ==
    /\ pc[t] = "commit"
    /\ \/ committed' = committed \cup {new[t]} /\ UNCHANGED held
       \/ held' = held \ {new[t]} /\ UNCHANGED committed
    /\ pc' = [pc EXCEPT ![t] = "publish"]
    /\ UNCHANGED <<records, vat, inHook, shuttingDown, api, new, old, ghosts>>

\* The eager commit of the slot, which is freed again when it fails.
Commit(t) ==
    /\ pc[t] = "commit"
    /\ \/ /\ committed' = committed \cup {new[t]}
          /\ pc' = [pc EXCEPT ![t] = "publish"]
          /\ UNCHANGED <<held, new>>
       \/ /\ held' = held \ {new[t]}
          /\ new' = [new EXCEPT ![t] = None]
          /\ pc' = [pc EXCEPT ![t] = "real"]
          /\ UNCHANGED committed
    /\ UNCHANGED <<records, vat, inHook, shuttingDown, api, old, ghosts>>

\* The record of CreateProxyAllocation; the hook then returns the slot, or
\* goes on to free the block it replaces.
Record(t) ==
    /\ pc[t] = "publish" /\ api[t] \in {"heap", "realloc"}
    /\ records' = records \cup {new[t]}
    /\ IF api[t] = "heap"
       THEN /\ heapPtrs' = heapPtrs \cup {new[t]}
            /\ new' = [new EXCEPT ![t] = None]
            /\ ReturnToGame(t)
       ELSE /\ pc' = [pc EXCEPT ![t] = "erase"]
            /\ UNCHANGED <<heapPtrs, new, api, inHook>>
    /\ UNCHANGED <<held, committed, vat, shuttingDown, old, vaPtrs, stray>>

\* Mutant: the last entry of the array is never used.
VatTrackOneShort(t) ==
    /\ pc[t] = "publish" /\ api[t] \in {"va", "nt"}
    /\ vat' = IF Cardinality(vat) + 1 < VatMax THEN vat \cup {new[t]} ELSE vat
    /\ vaPtrs' = vaPtrs \cup {new[t]}
    /\ new' = [new EXCEPT ![t] = None]
    /\ ReturnToGame(t)
    /\ UNCHANGED <<held, committed, records, shuttingDown, old, heapPtrs, stray>>

\* VatTrack: a full array drops the entry, the slot is returned all the same.
VatTrack(t) ==
    /\ pc[t] = "publish" /\ api[t] \in {"va", "nt"}
    /\ vat' = IF Cardinality(vat) < VatMax THEN vat \cup {new[t]} ELSE vat
    /\ vaPtrs' = vaPtrs \cup {new[t]}
    /\ new' = [new EXCEPT ![t] = None]
    /\ ReturnToGame(t)
    /\ UNCHANGED <<held, committed, records, shuttingDown, old, heapPtrs, stray>>

\* No slot: the real allocator serves the request.  A realloc then frees the
\* old block, whether or not the real heap had memory for the new one.
RealAllocator(t) ==
    /\ pc[t] = "real"
    /\ \/ api[t] # "realloc" /\ ReturnToGame(t)
       \/ /\ api[t] = "realloc"
          /\ pc' = [pc EXCEPT ![t] = "erase"]
          /\ api' \in {api} \cup (IF RealHeapCanFail
                                  THEN {[api EXCEPT ![t] = "refused"]} ELSE {})
          /\ UNCHANGED inHook
    /\ UNCHANGED <<memory, shuttingDown, new, old, ghosts>>

-----------------------------------------------------------------------------
(* Free *)

\* RtlFreeHeap and HeapFree recognise the slot before any guard.
FreeHeap(t, p) ==
    /\ pc[t] = "game" /\ p \in heapPtrs
    /\ heapPtrs' = heapPtrs \ {p}
    /\ old' = [old EXCEPT ![t] = p]
    /\ pc' = [pc EXCEPT ![t] = "erase"]
    /\ api' = [api EXCEPT ![t] = "free"]
    /\ UNCHANGED <<memory, inHook, shuttingDown, new, vaPtrs, stray>>

RtlFreeHeap(t, p) == FreeHeap(t, p)
HeapFree(t, p) == FreeHeap(t, p)

\* VatUntrack decides: a tracked slot is decommitted and given back, any other
\* address is left to the real function, which cannot release a part of the
\* arena.
VatUntrack(t, p) ==
    /\ vaPtrs' = vaPtrs \ {p}
    /\ IF p \in vat
       THEN /\ vat' = vat \ {p}
            /\ old' = [old EXCEPT ![t] = p]
            /\ pc' = [pc EXCEPT ![t] = "decommit"]
            /\ api' = [api EXCEPT ![t] = "free"]
            /\ UNCHANGED stray
       ELSE /\ stray' = stray \cup {p}
            /\ UNCHANGED <<vat, old, pc, api>>
    /\ UNCHANGED <<held, committed, records, shuttingDown, new, heapPtrs>>

VirtualFree(t, p) ==
    /\ pc[t] = "game" /\ p \in vaPtrs
    /\ VatUntrack(t, p)
    /\ UNCHANGED inHook

\* The guard comes first here, and the flag it sets is not cleared.
NtFreeVirtualMemory(t, p) ==
    /\ DirectNt /\ pc[t] = "game" /\ p \in vaPtrs
    /\ \/ /\ Guarded(t)
          /\ vaPtrs' = vaPtrs \ {p}
          /\ stray' = stray \cup {p}
          /\ UNCHANGED <<memory, inHook, shuttingDown, pc, api, new, old, heapPtrs>>
       \/ /\ ~Guarded(t)
          /\ inHook' = [inHook EXCEPT ![t] = TRUE]
          /\ VatUntrack(t, p)

\* Mutant: the slot goes back to the arena before its pages are decommitted.
EraseGivesBack(t) ==
    /\ pc[t] = "erase"
    /\ records' = records \ {old[t]}
    /\ held' = held \ {old[t]}
    /\ pc' = [pc EXCEPT ![t] = IF old[t] \in records THEN "decommit" ELSE "done"]
    /\ UNCHANGED <<committed, vat, inHook, shuttingDown, api, new, old, ghosts>>

\* Mutant: the pages stay committed.
DecommitSkipped(t) ==
    /\ pc[t] = "decommit"
    /\ pc' = [pc EXCEPT ![t] = "giveback"]
    /\ UNCHANGED <<memory, inHook, shuttingDown, api, new, old, ghosts>>

\* FreeProxyAllocation: the record first, then the pages, then the slot.
EraseRecord(t) ==
    /\ pc[t] = "erase"
    /\ records' = records \ {old[t]}
    /\ pc' = [pc EXCEPT ![t] = IF old[t] \in records THEN "decommit" ELSE "done"]
    /\ UNCHANGED <<held, committed, vat, inHook, shuttingDown, api, new, old, ghosts>>

Decommit(t) ==
    /\ pc[t] = "decommit"
    /\ committed' = committed \ {old[t]}
    /\ pc' = [pc EXCEPT ![t] = "giveback"]
    /\ UNCHANGED <<held, records, vat, inHook, shuttingDown, api, new, old, ghosts>>

GiveBack(t) ==
    /\ pc[t] = "giveback"
    /\ held' = held \ {old[t]}
    /\ pc' = [pc EXCEPT ![t] = "done"]
    /\ UNCHANGED <<committed, records, vat, inHook, shuttingDown, api, new, old, ghosts>>

\* The call returns: a realloc's new slot is the game's, and a realloc that
\* returns null leaves the game with the pointer it passed.
FreeReturns(t) ==
    /\ pc[t] = "done"
    /\ heapPtrs' = heapPtrs \cup ({new[t]} \ {None})
                            \cup (IF api[t] = "refused" THEN {old[t]} ELSE {})
    /\ new' = [new EXCEPT ![t] = None]
    /\ old' = [old EXCEPT ![t] = None]
    /\ ReturnToGame(t)
    /\ UNCHANGED <<memory, shuttingDown, vaPtrs, stray>>

-----------------------------------------------------------------------------
(* Realloc of an arena block *)

\* A new slot when the size still qualifies, otherwise the real heap.
ReallocSlot(t, p) ==
    /\ heapPtrs' = heapPtrs \ {p}
    /\ old' = [old EXCEPT ![t] = p]
    /\ api' = [api EXCEPT ![t] = "realloc"]
    /\ \/ ~shuttingDown /\ pc' = [pc EXCEPT ![t] = "carve"]
       \/ pc' = [pc EXCEPT ![t] = "real"]
    /\ UNCHANGED <<memory, inHook, shuttingDown, new, vaPtrs, stray>>

\* The re-entrancy guard comes first: the real heap gets the arena pointer.
RtlReAllocateHeap(t, p) ==
    /\ pc[t] = "game" /\ p \in heapPtrs
    /\ \/ ~Guarded(t) /\ ReallocSlot(t, p)
       \/ /\ Guarded(t)
          /\ heapPtrs' = heapPtrs \ {p}
          /\ stray' = stray \cup {p}
          /\ UNCHANGED <<memory, inHook, shuttingDown, pc, api, new, old, vaPtrs>>

HeapReAlloc(t, p) == pc[t] = "game" /\ p \in heapPtrs /\ ReallocSlot(t, p)

-----------------------------------------------------------------------------
BeginShutdown ==
    /\ ~shuttingDown /\ shuttingDown' = TRUE
    /\ UNCHANGED <<memory, inHook, pc, api, new, old, ghosts>>

HookEntry(t) ==
    \/ RtlAllocateHeap(t) \/ HeapAlloc(t) \/ HeapReAllocMoves(t) \/ VirtualAlloc(t)
    \/ NtAllocateVirtualMemory(t) \/ NtAllocateVirtualMemoryEx(t)
    \/ \E p \in heapPtrs : RtlFreeHeap(t, p) \/ HeapFree(t, p)
                           \/ RtlReAllocateHeap(t, p) \/ HeapReAlloc(t, p)
    \/ \E p \in vaPtrs : VirtualFree(t, p) \/ NtFreeVirtualMemory(t, p)

HookStep(t) ==
    \/ Carve(t) \/ Commit(t) \/ Record(t) \/ VatTrack(t) \/ RealAllocator(t)
    \/ EraseRecord(t) \/ Decommit(t) \/ GiveBack(t) \/ FreeReturns(t)

HookNext == BeginShutdown \/ \E t \in Threads : HookEntry(t) \/ HookStep(t)

HookSpec == HookInit /\ [][HookNext]_hookVars

-----------------------------------------------------------------------------
(* Properties *)

\* The slots a thread inside a hook is responsible for.
Hand(t) == ({new[t]} \cup (IF pc[t] = "done" THEN {} ELSE {old[t]})) \ {None}
GamePtrs == heapPtrs \cup vaPtrs

\* The slot sets, the flags and the calls of MemoryManager and the hooks have
\* their types.
HookTypeOK ==
    /\ held \subseteq Slots /\ committed \subseteq Slots
    /\ records \subseteq Slots /\ vat \subseteq Slots
    /\ heapPtrs \subseteq Slots /\ vaPtrs \subseteq Slots /\ stray \subseteq Slots
    /\ inHook \in [Threads -> BOOLEAN] /\ shuttingDown \in BOOLEAN
    /\ pc \in [Threads -> {"game", "carve", "commit", "publish", "real",
                           "erase", "decommit", "giveback", "done"}]
    /\ api \in [Threads -> {"none", "heap", "va", "nt", "realloc", "refused", "free"}]
    /\ new \in [Threads -> Slots \cup {None}]
    /\ old \in [Threads -> Slots \cup {None}]

\* Every arena pointer the game holds is a granted slot with its pages
\* committed: no other thread's free, failed commit or reuse of a slot takes
\* the memory away under it.
HeldIsUsable == GamePtrs \subseteq held \cap committed

\* A slot has one owner: the game through one of the two interfaces, or one
\* thread inside a hook, never two of them.
OneOwner ==
    /\ heapPtrs \cap vaPtrs = {}
    /\ \A t \in Threads : /\ Hand(t) \cap GamePtrs = {}
                          /\ pc[t] # "done" /\ new[t] # None => new[t] # old[t]
    /\ \A t, u \in Threads : t # u => Hand(t) \cap Hand(u) = {}

\* A slot the arena may grant again is clean: decommitted, as the comment in
\* FreeProxyAllocation promises, and without a record or VAT entry that would
\* let a later free take the next owner's memory.
FreeSlotsClean == committed \cup records \cup vat \subseteq held

\* No slot leaks: what the arena has granted is held by the game, is in the
\* hands of a hook, or went astray to the real allocator.
SlotsAccounted ==
    \A s \in held \ (GamePtrs \cup stray) : \E t \in Threads : s \in Hand(t)

\* A thread that is not inside a hook has its in-hook flag clear: RtlHookScope
\* is described as the guard that sets and clears it.
FlagClearInGame == \A t \in Threads : pc[t] = "game" => ~inHook[t]

\* The hooks never pass an arena pointer to the real allocator while the tool
\* runs, unless a direct call of an Nt export has left a thread's flag set; the
\* VAT array has room for every slot.
NoStrayWhileRunning ==
    [][~shuttingDown /\ FlagClearInGame /\ Cardinality(Slots) <= VatMax
           => stray' = stray]_hookVars

\* When RtlReAllocateHeap or HeapReAlloc returns null for an arena block, the
\* original block is left intact, as a failed realloc is described.
FailedReallocKeepsBlock ==
    \A t \in Threads :
        pc[t] = "done" /\ api[t] = "refused" => old[t] \in held \cap committed
-----------------------------------------------------------------------------
(* The inductive invariant behind these properties *)

\* What a thread inside a call knows of the slot it takes and the slot it frees.
CallOK(t) ==
    /\ api[t] # "refused"
    /\ pc[t] = "game" => new[t] = None /\ old[t] = None
    /\ pc[t] \in {"carve", "real"} => new[t] = None
    /\ pc[t] \in {"commit", "publish"} => new[t] \in held \ (records \cup vat)
    /\ pc[t] = "commit" => new[t] \notin committed
    /\ pc[t] = "publish" => new[t] \in committed
    /\ pc[t] \in {"carve", "real", "commit", "publish"} =>
          \/ api[t] \in {"heap", "va", "nt"} /\ old[t] = None
          \/ api[t] = "realloc" /\ old[t] \in held \cap committed \cap records
    /\ pc[t] = "erase" => old[t] \in held \cap committed \cap records
    /\ pc[t] \in {"decommit", "giveback"} => old[t] \in held \ (records \cup vat)
    /\ pc[t] = "giveback" => old[t] \notin committed
    /\ pc[t] \in {"erase", "decommit", "giveback", "done"} =>
          new[t] = None \/ new[t] \in held \cap committed \cap records

\* The two interfaces keep to their own bookkeeping, and a slot that went
\* astray is out of the game's and the hooks' reach.
LedgersApart ==
    /\ heapPtrs \subseteq records
    /\ vat \subseteq vaPtrs \cup stray
    /\ vaPtrs \cap records = {}
    /\ stray \subseteq held
    /\ stray \cap GamePtrs = {}
    /\ \A t \in Threads : Hand(t) \cap stray = {}

HookInv ==
    /\ HookTypeOK /\ HeldIsUsable /\ OneOwner /\ FreeSlotsClean /\ SlotsAccounted
    /\ LedgersApart
    /\ \A t \in Threads : CallOK(t)

\* When the VAT array has an entry for every slot, it tracks every reserve the
\* game holds: an entry is dropped only by the release that takes the pointer.
VatHasRoom == Cardinality(Slots) <= VatMax => vaPtrs \subseteq vat
=============================================================================
