# TLA+ models of TS3VASManager

TS3VASManager is a DLL injected into a 32-bit game. It reserves one large range
of address space (the *arena*), redirects the game's large heap and virtual
memory requests into it through Detours hooks, and reports on the address space
from a heartbeat thread. The game's threads run the hooks concurrently; every
mistake in slot ownership is memory corruption in the game. This directory holds
the models of that core, the TLC configurations that check them and the TLAPS
proofs about them.

## Inventory

| Component | State | Operations | Talks to | What makes it correct |
|---|---|---|---|---|
| Proxy arena allocator (`ProxyAllocator`) | arena range, sorted free list, one LIFO reuse cache per slot size, node pool, counters; one lock `m_cs` | Initialize / InitFromShared, Allocate, Free, GetStats, Shutdown | called by MemoryManager and directly by the VirtualAlloc / Nt hooks | no byte has two owners; no range leaks; a refusal means there is no hole; statistics add up |
| Memory manager, arena part (`MemoryManager`) | `m_allocations`: slot -> record, lock `m_mapCS` | CreateProxyAllocation, FreeProxyAllocation, FindRecordByAddress | called by the heap hooks; carves from the arena, commits pages | a slot handed out is granted, committed and recorded; a slot given back is clean |
| Memory manager, script corral | up to 64 segments, each with a `ProxyAllocator` of its own; used and peak bytes; lock `m_corralCS` | InitScriptArena, AddCorralSegment, CorralReserve, CorralFree, IsCorralAddress, ReportCorralUsage, GetCorralUsedBytes | called by the VirtualAlloc / VirtualFree hooks and the heartbeat | a reserve stays backed until its release; a release reaches the segment that owns it; the address test without the lock is safe during growth |
| Allocation hooks (`WorkingHooks`) | VAT array and lock, per-thread in-hook flag, `s_shuttingDown`, `s_proxyActive` | the hooked heap, Virtual* and Nt* entry points, BeginShutdown, ActivateProxy | run on game threads; use MemoryManager and ProxyAllocator | an arena pointer never reaches the real allocator; a nested call never redirects |
| Heap shards ("sardine packing") | up to 8 private heaps with their address ranges, round-robin counter, table of 16 executable heaps; no lock | ProxyHeapInit, ProxyHeapAlloc / Free / ReAlloc, ProxyHeapNoteExecHeap | called by the heap hooks; the arena gives the slots | the address alone leads to the shard that owns a block; a failed start-up step leaks no slot; every shard is tried before the request is given up; code heaps are left alone |
| Hook installation (`WorkingHooks::Install / Uninstall`, `HookManager`) and DLL life cycle (`Main`) | installed flag, component singletons, locks and tables of Install, attached hooks | DllMain, StartPatch, StopPatch, Install, Uninstall | all components | nothing is torn down under its users except by an unload; what a teardown leaves has no user |
| Script scan de-duplication (`ScriptScanDedup`) and its callers | table of 16,384 keys, no lock | MarkOnce; ProbeScriptAssembly; ScanPackageForScript | map-view hooks and ReadFile hook, on any thread | each package with scripts is counted once, and by someone |
| Map-view type tracker | list of at most 64 files, table of resource types, lock `m_cs` | RecordView, RecordFileName, reports | Nt map-view hook | a file is listed once although the list is searched without the lock |
| Heartbeat monitor | session phase, milestones, previous snapshot, stop event | Start, Stop, one beat | reads everything, activates the proxy, asks for GC | the phase follows the session; Stop ends the thread before its state goes |
| GC companion (`ProxyGc`, `TS3VASMonoGc.cs`) | named auto-reset event, time stamps on both sides | request, wait, collect | heartbeat -> event -> managed thread | a request is served; collections keep their distance |
| Stack walker | queue of at most 50 captures, semaphore, worker | Capture, worker loop, destructor | hooks -> worker | a capture is processed or counted as dropped |
| Launcher (`TS3Launcher`) | the game's process, a buffer and a thread in it | DIRECT: create the game with the DLL; MONITOR: wait for it and inject | game process, Windows' loader | it always ends; its exit code says what happened; the loader finds its path and nothing is left behind |
| Logger and exception handler | the log file's handle, lock `m_logCS` | Log, LogNamed, Shutdown, UnhandledFilter | everything | an error that is logged reaches the file, and so does the crash dump |
| Analytics, Hitch detector, VAS monitor, ETW, traces, containment lanes, the other observer hooks | counters, rings | logging | everything | output only |

The hard behaviours are interleavings of game threads inside hooks (each hook is
a chain of short critical sections, with none around the whole), failures in the
middle of such a chain (commit fails, arena full, node pool empty, VAT array
full), shutdown at any point, and lock-free tables.

## Modules

| Module | Models | Checked by | Proved in |
|---|---|---|---|
| `ArenaContract` | what the arena promises its users | as a property of `ProxyArena` | implemented by `ProxyArena` (`ProxyArenaProofs`) and by `Corral` (`CorralProofs`) |
| `ProxyArena` | `ProxyAllocator` | `arena_core` | `ProxyArenaProofs` |
| `HookedMemory` | the heap, VirtualAlloc and Nt hooks with `MemoryManager`'s arena records | `hook_core`, `hook_flag`, `hook_realloc` | `HookedMemoryProofs` |
| `Corral` | `MemoryManager`'s script corral and the hooks that use it | `corral_core` | `CorralProofs` |
| `HeapShards` | the private heaps for requests below 64 KB | `shards_core` | `HeapShardsProofs` |
| `SardineGate` | which callers are kept out of the shards | `gate_audio` | `HeapShardsProofs` |
| `ScriptScanDedup` | `ScriptScanDedup::MarkOnce` | `scan_core` | `PackageScanProofs` |
| `MapViewTracker` | the list of mapped files of `MapViewTypeTracker` | `scan_core` | `PackageScanProofs` |
| `PackageScan` | the ReadFile and map-view hooks; composes the two above | `scan_core` | `PackageScanProofs` |
| `Heartbeat` | the heartbeat thread, its phase machine, Start and Stop | `heartbeat_core` | `HeartbeatProofs` |
| `CompanionGc` | `ProxyGc` and the managed companion `TS3VASMonoGc.cs` | `companion_core` | `HeartbeatProofs` |
| `StackWalker`, `Lifecycle` | the capture queue; `DllMain`, `StartPatch`, `StopPatch`, Install / Uninstall (`Lifecycle` composes the two) | `session_core` | `SessionProofs` |
| `Launcher` | `TS3Launcher` | `session_core` | `SessionProofs` |
| `Session` | composes `Launcher` and `Lifecycle` | `session_core` | `SessionProofs` |
| `Logger` | the main log and the crash filter that ends it | `logger_lost` | |

`FiniteSums` holds the lemmas about sums that the proofs of `ProxyArena` and `Corral`
share. The `MC` modules only add symmetry sets and constant values. Operators whose
comment starts with "Mutant" are plausible mistakes in the definition that
follows them; nothing else refers to them.

### ProxyArena

State: `free` is the list `m_freeListHead` as the set of its blocks (the list is
sorted by address, so first and last are the least and greatest address),
`classSizes` and the cache variable are `m_sizeClasses`, plus the node pool and
the counters of `GetStats`. Everything under `m_cs` that a caller cannot
observe in between is one action; `Allocate` is split into the steps it takes
with the lock held (reuse, carve, drain one cached block, carve again, refuse)
and `Free` at its unlocked test `IsProxyAddress`, where `Shutdown` can run.
Ghosts: `live`, the slots callers hold, and `lost`, ranges dropped because no
list node was left. Left out: the trace marks and the per-band loss meter.

`ArenaContract` says only that a grant is inside the arena and apart from every
other grant, and that slots leave it by being returned or by the arena closing.
`HookedMemory` and `Corral` use their arenas through that contract.

### ScriptScanDedup

A probe is two steps: the atomic read of a slot and, when it was empty, the
compare-exchange. The slot may change in between. A key is the hash of a file
name; the key 0, equal to the empty marker, is remapped as in the code.

### PackageScan and MapViewTracker

A package reaches the DLL by ReadFile or by a view of it. `Hooked_ReadFile` marks
every package first and then opens the file itself (`ScanPackageForScript`, which
may fail); `ProbeScriptAssembly` looks at the view first and marks only what
shows a script. Both use the table of `ScriptScanDedup`, whose steps are the
steps of the hook while it is at `"mark"`. A package has two keys, one from the
ANSI and one from the wide form of its base name, which differ when the name is
not ASCII. The Nt hook goes on to `RecordView`, and leaves the in-hook flag set
(see `hook_flag`).

`MapViewTracker` keeps what `RecordFileName` does: the search without `m_cs`, the
second search and the append under it, the count that goes up before the name is
there, the cut of names that do not fit. A slot's counters are left out. Each
search is one step: entries never change once their name is written, so a search
that is spread out finds no more than one made at its end.

### HookedMemory

One action per step of a hook that takes a lock of its own or none: carve,
commit (which may fail), record, erase, decommit, give back. A thread's call is
`pc`, `api`, `new`, `old`; `inHook` is its TLS flag; `vat` is the VAT array with
its limit. A slot stands for its address. Whether a request is large enough to
be redirected, and the caps and pressure signals that decide it, are left open:
every request may be redirected or not. Ghosts: the pointers the game holds, and
`stray`, arena pointers that reached the real allocator. `DirectNt` adds callers
that enter the Nt exports directly; `RealHeapCanFail` lets the real heap refuse a
realloc.

### Corral

`CorralReserve` holds `m_corralCS` throughout, but growth publishes a segment in
several writes, `CorralFree` decommits and gives the slot back after it has
unlocked, and `IsCorralAddress` walks the table with no lock: those are separate
actions. Size arithmetic is modulo `Width`. The reuse caches of a zone's own
allocator are nondeterminism in what it refuses.

`MaxBlocks` bounds the blocks the game has from the OS at a time. What the report
prints is left out.

### HeapShards

`ProxyHeapInit` is one action per step that can fail: carve, commit, create the
heap over the slot, fall back to a heap of its own, or have no shard in this
iteration. The hooks then run on any thread without a lock: an allocation takes
the counter and tries one shard per step, free and realloc find the shard by
address. Noting an executable heap is three steps (read the count, write the
entry, write the count). `HeapCreate` notes nothing: its hook sets the in-hook
flag, and the nested `RtlCreateHeap` hook passes through. The counter is a signed
LONG; after it wraps, the index is negative in C, and the model lets the read below
`s_proxyHeaps` skip a shard or fault (`faulted`). The real heap is external: an
operation of it is atomic, and it refuses only when the shard is full. The size of a
request is left open, and so is which callers are excluded: that is `SardineGate`. Ghosts: `blocks`,
`stray`, `tried`, `unnoted`.

### SardineGate

A heap is entered in `s_heapUse` with the module of the first caller seen on it, a
caller's module in `s_callerMods`; both tables are searched without a lock,
extended under one, and full at some point. A request passes the test of its heap,
then the graphics test of its own caller and, in `Hooked_RtlAllocateHeap` only, the
audio test. Ghost: `inShards`, the modules whose requests the shards took.

### Heartbeat

Time is counted in ticks (seconds in the configuration). A sleep, a beat and the
owner's wait each have a deadline that `Tick` does not pass. A beat finds a free
amount (`Levels`, MB) and some new package mapping or none, and runs the phase
machine of `HeartbeatThreadFunc`: PostInject, MainMenuStable, WorldLoadDetected,
PostWorldStable, WorldExitDetected. A phase change takes a second sample. Ghosts:
`inPhase`, `inWorld`. Left out: region scans, rates, milestones and reports,
which only feed the log.

### CompanionGc

Either side may create the event and the shared block, or fail to, or not exist
at all. The heap size is 64 bits in a 32-bit process: two stores in either order,
read at once. `sinceSet` is a ghost.

### StackWalker and Lifecycle

`StartPatch` is one action per phase, with the failure of each phase and an
exception in it; `StopPatch` is one action per teardown step and runs after a
failure, on an unload, and not at all when the process ends, which takes the other
threads with it. `live` holds the objects that exist: the singletons, and what
`WorkingHooks::Install` creates and `Uninstall` deletes (`HookObjects`: the TLS index,
`MapViewTypeTracker`, `s_vatCS`, `s_diagCS`). `s_heapUseCS` and `s_rfCS` are never
deleted (`KeptObjects`). `Install` can fail at three points with different objects
behind it; as `m_hooksInstalled` is not set then, `HookManager` never calls
`Uninstall`. `observing` is what `ObserverHooks` has in the code of the process. Each
detach is a transaction that may fail without anybody looking, for the allocation
hooks (`attached`) and for the observers, while `s_memManager` and `Real_Present`
(`memPtr`, `realPresent`) are cleared either way.

Three kinds of thread run against this. Game threads capture stacks from
`Hooked_Present`, or are past the guard of an allocation hook, of `Hooked_Present` or
of a hook that only counts; the members of `HookUsers` are followed into the last
three. The worker drains the queue, and the destructor's wait for it may time out. The
heartbeat dumps the unfreed reserves at the end of a world: it tests `s_diagCSInit`
and then enters `s_diagCS`. A thread that goes on to something deleted is "astray":
nothing in the code waits for it. `StrandedOnlyByUnload` says that only an unload can
do this, never a start-up that fails or the end of the process. `UsersOutlived` says
what each user finds while it runs, and `StopLeavesNoUser` that nothing leads to what
a finished `StopPatch` leaves behind. Outside `live` are the proxy heaps (in
`HeapShards`), which nothing destroys, and the game's own blocks in the arena, which an
unload takes from under it.

### Launcher and Session

One action per call of `main` and `InjectDLL` that can fail or that the game can
race with; the game may end before any of them. Windows' loader is external: the
remote thread reads the path some time after it was started, then maps the DLL or
refuses. `WaitForSingleObject` returns with the thread or after ten seconds, so it
may return at any time. The number of polls is a local of `WaitForProcess`. `Session` joins the loader's last step to `DllMain`
(`DllLoaded`) and the end of the game to the end of the DLL (`GameOver`).

### Logger

A message is its writer and a number. `Log` is split where it holds no lock: the
test of `m_hFile`, the creation of the file, the store of the handle, the write. A
creation fails while another handle of the file is open, which the sharing mode
`FILE_SHARE_READ` means. The crash filter logs, and then shuts the logger down
while other threads may be inside `Log`.

## Runs

| Run | Question | Bounds, and why they are enough |
|---|---|---|
| `arena_core` | slots, nodes, bytes and counters after any order of allocations, frees and Shutdown; refinement of the contract; `m_cs` is given back | five allocations of three sizes (two of one class, both carve directions) in an arena of five granules, two caches, three list nodes, so the cache limit, the class limit and the empty node pool all happen |
| `hook_core` | ownership of slots through hooks, direct Nt callers, failed commits, shutdown | three threads, three slots, a VAT array that holds them all; the theorems cover the full array |
| `corral_core` | growth, release and report against each other | two threads and the heartbeat, five granules; a first zone of one and a second of two reach the cap of three while the OS still has room for a third, and the game has a block of the OS's as well |
| `shards_core` | start-up with every step failing, then allocation, realloc and free by address while code heaps are created | two threads, two shards of two blocks (one slot in the arena, one place outside it), two executable heaps and a table of one, a counter that wraps after 3 |
| `scan_core` | is every package with scripts counted once, whichever hooks meet it, and every file listed once | two threads; three packages: one with an ASCII name, one whose two keys differ (one is 0) and whose name is too long, one without scripts that shares the first one's name; a probe window of two in a table of three and two marks of a thread, so that windows fill up; a list of two files |
| `heartbeat_core` | stop at any moment; several worlds in a session | the code's own times in seconds (2, 5, 6 and 45); the switch to long sleeps after 4 beats instead of 150; a beat of up to 5 s |
| `companion_core` | cadence, lost requests, torn reads | intervals and waits scaled to 6, 3, 2 and 4 ticks, keeping their order |
| `session_core` | the launcher in either mode with every call failing and the game ending at any time; start-up failure anywhere, unload or exit at any time | two polls for the game; two callers, each of which may capture again and again, against a queue of two, so that the queue overflows; one of them also enters the other hooks (`HookUsers`), the theorems have any number |
| `hook_flag`, `hook_realloc`, `gate_audio`, `logger_lost` | expected violations, see Findings | the smallest instances that show them: one thread and one slot; two threads with three modules, a heap table of one and a module table of two; two writers of two messages |

Deadlock is not checked where the bounded requests run out or the process has
ended: there the system may stop.

Whether the code's own node pool can run empty is a matter of arithmetic once
`NodesAccounted` holds: nodes are in use for free blocks, which are never adjacent
(`FreeListCoalesced`), and for cached blocks, of which there is a bounded number. With
pages of 4 KB and a pool of 1 MB a badly fragmented arena can exhaust it, so the model
has a pool that is too small, and ranges that are dropped (`lost`).

### Fairness

Safety runs use none. The liveness properties assume weak fairness of

- a thread inside `Allocate` (`ArenaFairSpec`), which is straight-line code on a
  thread that Windows schedules;
- the companion's steps (`CompanionSpec`): its loop blocks only on the event,
  with a timeout, and a collection ends;
- the launcher, the stack worker and each caller inside a capture or a hook
  (`SessionSpec`): all of the launcher's waits have a limit (the polls for the
  game are bounded, the wait for the loader takes ten seconds).

No fairness is given to the game (it need never allocate, free, or load a world),
to its loader, to the heartbeat's decisions or to the start-up.

## Findings

- `hook_flag` / `FlagClearInGame`: the three Nt hooks set the in-hook flag and
  return without clearing it. `RtlHookScope`, described as the guard that
  "sets/clears the TLS in-hook flag" (`WorkingHooks.cpp:1571`), clears another
  flag. After one direct call the thread's later allocations pass through.
- `hook_realloc` / `FailedReallocKeepsBlock`: when neither the arena nor the real
  heap can serve a realloc of an arena block, the block is freed and null is
  returned, although a null return is said to leave the "original block left
  intact" (`WorkingHooks.cpp:2147`).
- `gate_audio` / `AudioHandsOff`: `Hooked_HeapAlloc` (3127) lacks the test of the
  caller's module for audio that `Hooked_RtlAllocateHeap` makes (1989), although
  audio "is kept fully hands-off" (`WorkingHooks.cpp:214`). An audio module on a
  heap that other code used first gets blocks of a shard.
- `logger_lost` / `CrashLogKept`: `Log` creates the file outside `m_logCS`, although
  "the first ERROR lazily creates the xcpt file" (`Logger.cpp:189`). Of two threads
  that log their first error at once, the second fails to create the file and stores
  its invalid handle over the open one: later errors, the crash dump included, are
  not written.

Reachable in `PackageScan`, `Launcher`, `Lifecycle` and `SardineGate`, and excused by
the properties in so many words:

- a package whose side-scan fails stays marked and is never counted, and so is one
  whose base name another package without scripts has (`CountedInTheEnd`);
- a package with a name that is not ASCII has two keys and may be counted twice
  (`CountedOnce`);
- a file name of 80 characters or more is listed again with every view, although the
  "insertion deduplicate guard" is said to prevent it (`MapViewTypeTracker.cpp:363`),
  until the list is full (`FileListedOnce`);
- a loader that takes more than ten seconds is taken for a success, because its exit
  code STILL_ACTIVE is not null, and its path is freed under it
  (`ExitCodeTellsTruth`, `PathBufferHandled`);
- captures and hooks under way during an unload reach deleted critical sections
  (`StrandedOnlyByUnload`); nothing in the program unloads the DLL;
- an unload deletes `s_diagCS` with the hooks (`WorkingHooks.cpp:4157`, from
  `Main.cpp:228`) and joins the heartbeat only afterwards (`Main.cpp:230`), so a
  heartbeat between the test and the use in `DumpUnfreedAssets`
  (`WorkingHooks.cpp:3760`) enters a deleted critical section (`StrandedOnlyByUnload`,
  and an exception in `UsersOutlived`);
- a failed `WorkingHooks::Install` leaves the TLS index, `MapViewTypeTracker`,
  `s_vatCS` and `s_diagCS` for the rest of the process, and `s_memManager` dangling:
  `HookManager.cpp:48` returns before `Uninstall`. No hook is attached, so nobody
  reaches them (`StopLeavesNoUser`);
- a detach that fails during an unload leaves its hook in the code of the process: an
  allocation hook passes through, and so do the counting ones, but `Hooked_Present`
  and `Hooked_SetRenderTarget` refuse each call with D3DERR_INVALIDCALL
  (`ObserverHooks.cpp:169`, 361), because their originals are nulled whatever the
  commit said (`StopLeavesNoUser`);
- a cached module range outlives its module (`WorkingHooks.cpp:259`): the model has
  no unloading of modules.

Reachable in `HeapShards`, and excluded from its properties by their premises: an
executable heap that the table was not told of (created through `HeapCreate`, when
the table is full, or by one of two threads that note a heap at once, since
`ProxyHeapNoteExecHeap` reads and writes the count without a lock) has its small
requests redirected, although "executable heaps are never redirected"
(`WorkingHooks.cpp:1590`); a round-robin counter past 2^31 reads below
`s_proxyHeaps` (`WorkingHooks.cpp:1761`); and the pages of a slot given back
because RtlCreateHeap failed stay committed (`WorkingHooks.cpp:1691`).

Comments the code no longer matches, which no property depends on: the "30-min
floor" at `HeartbeatMonitor.cpp:791` (the intervals are 60 s and 15 s); "Hooks
live from first instruction" at `TS3Launcher.cpp:340` (StartPatch runs on a thread
of its own after DllMain has returned); "Draining queue before exit" at
`StackWalker.cpp:292` (the worker only counts what is left).

## Proofs

All are checked by tlapm with the Z3, Zenon and LS4 back ends, and hold for every
value of the constants that the named ASSUME of the component's module admits.

- **ProxyArena** (`ArenaAssumption`). `NoOverlap` is not inductive alone: a free
  computes the slot size again from the request, so the proof needs that this size
  lies inside the slot that was granted (`SlotsCoverRequests`), that nothing is
  listed, held or searched for without an arena and a slot being freed is still
  held (`PhaseOK`), and a finite free list, so that first fit and last fit exist. `ArenaInv` is the conjunction.
  Proved: `ArenaInvariance`, `ArenaTypeCorrect`, `NoOverlapAlways`, and
  `ArenaRefinement`: every step of the allocator is a step of `ArenaContract` or
  a stutter. Five more invariants are built on it, each in a part of its own:
  `NothingOut` for `ShutdownIsFinalAlways`; `ShapeInv` for
  `FreeListCoalescedAlways`: every listed block is a multiple of the granularity, so a
  carve never leaves less than a granule behind, and a slot is exactly as large as its
  request rounds to; `NodesInv` for `NodesAccountedAlways`: what an insert joins it
  returns, and the cached blocks are counted as the set `CachedAt`; `BytesInv` for
  `FailureJustifiedAlways`: `classCached` is the number of bytes in the caches and every
  other byte of the arena is listed, held or dropped, so that a refusal with empty caches
  has searched all that is free, and a hole large enough lies inside one listed
  block (`HoleFits`), because listed blocks do not touch; `SumInv` for
  `StatsAddUpAlways`: the sizes listed, out, cached and dropped sum up to the arena. For
  the sum of what was dropped it needs that no byte is dropped twice (`LostInv`).
- **FiniteSums** (no assumption). What one element more or less, or the union of two sets
  apart, does to a sum of sizes. The community modules define a sum by a fold that takes
  the elements out in the order of CHOOSE, so each fact is an induction over the number
  of elements. It is carried out on the set of numbers for which the fact fails, which
  has a least element unless it is empty (`Least`): the induction theorems of the library,
  with their operator parameter, are not needed.
- **ScriptScanDedup, PackageScan, MapViewTracker** (`DedupAssumption`,
  `PackageAssumption`, `TrackerAssumption`). A slot is written once, so a slot a
  probe has passed stays passed (`ProbesPassed`); a stored key lies on its probe
  path behind passed slots (`OnProbePath`); hence an empty slot on a thread's path
  means its key is nowhere further along. `ClaimsMatchTable` ties the claims to
  the table, `ReportPending` says that a marked key was reported or a call for it
  is under way. Proved of the table alone: `DedupInvariance`, `DedupTypeCorrect`,
  `KeyStoredOnceAlways`, `ReportedOnceAlways`, `SomeoneReportsAlways`,
  `PressureMeansFullAlways`. The hooks implement that specification
  (`ScanImplementsDedup`), so the claims can be used to count: a package was counted,
  or is being side-scanned, only on behalf of the one call that claimed its key
  (`CountIsClaimed`), and whoever claimed a key counts its package or is about to
  (`NewIsCounted`). Proved of the hooks: `ScanInvariance`, `CountedOnceAlways`,
  `CountedInTheEndAlways`. `FileListedOnceAlways` rests on `BlankIsOwned`: a slot that
  is counted and has no name yet is the last one, and its writer holds the lock.
- **HookedMemory** (`HookAssumption`, and a real heap that serves every realloc:
  `hook_realloc` shows what happens otherwise). The checked invariants are
  inductive together with `LedgersApart` (records and VAT entries name different
  slots) and `CallOK` (what each step of a call may assume about the slot in its
  hand). Proved: `HookInvariance`, `HookTypeCorrect`, `HeldIsUsableAlways`,
  `OneOwnerAlways`, `FreeSlotsCleanAlways`, `SlotsAccountedAlways`. For the action
  property `NoStrayWhileRunning` a second invariant counts: an array with an entry for
  every slot has one left for each new reserve, so it tracks every reserve the game holds
  (`VatHasRoom`). Proved: `NoStrayWhileRunningAlways`.
- **Corral** (`CorralAssumption`). Three invariants, each using the one before.
  `ZoneInv`: a published segment is a reserved zone, and only the holder of
  `m_corralCS` is inside the table. `BlockInv`: every slot lies in a published segment,
  slots do not overlap, and the OS has placed nothing of the game's in a zone.
  `HoldInv`: each block has one holder, a call inside the walk of `IsCorralAddress` still has its
  segment ahead of it, and what the game holds is recorded and backed. Segments only ever appear behind the
  count, which is why the walk without the lock is right. Proved: `CorralInvariance`,
  `SlotIsBackedAlways`, `BlocksAccountedAlways`, `ReleaseReachesOwnerAlways`. For the peak,
  `ApartInv`: no two segments overlap, the one about to be published included, so each
  slot is counted with one segment. `PeakInv`: what a loop has added up and what the
  segments ahead of it hold now (`Todo`) is at least what is in use and at most the
  high-water mark, whatever is given back behind it or ahead of it. Proved:
  `PeakBoundsAlways`. Three results say more than the run's properties do.
  `LockHeldInsideAlways`: a thread owns `m_corralCS` exactly while it is in the locked
  part of `CorralReserve`, so no failed commit and no failed growth leaves the lock
  behind (`LockInv`). `CorralRefinement`: the corral as a whole, with a table of zones
  that grows while slots are out, gives its users what one arena gives: each step is a
  step of `ArenaContract` (a slot carved is a grant; a slot whose commit failed, or that
  is given back after the lock is released, is a return) or a stutter.
  `CorralTypeCorrect`: in particular, the loops over the segments stay inside the table
  (`RestOK`).
- **HeapShards** (`ShardAssumption`). `BuildInv`: the start-up leaves shards over
  different slots and gives back every slot it could not use. `BlocksInv`: the ranges
  are apart, so an address names one shard. `TryInv`: a call has been to the shards
  from its start on, around the ring, which takes the arithmetic of the remainder
  (`Visited`). `NoteInv`: with one creator of code heaps, what it read of the count is
  still the count when it writes. Proved: `CarvesAccountedAlways`,
  `BlockHasOwnerAlways`, `NullMeansFullAlways`, `ExecNotRedirectedAlways`.
- **Launcher, Lifecycle, StackWalker, Session** (`LauncherAssumption`,
  `StackWalkerAssumption`, `LifecycleAssumption`). `LauncherInv` says what each step of `InjectDLL` may assume
  of the buffer and of the loader's thread. `LifecycleInv` orders the start-up and the
  teardown: each user of an object comes after the phases that build it
  (`BuiltInOrder`) and ends, or is in pass-through, before the step of `StopPatch` that
  deletes it (`RemovedInOrder`, `UsersInOrder`), with `s_diagCS` at an unload as the
  exception, and a start-up that failed has let no thread in and no hook in place
  (`UntouchedByFailure`). Proved of `SessionSpec`: `ExitCodeTellsTruthAlways`,
  `PathBufferHandledAlways`, `UsersOutlivedAlways`, `StopLeavesNoUserAlways`,
  `StrandedOnlyByUnloadAlways`.
- **Heartbeat** (`HeartbeatAssumption`, which asks for sleeps and beats shorter
  than Stop's wait). An owner who waits has more time left than a beat under way,
  and a sleeping thread still has its wake-up (`StopInv`); the entry snapshot
  belongs to this stay in the world (`DwellInv`); a streak lies within the phase
  (`StreakInv`). Proved: `HeartbeatInvariance`, `StopJoinsAlways`,
  `ExitAfterDwellAlways`, `StableTakesBeatsAlways`.
- **CompanionGc** (`CompanionAssumption`). The age of the last signal never runs
  ahead of the counter that both intervals are compared with, so a beat that makes no
  request finds a young signal (`CadenceInv`); the high word is only ever written with
  0 (`WordsInv`). Proved, in `HeartbeatProofs`: `RequestsKeepComingAlways`,
  `ReadIsPublishedAlways`.
- **SardineGate** (some heap and some module), in `HeapShardsProofs`. `GraphicsHandsOff` needs only that a thread past
  the graphics test has a caller that is no driver (`PassedIsNoDriver`): the test is
  made for each request, from the table or afresh, so that neither the first caller
  of a shared heap nor a full table matters. Proved: `GraphicsHandsOffAlways`. The
  audio test of `Hooked_RtlAllocateHeap` has no such proof: it only reads the table,
  and a module for which there was no room counts as none.

Every invariant and every action property that a passing run checks is a theorem. Only
model-checked is all liveness (`LockHandedBack`, `LauncherReturns`, `RequestServed`,
`CaptureLogged`), which is beyond this prover. The four properties that runs expect to be
violated do not hold, and have no theorem.

## Assumptions

- A heartbeat's beat takes less than the 6 s that Stop waits. The code does not
  enforce it; a longer beat would outlive its monitor. The only `Stop` of a running
  heartbeat is made by `DllMain` at an unload, under the loader lock: a thread that has
  left its function cannot finish exiting meanwhile, so that wait times out, with the
  same outcome, on a thread that no longer touches anything of the DLL. The same holds
  of the join of the stack walker's worker, which is terminated after the timeout.
- The code of the DLL is taken to stay when it is unloaded: a hook that could not be
  detached, or a thread inside one, is judged by what it finds of the DLL's objects.
- The DLL is not unloaded while `StartPatch` runs: nothing in the program unloads
  it.
- The managed heap is smaller than 4 GB, so the high word of its size is 0: the
  process is 32-bit. `ReadIsPublished` rests on it.
- Detours, the Windows heap and the Mono runtime are external and behave as
  documented. The crash filter runs in `Logger` only.
- One game process per launcher, and modules that call the heap are not unloaded.
- The log file can be created unless it is open already.
- The proofs ask of the constants what the named ASSUMEs say: sizes and limits are
  natural numbers, the arena is a multiple of its granularity and has finitely many
  slots, the threads that share the shards and the callers of the stack walker are
  finitely many, and there is a package.

## Not modelled

- Analytics: named counters and timers behind one critical section, which no decision
  reads. The VAS pressure monitor is a stateless query, and what it answers is left
  open where it is used (`HookedMemory`, `CompanionGc`). The hitch detector keeps
  frame-time statistics for the log. ETW and the allocator trace are output; the
  containment lanes map a caller to a label.
- In modelled components: the log's channels, which are opened and written under the
  lock; the emergency log, which opens, appends and closes in one call; the table of
  resource types and the reports of `MapViewTypeTracker`, under its lock; the
  read-churn tables of the ReadFile hook; `PackageReportedOnce`, the algorithm of
  `MarkOnce` over again; the D3D9 observers; the milestones, rates and reports of the
  heartbeat; the text of the crash report.

## Plan

Done: all modules above, in the order `ProxyArena` with `ArenaContract`,
`ScriptScanDedup`, `HookedMemory`, `Corral`, `Heartbeat`, `CompanionGc`, `StackWalker`,
`Lifecycle`, `HeapShards`, then `Launcher`, `Session`, `MapViewTracker`, `PackageScan`,
`Logger` and `SardineGate`; and the proofs of all of them but `Logger`, which has no
property that holds of it alone.

Left: a type invariant of `HeapShards` as a theorem (the proofs of `Launcher` and
`Lifecycle` contain theirs, as the first part of `LauncherInv` and `LifecycleInv`).
