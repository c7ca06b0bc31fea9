------------------------------ MODULE Lifecycle ------------------------------
(***************************************************************************)
(* The life of the DLL in the game: DllMain starts the StartPatch thread,  *)
(* which builds the subsystems one after the other and tears them down by  *)
(* StopPatch when a step fails; an unload of the DLL runs StopPatch too,   *)
(* and the end of the process only BeginShutdown.                          *)
(*                                                                         *)
(* live holds the objects that exist, except the stack walker, which has a *)
(* module of its own.  The heartbeat thread is present through what its    *)
(* own module shows, that deleting the monitor ends the thread, and        *)
(* through the one lock it shares with the hooks.  The DLL is not unloaded *)
(* while StartPatch runs: nothing in the program unloads it, and the       *)
(* thread's own code would go with it.                                     *)
(***************************************************************************)
EXTENDS StackWalker

CONSTANT HookUsers      \* the game threads that are followed into the other hooks

ASSUME LifecycleAssumption == HookUsers \subseteq Callers

\* What WorkingHooks::Install creates and Uninstall deletes: the TLS index, the
\* MapViewTypeTracker, s_vatCS and s_diagCS.
HookObjects == {"tls", "mapview", "vat", "diag"}

\* What is created once and never deleted: s_heapUseCS and s_rfCS.  (So are the
\* proxy heaps, in a module of their own.)
KeptObjects == {"heapUse", "readLock"}

\* What ObserverHooks can have in the code of the process: Present with
\* SetRenderTarget, and the hooks that only count, ReadFile and the resources.
Observers == {"present", "tallies"}

VARIABLES process,      \* "new", "running" or "exited"
          init,         \* where StartPatch is
          passive,      \* IsPassiveMode
          live,         \* the objects that exist
          hookInstalled,\* m_hooksInstalled
          attached,     \* the allocation hooks are in the code of the process
          memPtr,       \* WorkingHooks' s_memManager is not null
          observing,    \* the observers in the code of the process
          realPresent,  \* Real_Present is not null
          shuttingDown, \* s_shuttingDown
          isStarted,    \* g_isStarted
          stopping,     \* who runs StopPatch: "none", "init", "detach", "done"
          stopAt,       \* its next step
          unloaded,     \* ghost: the DLL was unloaded
          hbThread      \* "none", "beats", "dumping": past DumpUnfreedAssets' test
                        \* of s_diagCSInit, or "astray": in a deleted s_diagCS

observerVars == <<observing, realPresent>>
hookVars == <<hookInstalled, attached, memPtr, observerVars, shuttingDown>>
stopVars == <<stopping, stopAt, unloaded>>
lifeVars == <<process, init, passive, live, hookVars, isStarted, stopVars, hbThread>>
lifecycleVars == <<lifeVars, walkerVars>>

LifecycleInit ==
    /\ WalkerInit
    /\ process = "new" /\ init = "none" /\ passive \in BOOLEAN /\ live = {}
    /\ hookInstalled = FALSE /\ attached = FALSE /\ memPtr = FALSE
    /\ observing = {} /\ realPresent = FALSE /\ shuttingDown = FALSE
    /\ isStarted = FALSE /\ stopping = "none" /\ stopAt = 1
    /\ unloaded = FALSE /\ hbThread = "none"

-----------------------------------------------------------------------------
(* DllMain and StartPatch *)

At(l) == process = "running" /\ init = l
GoOn(l) == init' = l /\ UNCHANGED <<process, passive>>

DllMainAttach ==
    /\ process = "new" /\ process' = "running"
    /\ init' \in {"enter", "done"}
    /\ UNCHANGED <<passive, live, hookVars, isStarted, stopVars, hbThread, walkerVars>>

\* Not the game, or no logger: nothing was built.
StartPatchSkips ==
    /\ At("enter") /\ GoOn("done")
    /\ UNCHANGED <<live, hookVars, isStarted, stopVars, hbThread, walkerVars>>

\* Mutant: g_isStarted is left for the end of the start-up.
LoggerPhaseLate ==
    /\ At("enter") /\ GoOn("core")
    /\ live' = live \cup {"logger"}
    /\ UNCHANGED <<isStarted, hookVars, stopVars, hbThread, walkerVars>>

LoggerPhase ==
    /\ At("enter") /\ GoOn("core")
    /\ live' = live \cup {"logger"} /\ isStarted' = TRUE
    /\ UNCHANGED <<hookVars, stopVars, hbThread, walkerVars>>

CorePhase ==
    /\ At("core") /\ GoOn("memory")
    /\ live' = live \cup {"analytics", "hitch", "pressure"}
    /\ WalkerInitialize
    /\ UNCHANGED <<hookVars, isStarted, stopVars, hbThread>>

\* StopPatch, called by the start-up thread or by DllMain, once.
CallStopPatch(who) ==
    /\ IF stopping = "none" THEN stopping' = who /\ stopAt' = 1
                            ELSE UNCHANGED <<stopping, stopAt>>
    /\ unloaded' = (unloaded \/ who = "detach")

\* A failed initialisation goes straight to StopPatch.
MemoryPhase ==
    /\ At("memory")
    /\ \/ passive /\ GoOn("exception") /\ UNCHANGED <<live, stopVars>>
       \/ /\ ~passive /\ live' = live \cup {"memory"}
          /\ \/ GoOn("exception") /\ UNCHANGED stopVars
             \/ GoOn("stopping") /\ CallStopPatch("init")
    /\ UNCHANGED <<hookVars, isStarted, hbThread, walkerVars>>

ExceptionPhase ==
    /\ At("exception") /\ GoOn("hooks")
    /\ live' = live \cup {"exception"}
    /\ UNCHANGED <<hookVars, isStarted, stopVars, hbThread, walkerVars>>

\* No TLS index: s_memManager is not set yet.  No ntdll, a missing export or a
\* failed transaction: what was created stays, and s_memManager stays set.
InstallFails ==
    /\ shuttingDown' = FALSE
    /\ \/ live' = live \cup {"hooks"} /\ UNCHANGED memPtr
       \/ live' = live \cup {"hooks", "tls", "mapview"} /\ memPtr' = TRUE
       \/ live' = live \cup {"hooks", "heapUse"} \cup HookObjects /\ memPtr' = TRUE
    /\ UNCHANGED <<attached, hookInstalled, observerVars>>

\* One Detours transaction attaches every hook.
InstallCommits ==
    /\ shuttingDown' = FALSE /\ memPtr' = TRUE
    /\ live' = live \cup {"hooks", "heapUse"} \cup HookObjects
    /\ attached' = TRUE /\ hookInstalled' = TRUE
    /\ UNCHANGED observerVars

HookPhase ==
    /\ At("hooks")
    /\ \/ passive /\ GoOn("heartbeat") /\ UNCHANGED <<live, hookVars, stopVars>>
       \/ /\ ~passive
          /\ \/ InstallCommits /\ GoOn("heartbeat") /\ UNCHANGED stopVars
             \/ InstallFails /\ GoOn("stopping") /\ CallStopPatch("init")
    /\ UNCHANGED <<isStarted, hbThread, walkerVars>>

\* The monitor's thread may fail to be created.
HeartbeatPhase ==
    /\ At("heartbeat") /\ GoOn("walker")
    /\ live' = live \cup {"heartbeat"}
    /\ hbThread' \in {"none", "beats"}
    /\ UNCHANGED <<hookVars, isStarted, stopVars, walkerVars>>

WalkerPhase ==
    /\ At("walker") /\ GoOn("observer")
    /\ WalkerStart
    /\ UNCHANGED <<live, hookVars, isStarted, stopVars, hbThread>>

\* ReadFile is hooked apart, after its lock was made; Present and the resource
\* hooks in one transaction, which sets Real_Present or nulls it again.
Observe ==
    /\ live' = live \cup {"readLock"}
    /\ observing' \in SUBSET Observers /\ realPresent' = ("present" \in observing')

\* Mutant: a failed installation of the observers stops the patch.
ObserverPhaseStops ==
    /\ At("observer")
    /\ \/ GoOn("done") /\ ~passive /\ Observe /\ UNCHANGED stopVars
       \/ GoOn("done") /\ UNCHANGED <<live, observerVars, stopVars>>
       \/ /\ ~passive /\ GoOn("stopping") /\ CallStopPatch("init")
          /\ UNCHANGED <<live, observerVars>>
    /\ UNCHANGED <<hookInstalled, attached, memPtr, shuttingDown, isStarted,
                   hbThread, walkerVars>>

\* ObserverHooks::Install may be switched off or fail in part; nobody looks.
ObserverPhase ==
    /\ At("observer") /\ GoOn("done")
    /\ \/ ~passive /\ Observe
       \/ UNCHANGED <<live, observerVars>>
    /\ UNCHANGED <<hookInstalled, attached, memPtr, shuttingDown, isStarted,
                   stopVars, hbThread, walkerVars>>

\* catch (...): the start-up ends where it is.
StartPatchThrows ==
    /\ process = "running"
    /\ init \in {"core", "memory", "exception", "hooks", "heartbeat", "walker", "observer"}
    /\ GoOn("done")
    /\ UNCHANGED <<live, hookVars, isStarted, stopVars, hbThread, walkerVars>>

StartPatchStep == StartPatchSkips \/ LoggerPhase \/ CorePhase \/ MemoryPhase
                  \/ ExceptionPhase \/ HookPhase \/ HeartbeatPhase \/ WalkerPhase
                  \/ ObserverPhase \/ StartPatchThrows

-----------------------------------------------------------------------------
(* StopPatch *)

\* Mutant: the memory manager is deleted before the heartbeat monitor.
StopOrderMemoryFirst == <<"shutdown", "hooks", "observer", "memory", "heartbeat",
                          "exception", "walker", "hitch", "analytics", "pressure",
                          "logger", "end">>

\* The order of the teardown.
StopOrder == <<"shutdown", "hooks", "observer", "heartbeat", "exception", "memory",
               "walker", "hitch", "analytics", "pressure", "logger", "end">>

\* The singletons are only shut down by a started DLL.
Skipped(step) ==
    ~isStarted /\ step \in {"walker", "hitch", "analytics", "pressure", "logger"}

StopNext == stopAt' = stopAt + 1 /\ UNCHANGED <<stopping, unloaded>>

\* The step's object is deleted, if there is one.
Delete(step) == live' = live \ {step}

StopBegins(step) ==
    /\ step = "shutdown" /\ StopNext
    /\ shuttingDown' = TRUE
    /\ UNCHANGED <<hookInstalled, attached, memPtr, observerVars, live, hbThread, walkerVars>>

\* ~HookManager: hooks that were installed are detached, unless that
\* transaction fails; what Install created is deleted and s_memManager is
\* cleared either way.  After a failed Install only the manager goes.
StopHooks(step) ==
    /\ step = "hooks" /\ StopNext
    /\ \/ /\ "hooks" \in live /\ hookInstalled
          /\ hookInstalled' = FALSE /\ shuttingDown' = TRUE
          /\ attached' \in BOOLEAN /\ memPtr' = FALSE
          /\ live' = live \ ({step} \cup HookObjects)
       \/ /\ ~("hooks" \in live /\ hookInstalled) /\ Delete(step)
          /\ UNCHANGED <<hookInstalled, attached, memPtr, shuttingDown>>
    /\ UNCHANGED <<observerVars, hbThread, walkerVars>>

\* A transaction each for ReadFile, the resource hooks and Present; each may
\* fail, nobody looks, and Real_Present is nulled all the same.
StopObserver(step) ==
    /\ step = "observer" /\ StopNext
    /\ observing' \in SUBSET observing /\ realPresent' = FALSE
    /\ UNCHANGED <<hookInstalled, attached, memPtr, shuttingDown, live, hbThread, walkerVars>>

\* ~HeartbeatMonitor joins its thread, which is not in the middle of a beat
\* then; for one that is lost in s_diagCS the wait times out.
StopHeartbeat(step) ==
    /\ step = "heartbeat" /\ StopNext /\ Delete(step)
    /\ \/ "heartbeat" \in live /\ hbThread = "beats" /\ hbThread' = "none"
       \/ ("heartbeat" \notin live \/ hbThread \in {"none", "astray"}) /\ UNCHANGED hbThread
    /\ UNCHANGED <<hookVars, walkerVars>>

StopObject(step) ==
    /\ step \in {"exception", "memory", "hitch", "analytics", "pressure", "logger"}
    /\ StopNext
    /\ IF Skipped(step) THEN UNCHANGED live ELSE Delete(step)
    /\ UNCHANGED <<hookVars, hbThread, walkerVars>>

\* StackWalker::Shutdown, then the next object.
StopWalker(step) ==
    /\ step = "walker"
    /\ \/ (Skipped(step) \/ walker = "none") /\ StopNext /\ UNCHANGED walkerVars
       \/ ~Skipped(step) /\ WalkerShutdownStep /\ UNCHANGED stopVars
    /\ UNCHANGED <<hookVars, live, hbThread>>

StopStep ==
    /\ process = "running" /\ stopping \in {"init", "detach"}
    /\ LET step == StopOrder[stopAt]
       IN  StopBegins(step) \/ StopHooks(step) \/ StopObserver(step)
           \/ StopHeartbeat(step) \/ StopObject(step) \/ StopWalker(step)
    /\ UNCHANGED <<process, init, passive, isStarted>>

\* StopPatch returns; the start-up thread returns with it.
StopEnds ==
    /\ process = "running" /\ stopping \in {"init", "detach"}
    /\ StopOrder[stopAt] = "end"
    /\ stopping' = "done" /\ isStarted' = FALSE
    /\ init' = "done"
    /\ UNCHANGED <<process, passive, live, hookVars, stopAt, unloaded, hbThread, walkerVars>>

\* The DLL is unloaded after the start-up.
DetachUnload ==
    /\ At("done") /\ CallStopPatch("detach")
    /\ UNCHANGED <<process, init, passive, live, hookVars, isStarted, hbThread, walkerVars>>

\* The process ends: every other thread is gone when DllMain is called, which
\* deletes nothing.
DetachExit ==
    /\ process = "running" /\ process' = "exited"
    /\ shuttingDown' = TRUE
    /\ hbThread' = "none" /\ worker' = "none" /\ caller' = [c \in Callers |-> "idle"]
    /\ UNCHANGED <<init, passive, live, hookInstalled, attached, memPtr, observerVars,
                   isStarted, stopVars, walker, walkerStop, queued, tokens>>

-----------------------------------------------------------------------------
(* The other threads *)

\* DumpUnfreedAssets, called by a beat at the end of a world: it tests
\* s_diagCSInit, then enters s_diagCS.  Uninstall deletes both without a lock.
HeartTests ==
    /\ process = "running" /\ hbThread = "beats" /\ "diag" \in live
    /\ hbThread' = "dumping"

HeartDumps ==
    /\ process = "running" /\ hbThread = "dumping"
    /\ hbThread' = IF "diag" \in live THEN "beats" ELSE "astray"

HeartRuns ==
    /\ HeartTests \/ HeartDumps
    /\ UNCHANGED <<process, init, passive, live, hookVars, isStarted, stopVars, walkerVars>>

\* A game thread that is not in one of our hooks enters one.
Enters(c, hook) ==
    /\ process = "running" /\ c \in HookUsers /\ caller[c] = "idle" /\ Become(c, hook)
    /\ UNCHANGED <<lifeVars, walker, walkerStop, worker, queued, tokens>>

\* Hooked_Present sees a long frame.
PresentCaptures(c) ==
    /\ process = "running" /\ "present" \in observing /\ realPresent /\ ~shuttingDown
    /\ CaptureBegins(c)
    /\ UNCHANGED lifeVars

\* Hooked_Present is past its test of Real_Present, which it calls at the end.
PresentEntered(c) == "present" \in observing /\ realPresent /\ Enters(c, "presenting")

\* Hooked_ReadFile or a resource hook is past its guard: it has the singletons.
TallyEntered(c) ==
    "tallies" \in observing /\ ~shuttingDown /\ Enters(c, "tallying")

\* An allocation hook is past its guard: it is going to use the memory manager,
\* s_vatCS, s_diagCS or the tracker.  A hooked free does not ask for
\* shuttingDown.  s_activeHookCalls counts it, and nobody waits for the count.
HookEntered(c) == attached /\ memPtr /\ Enters(c, "hooked")

GameEnters(c) == PresentCaptures(c) \/ PresentEntered(c) \/ TallyEntered(c) \/ HookEntered(c)

\* A thread in a hook finds what it uses, or what StopPatch has left of it.
Leaves(c, hook, found) ==
    /\ caller[c] = hook /\ Become(c, IF found THEN "idle" ELSE "astray")
    /\ UNCHANGED <<walker, walkerStop, worker, queued, tokens>>

HookedStep(c) ==
    \/ Leaves(c, "hooked", memPtr /\ {"memory", "vat", "diag", "mapview"} \subseteq live)
    \/ Leaves(c, "presenting", realPresent /\ {"hitch", "logger"} \subseteq live)
    \/ Leaves(c, "tallying", {"analytics", "logger"} \subseteq live)

CallerRuns(c) ==
    /\ process = "running" /\ (CaptureStep(c) \/ HookedStep(c))
    /\ UNCHANGED lifeVars

WorkerRuns == process = "running" /\ WorkerStep /\ UNCHANGED lifeVars

LifecycleNext == DllMainAttach \/ StartPatchStep \/ StopStep \/ StopEnds
                 \/ DetachUnload \/ DetachExit \/ HeartRuns \/ WorkerRuns
                 \/ \E c \in Callers : GameEnters(c) \/ CallerRuns(c)

\* The worker and a thread inside a capture or a hook are scheduled.
LifecycleSpec ==
    /\ LifecycleInit /\ [][LifecycleNext]_lifecycleVars
    /\ WF_lifecycleVars(WorkerRuns)
    /\ \A c \in Callers : WF_lifecycleVars(CallerRuns(c))

-----------------------------------------------------------------------------
(* Properties *)

Exists(objs) == objs \subseteq live

\* Whatever runs finds what it uses, through start-up, failure and teardown:
\* the heartbeat its memory manager and the singletons, a hook that is not in
\* pass-through the manager and the locks it goes to, an observer the detector,
\* the walker and its own lock, the worker its queue and the logger.  The one
\* exception is s_diagCS, which an unload deletes before it ends the heartbeat.
UsersOutlived ==
    process = "running" =>
    /\ hbThread \in {"beats", "dumping"} =>
           /\ Exists({"heartbeat", "analytics", "pressure", "logger"})
           /\ passive \/ Exists({"memory"})
    /\ hbThread = "dumping" => Exists({"diag"}) \/ unloaded
    /\ attached /\ memPtr => Exists({"memory"} \cup HookObjects)
    /\ attached /\ ~shuttingDown => memPtr /\ Exists({"analytics", "logger"})
    /\ "present" \in observing /\ ~shuttingDown =>
           realPresent /\ walker # "none" /\ Exists({"hitch", "logger"})
    /\ "tallies" \in observing /\ ~shuttingDown => Exists({"readLock", "analytics", "logger"})
    /\ Working => walker # "none" /\ Exists({"logger"})

\* When StopPatch is over, wherever the start-up had come, no thread of ours
\* runs and nothing of ours can be reached.  What is never deleted may be left;
\* after a failed Install also its objects and s_memManager, with no hook that
\* leads to them; and after an unload a hook that could not be detached, which
\* passes through or, for Present, refuses, and a heartbeat lost in s_diagCS.
StopLeavesNoUser ==
    stopping = "done" /\ process = "running" =>
        /\ live \subseteq KeptObjects \cup HookObjects
        /\ walker = "none" /\ ~Working /\ hbThread \in {"none", "astray"}
        /\ attached \/ observing # {} =>
               /\ unloaded /\ shuttingDown /\ ~memPtr /\ ~realPresent
               /\ live \subseteq KeptObjects

\* A game thread finds a deleted critical section, memory manager or singleton,
\* and the heartbeat a deleted s_diagCS, only when the DLL was unloaded under
\* it: a start-up that fails and tears itself down has let no thread in yet, and
\* the end of the process deletes nothing.
StrandedOnlyByUnload ==
    (\E c \in Callers : caller[c] = "astray") \/ hbThread = "astray" => unloaded

\* An accepted capture is logged, unless the walker is shut down or the
\* process ends: no wake-up is lost.
CaptureLogged ==
    queued > 0 ~> (worker = "logging" \/ walkerStop \/ process = "exited")
=============================================================================
