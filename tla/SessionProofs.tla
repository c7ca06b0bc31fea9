---------------------------- MODULE SessionProofs ----------------------------
(***************************************************************************)
(* Part 1.  The launcher's exit code is true and its buffer is handled,    *)
(* for every number of polls.  What each step of InjectDLL may assume of   *)
(* the buffer and of the loader's thread is the invariant.                 *)
(*                                                                         *)
(* Part 2.  Whatever runs in the DLL finds what it uses, the teardown      *)
(* leaves nobody who uses what is left, and only an unload strands a       *)
(* thread, for any number of callers and any size of the queue.  A user of *)
(* an object is bound to the steps of the start-up that are behind it and  *)
(* to the steps of StopPatch that are still ahead of it.                   *)
(*                                                                         *)
(* A session is a launcher and a DLL, so both parts hold for it.           *)
(***************************************************************************)
EXTENDS Session, TLAPS

-----------------------------------------------------------------------------
(* Part 1.  The launcher *)

Beginning == {"start", "create", "find", "watch", "settle", "open", "alloc"}
Waiting   == {"wait", "code", "release"}

LauncherTypeOK ==
    /\ mode \in {"direct", "monitor", "none"} /\ dllFile \in BOOLEAN
    /\ lpc \in Beginning \cup {"write", "thread"} \cup Waiting \cup {"ok", "failed"}
    /\ game \in {"none", "running", "gone"}
    /\ buffer \in {"none", "empty", "written", "freed"}
    /\ loader \in {"none", "started", "mapping", "loaded", "refused", "killed"}
    /\ exitCode \in {"unread", "null", "module"}
    /\ timedOut \in BOOLEAN /\ strayRead \in BOOLEAN

\* The buffer goes with the steps of InjectDLL.
BufferGoesWithStep ==
    /\ lpc \in Beginning => buffer = "none"
    /\ lpc = "write" => buffer = "empty"
    /\ lpc \in {"thread"} \cup Waiting => buffer = "written"
    /\ lpc \in {"ok", "failed"} => buffer \in {"none", "freed"}

\* The loader's thread exists from StartLoader on; one that has not read its
\* path when the wait is over was not waited for; one that was waited for has
\* ended, as the exit code says.
LoaderGoesWithStep ==
    /\ lpc \in Beginning \cup {"write", "thread"} => loader = "none"
    /\ lpc \notin {"start", "create"} /\ mode = "direct" => loader # "started"
    /\ lpc \in {"find", "watch", "settle", "open", "alloc", "write", "thread"} \cup Waiting
           => mode # "direct"
    /\ lpc = "create" => mode = "direct"
    /\ game = "none" => /\ loader = "none"
                        /\ lpc \notin {"alloc", "write", "thread", "ok"} \cup Waiting
    /\ loader = "killed" => game = "gone"
    /\ loader = "started" /\ lpc # "wait" => timedOut
    /\ lpc \in {"code", "release"} /\ ~timedOut => LoaderEnded
    /\ lpc = "release" => exitCode # "unread"
    /\ lpc = "release" /\ exitCode = "null" => loader \in {"refused", "killed"}
    /\ lpc = "release" /\ exitCode = "module" /\ ~timedOut => loader # "refused"
    /\ strayRead => lpc \in {"ok", "failed"}

LauncherInv == LauncherTypeOK /\ BufferGoesWithStep /\ LoaderGoesWithStep
               /\ ExitCodeTellsTruth /\ PathBufferHandled

\* The launcher starts before its loader and its buffer exist.
LEMMA InitLauncherInv == LauncherInit => LauncherInv
BY DEF LauncherInit, LauncherInv, LauncherTypeOK, BufferGoesWithStep, LoaderGoesWithStep,
       ExitCodeTellsTruth, PathBufferHandled, Beginning, Waiting, LoaderEnded

\* Every step of main and of InjectDLL, and whatever the game and the loader
\* do between two of them, leaves the buffer and the thread as the next step
\* expects them.
LEMMA LauncherInvStep ==
    ASSUME LauncherInv, LauncherNext
    PROVE  LauncherInv'
<1> USE DEF LauncherInv, LauncherTypeOK, BufferGoesWithStep, LoaderGoesWithStep,
            ExitCodeTellsTruth, PathBufferHandled, Beginning, Waiting, LoaderEnded,
            setupVars, remoteVars, Step, GameGoes
<1>1. CASE GiveUp BY <1>1 DEF GiveUp
<1>2. CASE ChooseMode BY <1>2 DEF ChooseMode
<1>3. CASE CreateGame BY <1>3 DEF CreateGame
<1>4. CASE FindGame BY <1>4 DEF FindGame
<1>5. CASE WaitForProcess BY <1>5 DEF WaitForProcess
<1>6. CASE Settle BY <1>6 DEF Settle
<1>7. CASE OpenGame BY <1>7 DEF OpenGame
<1>8. CASE AllocPath BY <1>8 DEF AllocPath
<1>9. CASE WritePath BY <1>9 DEF WritePath
<1>10. CASE StartLoader BY <1>10 DEF StartLoader
<1>11. CASE WaitForLoader BY <1>11 DEF WaitForLoader
<1>12. CASE ReadExitCode BY <1>12 DEF ReadExitCode
<1>13. CASE ReleasePath BY <1>13 DEF ReleasePath
<1>14. CASE GameAppears BY <1>14 DEF GameAppears
<1>15. CASE GameEnds BY <1>15 DEF GameEnds
<1>16. CASE LoaderReadsPath
  <2>1. CASE buffer = "written" BY <1>16, <2>1 DEF LoaderReadsPath
  <2>2. CASE buffer # "written"
    <3>1. timedOut /\ lpc \in {"ok", "failed"} BY <1>16, <2>2 DEF LoaderReadsPath
    <3> QED BY <1>16, <2>2, <3>1 DEF LoaderReadsPath
  <2> QED BY <2>1, <2>2
<1>17. CASE LoaderRefuses BY <1>17 DEF LoaderRefuses
<1>18. CASE LoaderLoads BY <1>18 DEF LoaderLoads
<1> QED
  BY <1>1, <1>2, <1>3, <1>4, <1>5, <1>6, <1>7, <1>8, <1>9, <1>10, <1>11, <1>12, <1>13,
     <1>14, <1>15, <1>16, <1>17, <1>18, LauncherNext
  DEF LauncherNext, LauncherStep

\* The same for a step that leaves the launcher, its game and its loader alone.
LEMMA LauncherInvariance == LauncherInv /\ [LauncherNext]_launcherVars => LauncherInv'
<1> SUFFICES ASSUME LauncherInv, [LauncherNext]_launcherVars PROVE LauncherInv'
  OBVIOUS
<1>1. CASE LauncherNext BY <1>1, LauncherInvStep
<1>2. CASE UNCHANGED launcherVars
  BY <1>2 DEF LauncherInv, LauncherTypeOK, BufferGoesWithStep, LoaderGoesWithStep,
              ExitCodeTellsTruth, PathBufferHandled, LoaderEnded, launcherVars, setupVars,
              remoteVars
<1> QED BY <1>1, <1>2

\* To the launcher, a session is one of its own behaviours: the DLL's life adds
\* nothing to what it can meet.
LEMMA SessionIsLauncher == [SessionNext]_sessionVars => [LauncherNext]_launcherVars
BY DEF SessionNext, sessionVars, LauncherRuns, GameRuns, DllLoaded, GameOver, DllRuns,
       WorkerTurn, CallerTurn, LauncherNext

\* LauncherInv holds in every session.
LEMMA SessionLauncherInv == SessionSpec => []LauncherInv
<1>1. SessionInit => LauncherInv BY InitLauncherInv DEF SessionInit
<1>2. LauncherInv /\ [SessionNext]_sessionVars => LauncherInv'
  BY LauncherInvariance, SessionIsLauncher
<1> QED BY <1>1, <1>2, PTL DEF SessionSpec

\* The exit code of TS3Launcher's main says what has become of the DLL.
THEOREM ExitCodeTellsTruthAlways == SessionSpec => []ExitCodeTellsTruth
<1>1. LauncherInv => ExitCodeTellsTruth BY DEF LauncherInv
<1> QED BY <1>1, SessionLauncherInv, PTL

\* The path InjectDLL writes into the game is there when the loader reads it,
\* and no return of InjectDLL leaves it behind.
THEOREM PathBufferHandledAlways == SessionSpec => []PathBufferHandled
<1>1. LauncherInv => PathBufferHandled BY DEF LauncherInv
<1> QED BY <1>1, SessionLauncherInv, PTL

-----------------------------------------------------------------------------
(* Part 2.  The DLL *)

Objects == {"logger", "analytics", "hitch", "pressure", "memory", "exception", "hooks",
            "heartbeat"} \cup HookObjects \cup KeptObjects
Building == {"memory", "exception", "hooks", "heartbeat", "walker", "observer"}

LifecycleTypeOK ==
    /\ process \in {"new", "running", "exited"}
    /\ init \in {"none", "enter", "core", "stopping", "done"} \cup Building
    /\ passive \in BOOLEAN /\ live \subseteq Objects
    /\ hookInstalled \in BOOLEAN /\ attached \in BOOLEAN /\ memPtr \in BOOLEAN
    /\ observing \subseteq Observers /\ realPresent \in BOOLEAN
    /\ shuttingDown \in BOOLEAN /\ isStarted \in BOOLEAN
    /\ stopping \in {"none", "init", "detach", "done"}
    /\ unloaded \in BOOLEAN /\ hbThread \in {"none", "beats", "dumping", "astray"}
    /\ walker \in {"none", "live", "stopping", "joining", "joined"}
    /\ worker \in {"none", "loop", "woken", "logging", "draining", "ended"}
    /\ caller \in [Callers -> {"idle", "capturing", "queued", "astray", "hooked",
                               "presenting", "tallying"}]

\* StopPatch runs once, after the start-up or at the end of a failed one, and
\* shuttingDown is set from its first step on.
StopIsLast ==
    /\ stopAt \in 1 .. 12
    /\ process = "new" <=> init = "none"
    /\ init \notin {"stopping", "done"} => stopping = "none"
    /\ init = "stopping" <=> stopping = "init"
    /\ stopping = "detach" => init = "done" /\ unloaded
    /\ stopping = "none" => stopAt = 1
    /\ stopping = "done" => stopAt = 12
    /\ stopAt > 1 => shuttingDown

\* What the start-up has built when it comes to a phase.  A StopPatch that
\* finds the DLL not started has no singleton to shut down.
BuiltInOrder ==
    /\ init \in {"none", "enter"} => ~isStarted
    /\ ~isStarted => (live = {} /\ walker = "none") \/ stopping = "done"
    /\ init = "core" => "logger" \in live
    /\ init \in Building =>
           {"logger", "analytics", "hitch", "pressure"} \subseteq live /\ walker = "live"
    /\ init \in Building \ {"memory"} => passive \/ "memory" \in live

\* The steps of StopPatch that are behind have deleted their objects.
RemovedInOrder ==
    /\ stopAt > 2  => "hooks" \notin live
    /\ stopAt > 4  => "heartbeat" \notin live
    /\ stopAt > 5  => "exception" \notin live
    /\ stopAt > 6  => "memory" \notin live
    /\ stopAt > 8  => "hitch" \notin live
    /\ stopAt > 9  => "analytics" \notin live
    /\ stopAt > 10 => "pressure" \notin live
    /\ stopAt > 11 => "logger" \notin live
    /\ walker # "none" => stopAt <= 7

\* Each user of an object comes after the phases that build what it uses, and
\* ends with a step of StopPatch before those that delete it.  A hook that could
\* not be detached outlives its step, without the pointer that leads on.
UsersInOrder ==
    /\ hbThread # "none" => init \in {"walker", "observer", "done", "stopping"}
    /\ hbThread \in {"beats", "dumping"} =>
           /\ stopAt <= 4 /\ {"heartbeat", "analytics", "pressure", "logger"} \subseteq live
           /\ passive \/ "memory" \in live
    /\ attached /\ stopAt <= 2 =>
           /\ hookInstalled /\ memPtr /\ HookObjects \subseteq live
           /\ {"hooks", "memory", "analytics", "logger"} \subseteq live
    /\ attached \/ hookInstalled => init \in {"heartbeat", "walker", "observer", "done"}
    /\ init \in {"heartbeat", "walker", "observer"} /\ ~passive => attached
    /\ observing # {} => init = "done" /\ (stopAt <= 2 => attached)
    /\ (attached \/ observing # {}) /\ stopAt > 2 => ~memPtr /\ live \cap HookObjects = {}
    /\ realPresent => "present" \in observing /\ stopAt <= 3
    /\ "present" \in observing /\ stopAt <= 3 =>
           realPresent /\ walker # "none" /\ {"hitch", "logger"} \subseteq live
    /\ "tallies" \in observing /\ stopAt <= 3 => {"readLock", "analytics", "logger"} \subseteq live
    /\ Working => /\ init \in {"observer", "done"}
                  /\ walker \notin {"none", "joined"} /\ "logger" \in live

\* A failed start-up has let no thread in: until the DLL is unloaded StopPatch
\* only runs without hooks, observers, heartbeat and threads inside them.
UntouchedByFailure ==
    ~unloaded =>
      /\ attached \/ hookInstalled \/ observing # {} \/ hbThread # "none" => stopping = "none"
      /\ hbThread # "astray" /\ (hbThread = "dumping" => "diag" \in live)
      /\ \A c \in Callers :
           /\ caller[c] # "astray"
           /\ caller[c] \in {"capturing", "queued"} =>
                  init = "done" /\ stopping = "none" /\ walker # "none"
           /\ caller[c] = "hooked" =>
                  /\ init \in {"heartbeat", "walker", "observer", "done"}
                  /\ stopping = "none" /\ memPtr
                  /\ {"memory", "vat", "diag", "mapview"} \subseteq live
           /\ caller[c] = "presenting" =>
                  /\ init = "done" /\ stopping = "none" /\ realPresent
                  /\ {"hitch", "logger"} \subseteq live
           /\ caller[c] = "tallying" =>
                  init = "done" /\ stopping = "none" /\ {"analytics", "logger"} \subseteq live

LifecycleInv == LifecycleTypeOK /\ StopIsLast /\ BuiltInOrder /\ RemovedInOrder
                /\ UsersInOrder /\ UntouchedByFailure

\* Nothing is built before DllMain is called.
LEMMA InitLifecycleInv == LifecycleInit => LifecycleInv
<1> SUFFICES ASSUME LifecycleInit PROVE LifecycleInv
  OBVIOUS
<1> USE DEF LifecycleInit, WalkerInit
<1>1. LifecycleTypeOK BY DEF LifecycleTypeOK, Objects, Building
<1>2. StopIsLast BY DEF StopIsLast
<1>3. BuiltInOrder BY DEF BuiltInOrder, Building
<1>4. RemovedInOrder BY DEF RemovedInOrder
<1>5. UsersInOrder BY DEF UsersInOrder, Working
<1>6. UntouchedByFailure BY DEF UntouchedByFailure
<1> QED BY <1>1, <1>2, <1>3, <1>4, <1>5, <1>6 DEF LifecycleInv

\* The steps of StopPatch, one by one.
LEMMA StopOrderIs ==
    /\ StopOrder[1] = "shutdown" /\ StopOrder[2] = "hooks" /\ StopOrder[3] = "observer"
    /\ StopOrder[4] = "heartbeat" /\ StopOrder[5] = "exception" /\ StopOrder[6] = "memory"
    /\ StopOrder[7] = "walker" /\ StopOrder[8] = "hitch" /\ StopOrder[9] = "analytics"
    /\ StopOrder[10] = "pressure" /\ StopOrder[11] = "logger" /\ StopOrder[12] = "end"
BY DEF StopOrder

\* DllMain and the phases of StartPatch.
LEMMA StartPatchInv ==
    ASSUME LifecycleInv, DllMainAttach \/ StartPatchStep
    PROVE  LifecycleInv'
<1> USE DEF LifecycleInv, LifecycleTypeOK, StopIsLast, BuiltInOrder, RemovedInOrder,
            UsersInOrder, UntouchedByFailure, Building, Objects, Working, hookVars,
            observerVars, stopVars, walkerVars, HookObjects, KeptObjects, Observers
<1> USE DEF At, GoOn, CallStopPatch
<1>1. CASE DllMainAttach BY <1>1 DEF DllMainAttach
<1>2. CASE StartPatchSkips BY <1>2 DEF StartPatchSkips
<1>3. CASE LoggerPhase BY <1>3 DEF LoggerPhase
<1>4. CASE CorePhase
  <2>1. LifecycleTypeOK' BY <1>4 DEF CorePhase, WalkerInitialize
  <2>2. StopIsLast' BY <1>4 DEF CorePhase, WalkerInitialize
  <2>3. BuiltInOrder' BY <1>4 DEF CorePhase, WalkerInitialize
  <2>4. RemovedInOrder' BY <1>4 DEF CorePhase, WalkerInitialize
  <2>5. UsersInOrder' BY <1>4 DEF CorePhase, WalkerInitialize
  <2>6. UntouchedByFailure' BY <1>4 DEF CorePhase, WalkerInitialize
  <2> QED BY <2>1, <2>2, <2>3, <2>4, <2>5, <2>6
<1>5. CASE MemoryPhase
  <2>1. LifecycleTypeOK' BY <1>5 DEF MemoryPhase
  <2>2. StopIsLast' BY <1>5 DEF MemoryPhase
  <2>3. BuiltInOrder' BY <1>5 DEF MemoryPhase
  <2>4. RemovedInOrder' BY <1>5 DEF MemoryPhase
  <2>5. UsersInOrder' BY <1>5 DEF MemoryPhase
  <2>6. UntouchedByFailure' BY <1>5 DEF MemoryPhase
  <2> QED BY <2>1, <2>2, <2>3, <2>4, <2>5, <2>6
<1>6. CASE ExceptionPhase
  <2>1. LifecycleTypeOK' BY <1>6 DEF ExceptionPhase
  <2>2. StopIsLast' BY <1>6 DEF ExceptionPhase
  <2>3. BuiltInOrder' BY <1>6 DEF ExceptionPhase
  <2>4. RemovedInOrder' BY <1>6 DEF ExceptionPhase
  <2>5. UsersInOrder' BY <1>6 DEF ExceptionPhase
  <2>6. UntouchedByFailure' BY <1>6 DEF ExceptionPhase
  <2> QED BY <2>1, <2>2, <2>3, <2>4, <2>5, <2>6
<1>7. CASE HookPhase
  <2>1. LifecycleTypeOK' BY <1>7 DEF HookPhase, InstallCommits, InstallFails
  <2>2. StopIsLast' BY <1>7 DEF HookPhase, InstallCommits, InstallFails
  <2>3. BuiltInOrder' BY <1>7 DEF HookPhase, InstallCommits, InstallFails
  <2>4. RemovedInOrder' BY <1>7 DEF HookPhase, InstallCommits, InstallFails
  <2>5. UsersInOrder' BY <1>7 DEF HookPhase, InstallCommits, InstallFails
  <2>6. UntouchedByFailure' BY <1>7 DEF HookPhase, InstallCommits, InstallFails
  <2> QED BY <2>1, <2>2, <2>3, <2>4, <2>5, <2>6
<1>8. CASE HeartbeatPhase
  <2>1. LifecycleTypeOK' BY <1>8 DEF HeartbeatPhase
  <2>2. StopIsLast' BY <1>8 DEF HeartbeatPhase
  <2>3. BuiltInOrder' BY <1>8 DEF HeartbeatPhase
  <2>4. RemovedInOrder' BY <1>8 DEF HeartbeatPhase
  <2>5. UsersInOrder' BY <1>8 DEF HeartbeatPhase
  <2>6. UntouchedByFailure' BY <1>8 DEF HeartbeatPhase
  <2> QED BY <2>1, <2>2, <2>3, <2>4, <2>5, <2>6
<1>9. CASE WalkerPhase
  <2>1. LifecycleTypeOK' BY <1>9 DEF WalkerPhase, WalkerStart
  <2>2. StopIsLast' BY <1>9 DEF WalkerPhase, WalkerStart
  <2>3. BuiltInOrder' BY <1>9 DEF WalkerPhase, WalkerStart
  <2>4. RemovedInOrder' BY <1>9 DEF WalkerPhase, WalkerStart
  <2>5. UsersInOrder' BY <1>9 DEF WalkerPhase, WalkerStart
  <2>6. UntouchedByFailure' BY <1>9 DEF WalkerPhase, WalkerStart
  <2> QED BY <2>1, <2>2, <2>3, <2>4, <2>5, <2>6
<1>10. CASE ObserverPhase
  <2>1. LifecycleTypeOK'
    <3>1. observing' \subseteq Observers /\ live' \subseteq Objects
      BY <1>10 DEF ObserverPhase, Observe
    <3>2. realPresent' \in BOOLEAN
      <4>1. CASE Observe BY <4>1 DEF Observe
      <4>2. CASE UNCHANGED <<live, observerVars>> BY <4>2
      <4> QED BY <1>10, <4>1, <4>2 DEF ObserverPhase
    <3>3. /\ init' = "done"
          /\ UNCHANGED <<process, passive, hookInstalled, attached, memPtr, shuttingDown,
                         isStarted, stopping, unloaded, hbThread, walker, worker, caller>>
      BY <1>10 DEF ObserverPhase
    <3> QED BY <3>1, <3>2, <3>3
  <2>2. StopIsLast' BY <1>10 DEF ObserverPhase, Observe
  <2>3. BuiltInOrder' BY <1>10 DEF ObserverPhase, Observe
  <2>4. RemovedInOrder' BY <1>10 DEF ObserverPhase, Observe
  <2>5. UsersInOrder' BY <1>10 DEF ObserverPhase, Observe
  <2>6. UntouchedByFailure' BY <1>10 DEF ObserverPhase, Observe
  <2> QED BY <2>1, <2>2, <2>3, <2>4, <2>5, <2>6
<1>11. CASE StartPatchThrows
  <2>1. LifecycleTypeOK' BY <1>11 DEF StartPatchThrows
  <2>2. StopIsLast' BY <1>11 DEF StartPatchThrows
  <2>3. BuiltInOrder' BY <1>11 DEF StartPatchThrows
  <2>4. RemovedInOrder' BY <1>11 DEF StartPatchThrows
  <2>5. UsersInOrder' BY <1>11 DEF StartPatchThrows
  <2>6. UntouchedByFailure' BY <1>11 DEF StartPatchThrows
  <2> QED BY <2>1, <2>2, <2>3, <2>4, <2>5, <2>6
<1> QED BY <1>1, <1>2, <1>3, <1>4, <1>5, <1>6, <1>7, <1>8, <1>9, <1>10, <1>11 DEF StartPatchStep

\* StopPatch deletes objects and ends threads; no value is new.
LEMMA StopTypeOK ==
    ASSUME LifecycleTypeOK, StopStep \/ StopEnds
    PROVE  LifecycleTypeOK'
<1> USE DEF LifecycleTypeOK, hookVars, observerVars, stopVars, walkerVars, StopNext, Delete
<1> DEFINE step == StopOrder[stopAt]
<1>1. CASE StopEnds
  <2>1. isStarted' \in BOOLEAN BY <1>1 DEF StopEnds
  <2>2. UNCHANGED <<process, passive, live, hookVars, unloaded, hbThread, walkerVars>>
    BY <1>1 DEF StopEnds
  <2>3. init' = "done" /\ stopping' = "done" BY <1>1 DEF StopEnds
  <2> QED BY <2>1, <2>2, <2>3
<1>2. CASE StopStep
  <2>0. UNCHANGED <<process, init, passive, isStarted>> BY <1>2 DEF StopStep
  <2>1. CASE StopBegins(step) BY <2>0, <2>1 DEF StopBegins
  <2>2. CASE StopHooks(step)
    <3>1. /\ hookInstalled' \in BOOLEAN /\ attached' \in BOOLEAN /\ memPtr' \in BOOLEAN
          /\ shuttingDown' \in BOOLEAN
      BY <2>2 DEF StopHooks
    <3>2. live' \subseteq Objects /\ UNCHANGED <<observerVars, hbThread, walkerVars>>
      BY <2>2 DEF StopHooks
    <3>3. UNCHANGED <<stopping, unloaded>> BY <2>2 DEF StopHooks
    <3> QED BY <2>0, <3>1, <3>2, <3>3
  <2>3. CASE StopObserver(step)
    <3>1. observing' \subseteq Observers /\ realPresent' \in BOOLEAN BY <2>3 DEF StopObserver
    <3>2. UNCHANGED <<hookInstalled, attached, memPtr, shuttingDown, live, hbThread,
                      walkerVars, stopping, unloaded>>
      BY <2>3 DEF StopObserver
    <3> QED BY <2>0, <3>1, <3>2
  <2>4. CASE StopHeartbeat(step) BY <2>0, <2>4 DEF StopHeartbeat
  <2>5. CASE StopObject(step) BY <2>0, <2>5 DEF StopObject
  <2>6. CASE StopWalker(step)
    BY <2>0, <2>6 DEF StopWalker, WalkerShutdownStep, WalkerStops, WalkerWakes, WalkerJoins,
                      WalkerDeletes
  <2> QED BY <1>2, <2>1, <2>2, <2>3, <2>4, <2>5, <2>6 DEF StopStep
<1> QED BY <1>1, <1>2

\* The steps of StopPatch keep the order.
LEMMA StopInv ==
    ASSUME LifecycleInv, StopStep
    PROVE  LifecycleInv'
<1> USE DEF LifecycleInv, LifecycleTypeOK, StopIsLast, BuiltInOrder, RemovedInOrder,
            UsersInOrder, UntouchedByFailure, Building, Objects, Working, hookVars,
            observerVars, stopVars, walkerVars, HookObjects, KeptObjects, Observers
<1> USE DEF StopNext, Delete, Skipped
<1> DEFINE step == StopOrder[stopAt]
<1>0. /\ stopping \in {"init", "detach"} /\ process = "running"
      /\ UNCHANGED <<process, init, passive, isStarted>>
  BY DEF StopStep
<1>1. CASE StopBegins(step)
  <2>1. LifecycleTypeOK' BY StopTypeOK
  <2>2. StopIsLast' BY <1>0, <1>1, StopOrderIs DEF StopBegins
  <2>3. BuiltInOrder' BY <1>0, <1>1, StopOrderIs DEF StopBegins
  <2>4. RemovedInOrder' BY <1>0, <1>1, StopOrderIs DEF StopBegins
  <2>5. UsersInOrder' BY <1>0, <1>1, StopOrderIs DEF StopBegins
  <2>6. UntouchedByFailure' BY <1>0, <1>1, StopOrderIs DEF StopBegins
  <2> QED BY <2>1, <2>2, <2>3, <2>4, <2>5, <2>6
<1>2. CASE StopHooks(step)
  <2>1. LifecycleTypeOK' BY StopTypeOK
  <2>2. StopIsLast' BY <1>0, <1>2, StopOrderIs DEF StopHooks
  <2>3. BuiltInOrder' BY <1>0, <1>2, StopOrderIs DEF StopHooks
  <2>4. RemovedInOrder' BY <1>0, <1>2, StopOrderIs DEF StopHooks
  <2>5. UsersInOrder' BY <1>0, <1>2, StopOrderIs DEF StopHooks
  <2>6. UntouchedByFailure' BY <1>0, <1>2, StopOrderIs DEF StopHooks
  <2> QED BY <2>1, <2>2, <2>3, <2>4, <2>5, <2>6
<1>3. CASE StopObserver(step)
  <2>1. LifecycleTypeOK' BY StopTypeOK
  <2>2. StopIsLast' BY <1>0, <1>3, StopOrderIs DEF StopObserver
  <2>3. BuiltInOrder' BY <1>0, <1>3, StopOrderIs DEF StopObserver
  <2>4. RemovedInOrder' BY <1>0, <1>3, StopOrderIs DEF StopObserver
  <2>5. /\ stopAt = 3 /\ stopAt' = 4 /\ ~realPresent'
        /\ UNCHANGED <<hookInstalled, attached, memPtr, shuttingDown, live, hbThread,
                       walkerVars, stopping, unloaded>>
    BY <1>0, <1>3, StopOrderIs DEF StopObserver
  <2>6. observing' # {} => observing # {} BY <1>3 DEF StopObserver
  <2>7. UsersInOrder' BY <1>0, <2>5, <2>6
  <2>8. UntouchedByFailure' BY <1>0, <2>5, <2>6
  <2> QED BY <2>1, <2>2, <2>3, <2>4, <2>7, <2>8
<1>4. CASE StopHeartbeat(step)
  <2>1. LifecycleTypeOK' BY StopTypeOK
  <2>2. StopIsLast' BY <1>0, <1>4, StopOrderIs DEF StopHeartbeat
  <2>3. BuiltInOrder' BY <1>0, <1>4, StopOrderIs DEF StopHeartbeat
  <2>4. RemovedInOrder' BY <1>0, <1>4, StopOrderIs DEF StopHeartbeat
  <2>5. UsersInOrder' BY <1>0, <1>4, StopOrderIs DEF StopHeartbeat
  <2>6. UntouchedByFailure' BY <1>0, <1>4, StopOrderIs DEF StopHeartbeat
  <2> QED BY <2>1, <2>2, <2>3, <2>4, <2>5, <2>6
<1>5. CASE StopObject(step)
  <2>1. LifecycleTypeOK' BY StopTypeOK
  <2>2. StopIsLast' BY <1>0, <1>5, StopOrderIs DEF StopObject
  <2>3. BuiltInOrder' BY <1>0, <1>5, StopOrderIs DEF StopObject
  <2>4. RemovedInOrder' BY <1>0, <1>5, StopOrderIs DEF StopObject
  <2>5. UsersInOrder' BY <1>0, <1>5, StopOrderIs DEF StopObject
  <2>6. UntouchedByFailure' BY <1>0, <1>5, StopOrderIs DEF StopObject
  <2> QED BY <2>1, <2>2, <2>3, <2>4, <2>5, <2>6
<1>6. CASE StopWalker(step)
  <2>1. LifecycleTypeOK' BY StopTypeOK
  <2>2. StopIsLast'
    BY <1>0, <1>6, StopOrderIs
    DEF StopWalker, WalkerShutdownStep, WalkerStops, WalkerWakes, WalkerJoins, WalkerDeletes
  <2>3. BuiltInOrder'
    BY <1>0, <1>6, StopOrderIs
    DEF StopWalker, WalkerShutdownStep, WalkerStops, WalkerWakes, WalkerJoins, WalkerDeletes
  <2>4. RemovedInOrder'
    BY <1>0, <1>6, StopOrderIs
    DEF StopWalker, WalkerShutdownStep, WalkerStops, WalkerWakes, WalkerJoins, WalkerDeletes
  <2>5. UsersInOrder'
    BY <1>0, <1>6, StopOrderIs
    DEF StopWalker, WalkerShutdownStep, WalkerStops, WalkerWakes, WalkerJoins, WalkerDeletes
  <2>6. UntouchedByFailure'
    BY <1>0, <1>6, StopOrderIs
    DEF StopWalker, WalkerShutdownStep, WalkerStops, WalkerWakes, WalkerJoins, WalkerDeletes
  <2> QED BY <2>1, <2>2, <2>3, <2>4, <2>5, <2>6
<1> QED BY <1>1, <1>2, <1>3, <1>4, <1>5, <1>6 DEF StopStep

\* The end of StopPatch, and DllMain at the end of the DLL or of the process.
LEMMA DetachInv ==
    ASSUME LifecycleInv, StopEnds \/ DetachUnload \/ DetachExit
    PROVE  LifecycleInv'
<1> USE DEF LifecycleInv, LifecycleTypeOK, StopIsLast, BuiltInOrder, RemovedInOrder,
            UsersInOrder, UntouchedByFailure, Building, Objects, Working, hookVars,
            observerVars, stopVars, walkerVars, HookObjects, KeptObjects, Observers
<1>1. CASE StopEnds
  <2>1. LifecycleTypeOK' BY <1>1, StopTypeOK
  <2>2. StopIsLast' BY <1>1, StopOrderIs DEF StopEnds
  <2>3. BuiltInOrder' BY <1>1, StopOrderIs DEF StopEnds
  <2>4. RemovedInOrder' BY <1>1, StopOrderIs DEF StopEnds
  <2>5. UsersInOrder' BY <1>1, StopOrderIs DEF StopEnds
  <2>6. UntouchedByFailure' BY <1>1, StopOrderIs DEF StopEnds
  <2> QED BY <2>1, <2>2, <2>3, <2>4, <2>5, <2>6
<1>2. CASE DetachUnload
  <2>1. LifecycleTypeOK' BY <1>2 DEF DetachUnload, At, CallStopPatch
  <2>2. StopIsLast' BY <1>2 DEF DetachUnload, At, CallStopPatch
  <2>3. BuiltInOrder' BY <1>2 DEF DetachUnload, At, CallStopPatch
  <2>4. RemovedInOrder' BY <1>2 DEF DetachUnload, At, CallStopPatch
  <2>5. UsersInOrder' BY <1>2 DEF DetachUnload, At, CallStopPatch
  <2>6. UntouchedByFailure' BY <1>2 DEF DetachUnload, At, CallStopPatch
  <2> QED BY <2>1, <2>2, <2>3, <2>4, <2>5, <2>6
<1>3. CASE DetachExit
  <2>1. LifecycleTypeOK' BY <1>3 DEF DetachExit
  <2>2. StopIsLast' BY <1>3 DEF DetachExit
  <2>3. BuiltInOrder' BY <1>3 DEF DetachExit
  <2>4. RemovedInOrder' BY <1>3 DEF DetachExit
  <2>5. UsersInOrder' BY <1>3 DEF DetachExit
  <2>6. UntouchedByFailure' BY <1>3 DEF DetachExit
  <2> QED BY <2>1, <2>2, <2>3, <2>4, <2>5, <2>6
<1> QED BY <1>1, <1>2, <1>3

\* The worker of the stack walker.
LEMMA WorkerInv ==
    ASSUME LifecycleInv, WorkerRuns
    PROVE  LifecycleInv'
<1> USE DEF LifecycleInv, LifecycleTypeOK, StopIsLast, BuiltInOrder, RemovedInOrder,
            UsersInOrder, UntouchedByFailure, Building, Objects, Working, hookVars,
            observerVars, stopVars, walkerVars, HookObjects, KeptObjects, Observers
<1> QED BY DEF WorkerRuns, WorkerStep, WorkerWaits, WorkerTakes, WorkerLogs, WorkerDrains,
               WorkerGoes, lifeVars

\* The heartbeat at the end of a world.
LEMMA HeartInv ==
    ASSUME LifecycleInv, HeartRuns
    PROVE  LifecycleInv'
<1> USE DEF LifecycleInv, LifecycleTypeOK, StopIsLast, BuiltInOrder, RemovedInOrder,
            UsersInOrder, UntouchedByFailure, Building, Objects, Working, hookVars,
            observerVars, stopVars, walkerVars, HookObjects, KeptObjects, Observers
<1> USE DEF HeartRuns, HeartTests, HeartDumps
<1>1. LifecycleTypeOK' OBVIOUS
<1>2. StopIsLast' OBVIOUS
<1>3. BuiltInOrder' OBVIOUS
<1>4. RemovedInOrder' OBVIOUS
<1>5. UsersInOrder' OBVIOUS
<1>6. UntouchedByFailure' OBVIOUS
<1> QED BY <1>1, <1>2, <1>3, <1>4, <1>5, <1>6

\* A game thread in a capture or in an allocation hook.
LEMMA CallerInv ==
    ASSUME LifecycleInv, NEW c \in Callers, GameEnters(c) \/ CallerRuns(c)
    PROVE  LifecycleInv'
<1> USE DEF LifecycleInv, LifecycleTypeOK, StopIsLast, BuiltInOrder, RemovedInOrder,
            UsersInOrder, UntouchedByFailure, Building, Objects, Working, hookVars,
            observerVars, stopVars, walkerVars, HookObjects, KeptObjects, Observers
<1> USE DEF Become, lifeVars
<1>1. CASE PresentCaptures(c) BY <1>1 DEF PresentCaptures, CaptureBegins
<1>2. CASE HookEntered(c) BY <1>2 DEF HookEntered, Enters
<1>3. CASE PresentEntered(c) BY <1>3 DEF PresentEntered, Enters
<1>4. CASE TallyEntered(c) BY <1>4 DEF TallyEntered, Enters
<1>5. CASE CallerRuns(c)
  <2>1. CASE CaptureStep(c)
    BY <1>5, <2>1 DEF CallerRuns, CaptureStep, CapturePush, CaptureRelease, CaptureAstray
  <2>2. CASE HookedStep(c) BY <1>5, <2>2 DEF CallerRuns, HookedStep, Leaves
  <2> QED BY <1>5, <2>1, <2>2 DEF CallerRuns
<1> QED BY <1>1, <1>2, <1>3, <1>4, <1>5 DEF GameEnters

\* Every step of the DLL and of the game threads in it keeps the order.
LEMMA LifecycleInvariance == LifecycleInv /\ [LifecycleNext]_lifecycleVars => LifecycleInv'
<1> SUFFICES ASSUME LifecycleInv, [LifecycleNext]_lifecycleVars PROVE LifecycleInv'
  OBVIOUS
<1>1. CASE LifecycleNext
  BY <1>1, StartPatchInv, StopInv, DetachInv, HeartInv, WorkerInv, CallerInv DEF LifecycleNext
<1>2. CASE UNCHANGED lifecycleVars
  BY <1>2 DEF LifecycleInv, LifecycleTypeOK, StopIsLast, BuiltInOrder, RemovedInOrder,
              UsersInOrder, UntouchedByFailure, Working, lifecycleVars, lifeVars, hookVars,
              observerVars, stopVars, walkerVars
<1> QED BY <1>1, <1>2

\* To the DLL, a session is one of its own behaviours.
LEMMA SessionIsLifecycle == [SessionNext]_sessionVars => [LifecycleNext]_lifecycleVars
BY DEF SessionNext, sessionVars, LauncherRuns, GameRuns, DllLoaded, GameOver, DllRuns,
       WorkerTurn, CallerTurn, LifecycleNext

\* LifecycleInv holds in every session.
LEMMA SessionLifecycleInv == SessionSpec => []LifecycleInv
<1>1. SessionInit => LifecycleInv BY InitLifecycleInv DEF SessionInit
<1>2. LifecycleInv /\ [SessionNext]_sessionVars => LifecycleInv'
  BY LifecycleInvariance, SessionIsLifecycle
<1> QED BY <1>1, <1>2, PTL DEF SessionSpec

\* No phase of the start-up and no step of StopPatch takes an object from the
\* heartbeat, a hook, an observer or the worker that still uses it, s_diagCS at
\* an unload excepted.
THEOREM UsersOutlivedAlways == SessionSpec => []UsersOutlived
<1>1. LifecycleInv => UsersOutlived
  <2> SUFFICES ASSUME LifecycleInv PROVE UsersOutlived
    OBVIOUS
  <2> QED
    BY DEF LifecycleInv, LifecycleTypeOK, StopIsLast, RemovedInOrder, UsersInOrder,
           UntouchedByFailure, UsersOutlived, Exists, Working
<1> QED BY <1>1, SessionLifecycleInv, PTL

\* From whichever phase of the start-up StopPatch was called, it leaves no
\* thread, and no hook that leads to what is left.
THEOREM StopLeavesNoUserAlways == SessionSpec => []StopLeavesNoUser
<1>1. LifecycleInv => StopLeavesNoUser
  <2> SUFFICES ASSUME LifecycleInv, stopping = "done" PROVE StopLeavesNoUser
    BY DEF StopLeavesNoUser
  <2> USE DEF LifecycleInv, LifecycleTypeOK, StopIsLast
  <2>1. stopAt = 12 OBVIOUS
  <2>2. live \subseteq KeptObjects \cup HookObjects BY <2>1 DEF RemovedInOrder, Objects
  <2>3. walker = "none" BY <2>1 DEF RemovedInOrder
  <2>4. ~Working /\ hbThread \in {"none", "astray"} BY <2>1, <2>3 DEF UsersInOrder, Working
  <2>5. attached \/ observing # {} =>
            /\ unloaded /\ shuttingDown /\ ~memPtr /\ ~realPresent
            /\ live \subseteq KeptObjects
    BY <2>1, <2>2 DEF UsersInOrder, UntouchedByFailure
  <2> QED BY <2>2, <2>3, <2>4, <2>5 DEF StopLeavesNoUser
<1> QED BY <1>1, SessionLifecycleInv, PTL

\* A StopPatch after a failed start-up meets no game thread inside a hook or a
\* capture: only DllMain's unload can take the objects from under one.
THEOREM StrandedOnlyByUnloadAlways == SessionSpec => []StrandedOnlyByUnload
<1>1. LifecycleInv => StrandedOnlyByUnload
  BY DEF LifecycleInv, LifecycleTypeOK, UntouchedByFailure, StrandedOnlyByUnload
<1> QED BY <1>1, SessionLifecycleInv, PTL
=============================================================================
