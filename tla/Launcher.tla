------------------------------- MODULE Launcher -------------------------------
(***************************************************************************)
(* TS3Launcher: it finds the game and the DLL beside itself and either     *)
(* creates the game with the DLL in its import table (DIRECT) or waits for *)
(* a game that others start and injects the DLL with a remote thread that  *)
(* calls LoadLibraryA (MONITOR).                                           *)
(*                                                                         *)
(* The game may end at any moment; one game process is modelled.  What     *)
(* the remote thread does is Windows' loader, seen from the launcher: it   *)
(* may be held up for as long as the game holds the loader lock, then      *)
(* reads the path in the remote buffer, maps the DLL and runs DllMain.     *)
(***************************************************************************)
EXTENDS Naturals

CONSTANT MaxPolls       \* GAME_TIMEOUT_SEC in polls of PROCESS_POLL_MS

ASSUME LauncherAssumption == MaxPolls \in Nat \ {0}

VARIABLES mode,         \* "direct", "monitor" or "none": the game's exe
          dllFile,      \* one of DLL_CANDIDATES is in the folder
          lpc,          \* where main is; "ok" and "failed" are its exit codes
          polls,        \* polls of WaitForProcess so far
          game,         \* "none", "running" or "gone"
          buffer,       \* remoteBuf: "none", "empty", "written" or "freed"
          loader,       \* the thread in LoadLibraryA: "none", "started",
                        \* "mapping", "loaded", "refused", "killed"
          exitCode,     \* of the thread: "unread", "null" or "module"
          timedOut,     \* ghost: the wait for it timed out
          strayRead     \* ghost: it read the path after the buffer was freed

setupVars  == <<mode, dllFile>>
remoteVars == <<buffer, loader, exitCode, timedOut, strayRead>>
launcherVars == <<setupVars, lpc, polls, game, remoteVars>>

LauncherInit ==
    /\ mode \in {"direct", "monitor", "none"} /\ dllFile \in BOOLEAN
    /\ game \in IF mode = "monitor" THEN {"none", "running"} ELSE {"none"}
    /\ lpc = "start" /\ polls = 0
    /\ buffer = "none" /\ loader = "none" /\ exitCode = "unread"
    /\ timedOut = FALSE /\ strayRead = FALSE

-----------------------------------------------------------------------------
(* main *)

Step(from, to) == lpc = from /\ lpc' = to

\* A launcher without the game's exe or the DLL gives up, and so does one that
\* cannot tell its own directory.
GiveUp ==
    /\ Step("start", "failed")
    /\ UNCHANGED <<setupVars, polls, game, remoteVars>>

ChooseMode ==
    /\ mode # "none" /\ dllFile
    /\ Step("start", IF mode = "direct" THEN "create" ELSE "find")
    /\ UNCHANGED <<setupVars, polls, game, remoteVars>>

\* DetourCreateProcessWithDllExA, which leaves no process behind if it fails:
\* the DLL loads with the imports of the new process.
CreateGame ==
    /\ \/ Step("create", "failed") /\ UNCHANGED <<game, loader>>
       \/ Step("create", "ok") /\ game' = "running" /\ loader' = "mapping"
    /\ UNCHANGED <<setupVars, polls, buffer, exitCode, timedOut, strayRead>>

\* A game that runs already is injected into; otherwise the EA launcher is
\* started, if it is there, and the game is waited for.
FindGame ==
    /\ Step("find", IF game = "running" THEN "settle" ELSE "watch")
    /\ UNCHANGED <<setupVars, polls, game, remoteVars>>

\* One round of WaitForProcess.
WaitForProcess ==
    /\ \/ polls = MaxPolls /\ Step("watch", "failed") /\ UNCHANGED polls
       \/ polls < MaxPolls /\ game = "running" /\ Step("watch", "settle") /\ polls' = 0
       \/ polls < MaxPolls /\ game # "running" /\ Step("watch", "watch")
          /\ polls' = polls + 1
    /\ UNCHANGED <<setupVars, game, remoteVars>>

\* The pause before the injection.
Settle == Step("settle", "open") /\ UNCHANGED <<setupVars, polls, game, remoteVars>>

-----------------------------------------------------------------------------
(* InjectDLL *)

\* The calls on the game's process may fail, and do when it is gone.
OpenGame ==
    /\ \/ game = "running" /\ Step("open", "alloc")
       \/ Step("open", "failed")
    /\ UNCHANGED <<setupVars, polls, game, remoteVars>>

AllocPath ==
    /\ \/ game = "running" /\ Step("alloc", "write") /\ buffer' = "empty"
       \/ Step("alloc", "failed") /\ UNCHANGED buffer
    /\ UNCHANGED <<setupVars, polls, game, loader, exitCode, timedOut, strayRead>>

\* Mutant: an early return forgets the buffer.
WritePathLeaks ==
    /\ \/ game = "running" /\ Step("write", "thread") /\ buffer' = "written"
       \/ Step("write", "failed") /\ UNCHANGED buffer
    /\ UNCHANGED <<setupVars, polls, game, loader, exitCode, timedOut, strayRead>>

\* WriteProcessMemory; a LoadLibraryA that is not found ends the same way.
WritePath ==
    /\ \/ game = "running" /\ Step("write", "thread") /\ buffer' = "written"
       \/ Step("write", "failed") /\ buffer' = "freed"
    /\ UNCHANGED <<setupVars, polls, game, loader, exitCode, timedOut, strayRead>>

StartLoader ==
    /\ \/ /\ game = "running" /\ Step("thread", "wait")
          /\ loader' = "started" /\ UNCHANGED buffer
       \/ Step("thread", "failed") /\ buffer' = "freed" /\ UNCHANGED loader
    /\ UNCHANGED <<setupVars, polls, game, exitCode, timedOut, strayRead>>

LoaderEnded == loader \in {"loaded", "refused", "killed"}

\* Mutant: the wait has no timeout.
WaitForLoaderInfinite ==
    /\ Step("wait", "code") /\ LoaderEnded
    /\ UNCHANGED <<setupVars, polls, game, remoteVars>>

\* WaitForSingleObject ends with the thread or after ten seconds.
WaitForLoader ==
    /\ Step("wait", "code")
    /\ timedOut' = ~LoaderEnded
    /\ UNCHANGED <<setupVars, polls, game, buffer, loader, exitCode, strayRead>>

\* Mutant: a thread that is still running is no success.
ReadExitCodeStrict ==
    /\ Step("code", "release")
    /\ exitCode' = IF loader = "loaded" THEN "module" ELSE "null"
    /\ UNCHANGED <<setupVars, polls, game, buffer, loader, timedOut, strayRead>>

\* GetExitCodeThread: the module, null, STILL_ACTIVE of a thread that has not
\* ended (which is not null), or the exit code of the process it died with.
ReadExitCode ==
    /\ Step("code", "release")
    /\ exitCode' \in CASE loader = "refused" -> {"null"}
                       [] loader = "killed"  -> {"null", "module"}
                       [] OTHER              -> {"module"}
    /\ UNCHANGED <<setupVars, polls, game, buffer, loader, timedOut, strayRead>>

\* The buffer goes whether or not the thread is done with it.
ReleasePath ==
    /\ Step("release", IF exitCode = "null" THEN "failed" ELSE "ok")
    /\ buffer' = "freed"
    /\ UNCHANGED <<setupVars, polls, game, loader, exitCode, timedOut, strayRead>>

LauncherStep ==
    \/ GiveUp \/ ChooseMode \/ CreateGame \/ FindGame \/ WaitForProcess \/ Settle
    \/ OpenGame \/ AllocPath \/ WritePath \/ StartLoader \/ WaitForLoader
    \/ ReadExitCode \/ ReleasePath

-----------------------------------------------------------------------------
(* The game and its loader *)

\* The user or the EA launcher starts the game.
GameAppears ==
    /\ mode = "monitor" /\ game = "none" /\ game' = "running"
    /\ UNCHANGED <<setupVars, lpc, polls, remoteVars>>

GameGoes ==
    /\ game' = "gone"
    /\ loader' = IF loader \in {"started", "mapping"} THEN "killed" ELSE loader

GameEnds ==
    /\ game = "running" /\ GameGoes
    /\ UNCHANGED <<setupVars, lpc, polls, buffer, exitCode, timedOut, strayRead>>

\* A freed buffer is a fault, or other data that is no path of the DLL.
LoaderReadsPath ==
    /\ game = "running" /\ loader = "started"
    /\ \/ buffer = "written" /\ loader' = "mapping" /\ UNCHANGED <<game, strayRead>>
       \/ /\ buffer # "written" /\ strayRead' = TRUE
          /\ GameGoes \/ (loader' = "refused" /\ UNCHANGED game)
    /\ UNCHANGED <<setupVars, lpc, polls, buffer, exitCode, timedOut>>

\* LoadLibraryA returns null; a process with a missing import does not start.
LoaderRefuses ==
    /\ game = "running" /\ loader = "mapping"
    /\ IF mode = "direct" THEN GameGoes ELSE loader' = "refused" /\ UNCHANGED game
    /\ UNCHANGED <<setupVars, lpc, polls, buffer, exitCode, timedOut, strayRead>>

LoaderLoads ==
    /\ game = "running" /\ loader = "mapping" /\ loader' = "loaded"
    /\ UNCHANGED <<setupVars, lpc, polls, game, buffer, exitCode, timedOut, strayRead>>

LauncherNext == LauncherStep \/ GameAppears \/ GameEnds \/ LoaderReadsPath
                \/ LoaderRefuses \/ LoaderLoads

LauncherSpec == LauncherInit /\ [][LauncherNext]_launcherVars /\ WF_launcherVars(LauncherStep)

-----------------------------------------------------------------------------
(* Properties *)

\* The exit code of the launcher is true: a failure leaves no DLL in a running
\* game, and a success means that the DLL is in, unless the launcher stopped
\* waiting for the loader or the game died on it; the DLL of a game that was
\* created with it may still be loading.
ExitCodeTellsTruth ==
    /\ lpc = "failed" /\ game = "running" => loader \in {"none", "refused"}
    /\ lpc = "ok" /\ game = "running" /\ ~timedOut =>
           loader = "loaded" \/ (mode = "direct" /\ loader = "mapping")

\* The loader finds the path that was written for it, unless the launcher gave
\* up waiting and took the buffer away; and a launcher that has ended, on any
\* of the error paths too, leaves no buffer in the game.
PathBufferHandled ==
    /\ strayRead => timedOut
    /\ lpc \in {"ok", "failed"} => buffer \in {"none", "freed"}
=============================================================================
