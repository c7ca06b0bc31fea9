------------------------------- MODULE Session -------------------------------
(***************************************************************************)
(* A session: the launcher brings the DLL into the game, the loader's call *)
(* of DllMain starts the life cycle of the DLL, and the end of the game    *)
(* ends both.  DllMain returns before the start-up thread has run.         *)
(***************************************************************************)
EXTENDS Launcher, Lifecycle

sessionVars == <<launcherVars, lifecycleVars>>

SessionInit == LauncherInit /\ LifecycleInit

\* LoadLibraryA, or the start of the process, maps the DLL and calls DllMain,
\* which never refuses.
DllLoaded == LoaderLoads /\ DllMainAttach

\* The end of the game, with the DLL in it or not.
GameOver ==
    /\ GameEnds
    /\ \/ process = "running" /\ DetachExit
       \/ process # "running" /\ UNCHANGED lifecycleVars

LauncherRuns == LauncherStep /\ UNCHANGED lifecycleVars

\* What goes on in the game without the DLL.
GameRuns == (GameAppears \/ LoaderReadsPath \/ LoaderRefuses) /\ UNCHANGED lifecycleVars

\* What the DLL and the game threads in it do.
DllRuns ==
    /\ \/ StartPatchStep \/ StopStep \/ StopEnds \/ DetachUnload \/ HeartRuns
       \/ \E c \in Callers : GameEnters(c)
    /\ UNCHANGED launcherVars

WorkerTurn == WorkerRuns /\ UNCHANGED launcherVars
CallerTurn(c) == CallerRuns(c) /\ UNCHANGED launcherVars

SessionNext == LauncherRuns \/ GameRuns \/ DllLoaded \/ GameOver \/ DllRuns
               \/ WorkerTurn \/ \E c \in Callers : CallerTurn(c)

\* Windows schedules the launcher, the worker and a thread inside a capture or
\* a hook; the game, its loader and the start-up may take for ever.
SessionSpec ==
    /\ SessionInit /\ [][SessionNext]_sessionVars
    /\ WF_sessionVars(LauncherRuns) /\ WF_sessionVars(WorkerTurn)
    /\ \A c \in Callers : WF_sessionVars(CallerTurn(c))

-----------------------------------------------------------------------------
(* Properties *)

\* The launcher comes to its result, whatever the game and its loader do: each
\* of its waits has a limit.  (A failure then waits for a key.)
LauncherReturns == <>(lpc \in {"ok", "failed"})
=============================================================================
