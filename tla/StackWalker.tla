----------------------------- MODULE StackWalker -----------------------------
(***************************************************************************)
(* The asynchronous stack logger: game threads put captures in a bounded   *)
(* queue and release a semaphore, one worker waits on the semaphore, takes *)
(* a capture and logs it.  A capture is only counted: its frames and its   *)
(* reason are text for the log.                                            *)
(*                                                                         *)
(* The object lives in static storage and nobody counts the game threads   *)
(* inside it, so a capture can still be under way when the destructor      *)
(* deletes m_queueCS; such a caller is "astray".                           *)
(***************************************************************************)
EXTENDS Naturals, FiniteSets

CONSTANTS Callers,      \* game threads that may capture a stack
          MaxQueue      \* MAX_QUEUE_SIZE

ASSUME StackWalkerAssumption == IsFiniteSet(Callers) /\ MaxQueue \in Nat \ {0}

VARIABLES walker,       \* s_instance: "none", "live", or the destructor's step
          walkerStop,   \* m_stop
          worker,       \* "none", "loop", "woken", "logging", "draining", "ended"
          queued,       \* m_queue.size()
          tokens,       \* the semaphore's count
          caller        \* "idle", "capturing", "queued", "astray", or in another
                        \* hook: "hooked", "presenting", "tallying" (Lifecycle)

walkerVars == <<walker, walkerStop, worker, queued, tokens, caller>>

WalkerInit ==
    /\ walker = "none" /\ walkerStop = FALSE /\ worker = "none"
    /\ queued = 0 /\ tokens = 0
    /\ caller = [c \in Callers |-> "idle"]

\* Initialize and the constructor.
WalkerInitialize ==
    /\ walker' = "live"
    /\ UNCHANGED <<walkerStop, worker, queued, tokens, caller>>

\* Start: the thread may fail to be created.
WalkerStart ==
    /\ worker' \in {"loop", "none"}
    /\ UNCHANGED <<walker, walkerStop, queued, tokens, caller>>

-----------------------------------------------------------------------------
(* CaptureAndLogStackAsync, on a game thread *)

Become(c, s) == caller' = [caller EXCEPT ![c] = s]

\* The checks: the instance, the stop flag and the worker's handle.
CaptureBegins(c) ==
    /\ caller[c] = "idle"
    /\ walker # "none" /\ ~walkerStop /\ worker # "none"
    /\ Become(c, "capturing")
    /\ UNCHANGED <<walker, walkerStop, worker, queued, tokens>>

\* Mutant: only a capture that finds the queue empty is signalled.
CapturePushFirst(c) ==
    /\ caller[c] = "capturing" /\ walker # "none"
    /\ queued' = IF queued < MaxQueue THEN queued + 1 ELSE queued
    /\ Become(c, IF queued = 0 THEN "queued" ELSE "idle")
    /\ UNCHANGED <<walker, walkerStop, worker, tokens>>

\* Under m_queueCS: a full queue drops the capture.
CapturePush(c) ==
    /\ caller[c] = "capturing" /\ walker # "none"
    /\ \/ queued < MaxQueue /\ queued' = queued + 1 /\ Become(c, "queued")
       \/ queued >= MaxQueue /\ UNCHANGED queued /\ Become(c, "idle")
    /\ UNCHANGED <<walker, walkerStop, worker, tokens>>

CaptureRelease(c) ==
    /\ caller[c] = "queued" /\ walker # "none"
    /\ tokens' = tokens + 1
    /\ Become(c, "idle")
    /\ UNCHANGED <<walker, walkerStop, worker, queued>>

\* The object is gone under the caller.
CaptureAstray(c) ==
    /\ caller[c] \in {"capturing", "queued"} /\ walker = "none"
    /\ Become(c, "astray")
    /\ UNCHANGED <<walker, walkerStop, worker, queued, tokens>>

CaptureStep(c) == CapturePush(c) \/ CaptureRelease(c) \/ CaptureAstray(c)

-----------------------------------------------------------------------------
(* ProcessQueue, the worker.  Its half-second timeout only repeats the loop. *)

WorkerGoes(s) == /\ worker' = s
                 /\ UNCHANGED <<walker, walkerStop, caller>>

WorkerWaits ==
    /\ worker = "loop"
    /\ \/ walkerStop /\ WorkerGoes("draining") /\ UNCHANGED tokens
       \/ tokens > 0 /\ tokens' = tokens - 1
          /\ WorkerGoes(IF walkerStop THEN "draining" ELSE "woken")
    /\ UNCHANGED queued

\* The request is taken under m_queueCS.
WorkerTakes ==
    /\ worker = "woken"
    /\ \/ walkerStop /\ WorkerGoes("draining") /\ UNCHANGED queued
       \/ /\ ~walkerStop
          /\ queued' = IF queued > 0 THEN queued - 1 ELSE 0
          /\ WorkerGoes(IF queued > 0 THEN "logging" ELSE "loop")
    /\ UNCHANGED tokens

\* LogRawFrames.
WorkerLogs == worker = "logging" /\ WorkerGoes("loop") /\ UNCHANGED <<queued, tokens>>

\* What is left in the queue is counted, not logged.
WorkerDrains == worker = "draining" /\ WorkerGoes("ended") /\ UNCHANGED <<queued, tokens>>

WorkerStep == WorkerWaits \/ WorkerTakes \/ WorkerLogs \/ WorkerDrains

-----------------------------------------------------------------------------
(* Shutdown and the destructor *)

WalkerStops ==
    /\ walker = "live"
    /\ walker' = "stopping" /\ walkerStop' = TRUE
    /\ UNCHANGED <<worker, queued, tokens, caller>>

WalkerWakes ==
    /\ walker = "stopping"
    /\ walker' = "joining" /\ tokens' = tokens + 1
    /\ UNCHANGED <<walkerStop, worker, queued, caller>>

\* The wait ends with the thread, or times out and the thread is terminated
\* wherever it is.
WalkerJoins ==
    /\ walker = "joining"
    /\ walker' = "joined"
    /\ worker' = IF worker = "none" THEN "none" ELSE "ended"
    /\ UNCHANGED <<walkerStop, queued, tokens, caller>>

\* The semaphore and the critical section go, then the instance.
WalkerDeletes ==
    /\ walker = "joined"
    /\ walker' = "none"
    /\ UNCHANGED <<walkerStop, worker, queued, tokens, caller>>

WalkerShutdownStep == WalkerStops \/ WalkerWakes \/ WalkerJoins \/ WalkerDeletes

-----------------------------------------------------------------------------
\* The worker's thread runs.
Working == worker \notin {"none", "ended"}
=============================================================================
