------------------------------ MODULE Heartbeat ------------------------------
(***************************************************************************)
(* The heartbeat thread and its owner.  The thread sleeps, samples the     *)
(* address space, reports, and drives the session phase machine; the owner *)
(* raises m_stopFlag, signals m_wakeEvent and waits a bounded time before  *)
(* it frees what the thread uses.                                          *)
(*                                                                         *)
(* Time is in ticks.  A sleep, a beat and the owner's wait each have a     *)
(* deadline that Tick never passes; a beat takes at most MaxBeat ticks,    *)
(* during which the owner may run.  Each beat finds some amount of free    *)
(* address space (MB) and either some new package mapping or none; a phase *)
(* change takes a second sample.  The reports a beat writes, the rolling   *)
(* rates, the milestone flags and phaseSnap only feed the log.             *)
(* inPhase and inWorld are ghosts: beats since the phase last changed, and *)
(* ticks since the world was last entered.                                 *)
(***************************************************************************)
EXTENDS Integers

CONSTANTS Levels,       \* free address space a sample can find, MB
          ShortSleep, LongSleep, ShortBeats,   \* 2000 ms, 5000 ms, 150
          MaxBeat,      \* the longest a beat takes
          StopWait,     \* 6000 ms
          MinWorld      \* kMinWorldMs

ASSUME HeartbeatAssumption ==
    /\ Levels \subseteq Nat /\ Levels # {}
    /\ ShortSleep \in Nat /\ LongSleep \in Nat /\ ShortBeats \in Nat
    /\ MaxBeat \in Nat /\ StopWait \in Nat /\ MinWorld \in Nat
    /\ ShortSleep <= LongSleep /\ LongSleep < StopWait /\ MaxBeat < StopWait

Settle == 3             \* beats a stable or quiet window takes

VARIABLES hb,           \* the thread: "none", "asleep", "beat" or "ended"
          timer,        \* ticks left of its sleep or beat
          beats,        \* beat_count, up to ShortBeats
          stopFlag, wake,
          owner,        \* Stop: "idle", "signalling", "waiting", "done"
          waitLeft,     \* ticks left of its wait
          passive,      \* WorkingHooks::IsPassiveMode
          phase, prevFree, stableStreak, quietStreak,
          entryTaken,   \* worldEntrySnapTaken
          dwell,        \* ticks since worldEntrySnap.tickMs, up to MinWorld
          inPhase, inWorld

stopVars == <<stopFlag, wake, owner, waitLeft>>
phaseVars == <<phase, prevFree, stableStreak, quietStreak, entryTaken, dwell,
               inPhase, inWorld>>
heartbeatVars == <<hb, timer, beats, passive, stopVars, phaseVars>>

AtMost(a, b) == IF a < b THEN a ELSE b

HeartbeatInit ==
    /\ hb = "none" /\ timer = 0 /\ beats = 0
    /\ stopFlag = FALSE /\ wake = FALSE /\ owner = "idle" /\ waitLeft = 0
    /\ passive \in BOOLEAN
    /\ phase = "PostInject" /\ prevFree \in Levels
    /\ stableStreak = 0 /\ quietStreak = 0
    /\ entryTaken = FALSE /\ dwell = 0 /\ inPhase = 0 /\ inWorld = 0

SleepFor == IF beats < ShortBeats THEN ShortSleep ELSE LongSleep

-----------------------------------------------------------------------------
(* Start and Stop *)

\* The thread starts and takes its baseline before its first sleep.  A flag
\* that is up before the first loop test ends it as it would after that sleep.
Start ==
    /\ hb = "none" /\ owner = "idle"
    /\ hb' = "asleep" /\ timer' = ShortSleep
    /\ UNCHANGED <<beats, passive, stopVars, phaseVars>>

\* The flag goes up first, then the event.
StopBegins ==
    /\ owner = "idle" /\ hb # "none"
    /\ stopFlag' = TRUE
    /\ owner' = "signalling"
    /\ UNCHANGED <<wake, waitLeft, hb, timer, beats, passive, phaseVars>>

\* Mutant: the wait is as long as a short sleep, as it once was.
StopWaitsShort ==
    /\ owner = "signalling"
    /\ wake' = TRUE
    /\ owner' = "waiting" /\ waitLeft' = ShortSleep
    /\ UNCHANGED <<stopFlag, hb, timer, beats, passive, phaseVars>>

StopWaits ==
    /\ owner = "signalling"
    /\ wake' = TRUE
    /\ owner' = "waiting" /\ waitLeft' = StopWait
    /\ UNCHANGED <<stopFlag, hb, timer, beats, passive, phaseVars>>

\* The wait ends with the thread or with the timeout; what the thread uses
\* is freed either way.
StopReturns ==
    /\ owner = "waiting" /\ (hb = "ended" \/ waitLeft = 0)
    /\ owner' = "done" /\ waitLeft' = 0
    /\ UNCHANGED <<stopFlag, wake, hb, timer, beats, passive, phaseVars>>

-----------------------------------------------------------------------------
(* The thread *)

\* The sleep ends, by the event or by its timeout; a raised flag ends the
\* thread.
WakeUp ==
    /\ hb = "asleep" /\ (wake \/ timer = 0)
    /\ wake' = FALSE
    /\ IF stopFlag
       THEN hb' = "ended" /\ timer' = 0 /\ UNCHANGED beats
       ELSE hb' = "beat" /\ timer' = MaxBeat /\ beats' = AtMost(beats + 1, ShortBeats)
    /\ UNCHANGED <<stopFlag, owner, waitLeft, passive, phaseVars>>

\* The while condition after a beat.
LoopOrEnd ==
    /\ hb = "beat"
    /\ hb' = IF stopFlag THEN "ended" ELSE "asleep"
    /\ timer' = IF stopFlag THEN 0 ELSE SleepFor
    /\ UNCHANGED <<beats, passive, stopVars>>

\* Observe-only mode logs two numbers and goes on.
PassiveBeat == passive /\ LoopOrEnd /\ UNCHANGED phaseVars

\* What a beat makes of its sample f and of "some package was mapped".
Stable(f) == f - prevFree > -50 /\ f - prevFree < 50
Streak(f) == IF Stable(f) THEN AtMost(stableStreak + 1, Settle) ELSE 0
Quiet(mapped) == IF mapped THEN 0 ELSE AtMost(quietStreak + 1, Settle)

\* No boundary: the sample becomes the next beat's reference.
Stay(f, mapped) ==
    /\ prevFree' = f
    /\ stableStreak' = Streak(f) /\ quietStreak' = Quiet(mapped)
    /\ inPhase' = AtMost(inPhase + 1, Settle)
    /\ UNCHANGED <<phase, entryTaken, dwell, inWorld>>

\* CaptureVasPhaseSnapshot walks the address space once more.
Snapshot == prevFree' \in Levels

\* A boundary: the reference is the snapshot, sampled again.
Enter(p, mapped) ==
    /\ phase' = p
    /\ Snapshot
    /\ stableStreak' = 0 /\ quietStreak' = Quiet(mapped)
    /\ inPhase' = 0

Settles(f, from) == phase = from /\ Streak(f) = Settle

ToMainMenu(f, mapped) ==
    /\ Settles(f, "PostInject") \/ Settles(f, "WorldExitDetected")
    /\ Enter("MainMenuStable", mapped)
    /\ UNCHANGED <<entryTaken, dwell, inWorld>>

ToWorldLoad(f, mapped) ==
    /\ phase = "MainMenuStable" /\ f - prevFree <= -200
    /\ Enter("WorldLoadDetected", mapped)
    /\ UNCHANGED <<entryTaken, dwell, inWorld>>

ToWorld(f, mapped) ==
    /\ Settles(f, "WorldLoadDetected")
    /\ Enter("PostWorldStable", mapped)
    /\ inWorld' = 0
    /\ UNCHANGED <<entryTaken, dwell>>

\* The first beat in the world takes the entry snapshot; its dwell is zero.
Dwelt == IF entryTaken THEN dwell ELSE 0
MayExit(mapped) == Dwelt >= MinWorld /\ Quiet(mapped) = Settle

\* Mutant: the entry snapshot of this world is kept for the next one.
WorldExitKeepsEntry(mapped) ==
    /\ phase' = "WorldExitDetected"
    /\ Snapshot
    /\ stableStreak' = 0 /\ quietStreak' = 0 /\ inPhase' = 0
    /\ entryTaken' = TRUE /\ UNCHANGED <<dwell, inWorld>>

\* Mutant: the stable streak is not reset at this boundary.
WorldExitKeepsStreak(mapped) ==
    /\ phase' = "WorldExitDetected"
    /\ Snapshot
    /\ quietStreak' = 0 /\ inPhase' = 0
    /\ entryTaken' = FALSE /\ dwell' = 0 /\ UNCHANGED <<inWorld, stableStreak>>

WorldExit(mapped) ==
    /\ phase' = "WorldExitDetected"
    /\ Snapshot
    /\ stableStreak' = 0 /\ quietStreak' = 0 /\ inPhase' = 0
    /\ entryTaken' = FALSE /\ dwell' = 0 /\ UNCHANGED inWorld

InWorld(f, mapped) ==
    /\ phase = "PostWorldStable"
    /\ \/ MayExit(mapped) /\ WorldExit(mapped)
       \/ /\ ~MayExit(mapped)
          /\ prevFree' = f
          /\ stableStreak' = Streak(f) /\ quietStreak' = Quiet(mapped)
          /\ entryTaken' = TRUE /\ dwell' = Dwelt
          /\ inPhase' = AtMost(inPhase + 1, Settle)
          /\ UNCHANGED <<phase, inWorld>>

NoBoundary(f) ==
    /\ phase # "PostWorldStable"
    /\ phase # "MainMenuStable" => Streak(f) < Settle
    /\ phase = "MainMenuStable" => f - prevFree > -200

\* One whole beat.
Beat ==
    /\ ~passive /\ LoopOrEnd
    /\ \E f \in Levels, mapped \in BOOLEAN :
         \/ ToMainMenu(f, mapped)
         \/ ToWorldLoad(f, mapped)
         \/ ToWorld(f, mapped)
         \/ InWorld(f, mapped)
         \/ NoBoundary(f) /\ Stay(f, mapped)

\* A tick passes; no sleep, beat or wait outlives its deadline.
Tick ==
    /\ hb \in {"asleep", "beat"} => timer > 0
    /\ ~(hb = "asleep" /\ wake)
    /\ owner = "waiting" => waitLeft > 0 /\ hb # "ended"
    /\ owner # "signalling"
    /\ timer' = IF timer > 0 THEN timer - 1 ELSE 0
    /\ waitLeft' = IF waitLeft > 0 THEN waitLeft - 1 ELSE 0
    /\ dwell' = IF entryTaken THEN AtMost(dwell + 1, MinWorld) ELSE dwell
    /\ inWorld' = IF phase = "PostWorldStable" THEN AtMost(inWorld + 1, MinWorld)
                  ELSE inWorld
    /\ UNCHANGED <<hb, beats, passive, stopFlag, wake, owner, phase, prevFree,
                   stableStreak, quietStreak, entryTaken, inPhase>>

HeartbeatNext == Start \/ StopBegins \/ StopWaits \/ StopReturns \/ WakeUp
                 \/ PassiveBeat \/ Beat \/ Tick

HeartbeatSpec == HeartbeatInit /\ [][HeartbeatNext]_heartbeatVars

-----------------------------------------------------------------------------
(* Properties *)

\* When Stop returns the thread has ended, wherever the flag and the event
\* caught it: the destructor frees what a running beat would use.
StopJoins == owner = "done" => hb = "ended"

\* A world exit is reported only after the minimum time in this world, also
\* in the second world of a session.
ExitAfterDwell ==
    [][phase' = "WorldExitDetected" /\ phase # phase' => inWorld >= MinWorld]_heartbeatVars

\* A phase that stands for a stable window begins only after three beats in
\* the phase before it: no streak is carried over a boundary.
StableTakesBeats ==
    [][phase' \in {"MainMenuStable", "PostWorldStable"} /\ phase # phase'
         => inPhase >= Settle - 1]_heartbeatVars
=============================================================================
