--------------------------- MODULE HeartbeatProofs ---------------------------
(***************************************************************************)
(* What runs on the heartbeat thread.                                      *)
(*                                                                         *)
(* Part 1.  The thread and the phase machine, for every set of samples and *)
(* every sleep, wait and dwell time that HeartbeatAssumption admits.       *)
(* StopJoins is not inductive: it needs to know that an owner who waits    *)
(* has more time left than a beat under way, and that a sleeping thread    *)
(* still has its wake-up (StopInv).  ExitAfterDwell needs the entry        *)
(* snapshot to belong to this stay in the world (DwellInv), and            *)
(* StableTakesBeats that no streak is longer than the phase (StreakInv).   *)
(*                                                                         *)
(* Part 2.  The collections it requests and the heap size it reads back,   *)
(* for every interval and every set of heap sizes below one word.          *)
(***************************************************************************)
EXTENDS Heartbeat, CompanionGc, TLAPS

-----------------------------------------------------------------------------
(* Part 1.  The thread and the phase machine *)

\* The types the proofs need.
HeartbeatTypeOK ==
    /\ hb \in {"none", "asleep", "beat", "ended"}
    /\ timer \in Nat /\ waitLeft \in Nat
    /\ stopFlag \in BOOLEAN /\ wake \in BOOLEAN
    /\ owner \in {"idle", "signalling", "waiting", "done"}
    /\ entryTaken \in BOOLEAN
    /\ stableStreak \in Nat /\ dwell \in Nat /\ inPhase \in Nat /\ inWorld \in Nat

\* Where the flag, the event and the owner's wait leave the thread.
StopInv ==
    /\ hb = "beat" => timer <= MaxBeat
    /\ owner # "idle" => stopFlag /\ hb # "none"
    /\ owner = "waiting" /\ hb = "asleep" => wake /\ waitLeft > 0
    /\ owner = "waiting" /\ hb = "beat" => timer < waitLeft
    /\ owner = "done" => hb = "ended"

\* The entry snapshot belongs to this stay in the world.
DwellInv == entryTaken => phase = "PostWorldStable" /\ dwell <= inWorld

\* A stable streak lies within the phase.
StreakInv == stableStreak <= inPhase

HeartbeatInv == HeartbeatTypeOK /\ StopInv /\ DwellInv /\ StreakInv

\* A saturating counter, as the heartbeat's streaks and times are modelled.
LEMMA AtMostNat ==
    ASSUME NEW a \in Nat, NEW b \in Nat
    PROVE  /\ AtMost(a, b) \in Nat /\ AtMost(a, b) <= b /\ AtMost(a, b) <= a
           /\ \A c \in Nat : c <= a => AtMost(c, b) <= AtMost(a, b)
BY DEF AtMost

\* The thread starts, sleeps, wakes and stops: the part of a step that the
\* phase machine has no share in.
LEMMA StopSteps ==
    ASSUME HeartbeatInv,
           Start \/ StopBegins \/ StopWaits \/ StopReturns \/ WakeUp \/ PassiveBeat
    PROVE  HeartbeatInv'
<1> USE HeartbeatAssumption DEF HeartbeatInv, HeartbeatTypeOK, StopInv, DwellInv,
        StreakInv, stopVars, phaseVars
<1>1. CASE Start
  BY <1>1 DEF Start
<1>2. CASE StopBegins
  BY <1>2 DEF StopBegins
<1>3. CASE StopWaits
  BY <1>3 DEF StopWaits
<1>4. CASE StopReturns
  BY <1>4 DEF StopReturns
<1>5. CASE WakeUp
  <2>1. CASE stopFlag
    <3>1. hb' = "ended" /\ timer' = 0
      BY <1>5, <2>1 DEF WakeUp
    <3> QED BY <1>5, <3>1 DEF WakeUp
  <2>2. CASE ~stopFlag
    <3>1. /\ hb' = "beat" /\ timer' = MaxBeat /\ owner = "idle" /\ wake' = FALSE
          /\ UNCHANGED <<stopFlag, owner, waitLeft, phaseVars>>
      BY <1>5, <2>2 DEF WakeUp
    <3>2. MaxBeat \in Nat /\ MaxBeat <= MaxBeat
      OBVIOUS
    <3>3. StopInv' /\ timer' \in Nat /\ hb' = "beat"
      BY <3>1, <3>2, Zenon
    <3>4. DwellInv' /\ StreakInv'
      BY <3>1
    <3> QED BY <3>1, <3>3, <3>4
  <2> QED BY <2>1, <2>2
<1>6. CASE PassiveBeat
  BY <1>6 DEF PassiveBeat, LoopOrEnd, SleepFor
<1> QED BY <1>1, <1>2, <1>3, <1>4, <1>5, <1>6

\* A beat keeps the invariant in every branch of the phase machine.
LEMMA BeatStep ==
    ASSUME HeartbeatInv, Beat
    PROVE  HeartbeatInv'
<1> USE HeartbeatAssumption DEF HeartbeatInv, HeartbeatTypeOK
<1>1. /\ StopInv' /\ UNCHANGED <<waitLeft, stopFlag, wake, owner>>
      /\ hb' \in {"asleep", "ended"} /\ timer' \in Nat
  BY DEF Beat, LoopOrEnd, SleepFor, StopInv, stopVars
<1>2. PICK f \in Levels, mapped \in BOOLEAN :
         \/ ToMainMenu(f, mapped) \/ ToWorldLoad(f, mapped) \/ ToWorld(f, mapped)
         \/ InWorld(f, mapped) \/ (NoBoundary(f) /\ Stay(f, mapped))
  BY Zenon DEF Beat
<1>3. Streak(f) \in Nat /\ Streak(f) <= AtMost(inPhase + 1, Settle)
      /\ AtMost(inPhase + 1, Settle) \in Nat
  BY AtMostNat DEF Streak, Settle, StreakInv, AtMost
<1>4. CASE ToMainMenu(f, mapped) \/ ToWorldLoad(f, mapped)
  BY <1>1, <1>4 DEF ToMainMenu, ToWorldLoad, Enter, Settles, DwellInv, StreakInv
<1>5. CASE ToWorld(f, mapped)
  BY <1>1, <1>5 DEF ToWorld, Enter, Settles, DwellInv, StreakInv
<1>6. CASE InWorld(f, mapped)
  <2>1. CASE WorldExit(mapped)
    <3>1. ~entryTaken' /\ entryTaken' \in BOOLEAN
      BY <2>1, Zenon DEF WorldExit
    <3>2. DwellInv'
      BY <3>1, Zenon DEF DwellInv
    <3>3. StreakInv' /\ stableStreak' \in Nat /\ inPhase' \in Nat
      BY <2>1 DEF WorldExit, StreakInv
    <3>4. dwell' \in Nat /\ inWorld' \in Nat
      BY <2>1 DEF WorldExit
    <3> QED BY <1>1, <3>1, <3>2, <3>3, <3>4
  <2>2. CASE ~WorldExit(mapped)
    <3>1. /\ stableStreak' = Streak(f) /\ inPhase' = AtMost(inPhase + 1, Settle)
          /\ dwell' = Dwelt /\ phase = "PostWorldStable"
          /\ entryTaken' = TRUE /\ UNCHANGED <<phase, inWorld>>
      BY <1>6, <2>2, Zenon DEF InWorld
    <3>2. StreakInv' /\ stableStreak' \in Nat /\ inPhase' \in Nat
      BY <1>3, <3>1 DEF StreakInv
    <3>3. dwell' \in Nat /\ dwell' <= inWorld
      BY <3>1 DEF Dwelt, DwellInv
    <3> QED BY <1>1, <3>1, <3>2, <3>3 DEF DwellInv
  <2> QED BY <2>1, <2>2
<1>7. CASE NoBoundary(f) /\ Stay(f, mapped)
  BY <1>1, <1>3, <1>7 DEF NoBoundary, Stay, DwellInv, StreakInv
<1> QED BY <1>2, <1>4, <1>5, <1>6, <1>7

\* Time passes without overtaking the owner's wait.
LEMMA TickStep ==
    ASSUME HeartbeatInv, Tick
    PROVE  HeartbeatInv'
<1> USE HeartbeatAssumption DEF HeartbeatInv, HeartbeatTypeOK, Tick
<1>1. HeartbeatTypeOK'
  <2>1. dwell' \in Nat
    BY AtMostNat
  <2>2. inWorld' \in Nat
    BY AtMostNat
  <2>3. timer' \in Nat /\ waitLeft' \in Nat
    OBVIOUS
  <2> QED BY <2>1, <2>2, <2>3
<1>2. StopInv'
  BY DEF StopInv
<1>3. DwellInv'
  BY AtMostNat DEF DwellInv
<1>4. StreakInv'
  BY DEF StreakInv
<1> QED BY <1>1, <1>2, <1>3, <1>4

\* HeartbeatInv is an invariant of the heartbeat thread and its owner.
THEOREM HeartbeatInvariance == HeartbeatSpec => []HeartbeatInv
<1>1. HeartbeatInit => HeartbeatInv
  <2> SUFFICES ASSUME HeartbeatInit PROVE HeartbeatInv
    OBVIOUS
  <2>1. HeartbeatTypeOK
    BY DEF HeartbeatInit, HeartbeatTypeOK
  <2>2. StopInv /\ DwellInv
    BY DEF HeartbeatInit, StopInv, DwellInv
  <2>3. StreakInv
    BY DEF HeartbeatInit, StreakInv
  <2> QED BY <2>1, <2>2, <2>3 DEF HeartbeatInv
<1>2. HeartbeatInv /\ [HeartbeatNext]_heartbeatVars => HeartbeatInv'
  <2> SUFFICES ASSUME HeartbeatInv, [HeartbeatNext]_heartbeatVars
               PROVE  HeartbeatInv'
    OBVIOUS
  <2>1. CASE UNCHANGED heartbeatVars
    BY <2>1 DEF heartbeatVars, stopVars, phaseVars, HeartbeatInv, HeartbeatTypeOK,
       StopInv, DwellInv, StreakInv
  <2>2. CASE HeartbeatNext
    BY <2>2, StopSteps, BeatStep, TickStep DEF HeartbeatNext
  <2> QED BY <2>1, <2>2
<1> QED BY <1>1, <1>2, PTL DEF HeartbeatSpec

\* Stop returns only after the thread has ended, for every sleep and every
\* beat shorter than the wait.
THEOREM StopJoinsAlways == HeartbeatSpec => []StopJoins
<1>1. HeartbeatInv => StopJoins
  BY DEF HeartbeatInv, StopInv, StopJoins
<1> QED BY <1>1, HeartbeatInvariance, PTL

\* A world exit is never reported before this world's dwell time is over.
THEOREM ExitAfterDwellAlways == HeartbeatSpec => ExitAfterDwell
<1>1. HeartbeatInv /\ [HeartbeatNext]_heartbeatVars
        => [phase' = "WorldExitDetected" /\ phase # phase' => inWorld >= MinWorld]_heartbeatVars
  <2> SUFFICES ASSUME HeartbeatInv, HeartbeatNext,
                      phase' = "WorldExitDetected", phase # phase'
               PROVE  inWorld >= MinWorld
    BY DEF heartbeatVars, phaseVars
  <2>1. Beat
    BY DEF HeartbeatNext, Start, StopBegins, StopWaits, StopReturns, WakeUp,
       PassiveBeat, Tick, phaseVars
  <2>2. PICK mapped \in BOOLEAN : MayExit(mapped)
    BY <2>1 DEF Beat, ToMainMenu, ToWorldLoad, ToWorld, Enter, InWorld, Stay
  <2> QED BY <2>2, HeartbeatAssumption
          DEF MayExit, Dwelt, HeartbeatInv, HeartbeatTypeOK, DwellInv
<1> QED BY <1>1, HeartbeatInvariance, PTL DEF HeartbeatSpec, ExitAfterDwell

\* A stable phase is entered only after three beats in the phase before it.
THEOREM StableTakesBeatsAlways == HeartbeatSpec => StableTakesBeats
<1>1. HeartbeatInv /\ [HeartbeatNext]_heartbeatVars
        => [phase' \in {"MainMenuStable", "PostWorldStable"} /\ phase # phase'
              => inPhase >= Settle - 1]_heartbeatVars
  <2> SUFFICES ASSUME HeartbeatInv, HeartbeatNext, phase # phase',
                      phase' \in {"MainMenuStable", "PostWorldStable"}
               PROVE  inPhase >= Settle - 1
    BY DEF heartbeatVars, phaseVars
  <2>1. Beat
    BY DEF HeartbeatNext, Start, StopBegins, StopWaits, StopReturns, WakeUp,
       PassiveBeat, Tick, phaseVars
  <2>2. PICK f \in Levels : Streak(f) = Settle
    BY <2>1 DEF Beat, ToMainMenu, ToWorldLoad, ToWorld, Settles, Enter, InWorld,
       WorldExit, Stay
  <2> QED BY <2>2 DEF Streak, AtMost, Settle, HeartbeatInv, HeartbeatTypeOK, StreakInv
<1> QED BY <1>1, HeartbeatInvariance, PTL DEF HeartbeatSpec, StableTakesBeats

-----------------------------------------------------------------------------
(* Part 2.  The managed companion *)

LongerInterval == IF Pressure > Proactive THEN Pressure ELSE Proactive

\* The age of the last signal never runs ahead of sinceReq, which both
\* intervals are compared with, so a beat that finds no interval over finds a
\* young signal; between two beats it ages by what beatIn has left to lose.
CadenceInv ==
    /\ sinceReq \in 0 .. Longest /\ beatIn \in 0 .. BeatGap
    /\ sinceSet \in 0 .. sinceReq
    /\ native = "init" => sinceSet = 0
    /\ native = "beating" /\ haveEvent => sinceSet + beatIn <= BeatGap + LongerInterval

\* The upper word is never written with anything but 0, and the lower word
\* with nothing but a published size.
WordsInv ==
    /\ size \in 0 .. Word - 1 /\ size \in published
    /\ high = 0 /\ low \in published /\ low \in Nat
    /\ 0 \in published /\ read \in published

CompanionInv == CadenceInv /\ WordsInv

\* A size below one word is its own lower word.
LEMMA OneWord ==
    ASSUME NEW w \in Nat \ {0}, NEW n \in 0 .. w - 1
    PROVE  n % w = n /\ n \div w = 0
OBVIOUS

\* Before ProxyGc's Init no time counts and nothing is published but 0.
LEMMA InitCompanionInv == CompanionInit => CompanionInv
<1> USE CompanionAssumption DEF CompanionInit
<1>1. CompanionInit => CadenceInv BY DEF CadenceInv, Longest
<1>2. CompanionInit => WordsInv BY DEF WordsInv
<1> QED BY <1>1, <1>2 DEF CompanionInv

\* ProxyGc's requests and the passing of time keep the cadence.
LEMMA CadenceStep ==
    ASSUME CadenceInv, CompanionNext
    PROVE  CadenceInv'
<1> USE CompanionAssumption DEF CadenceInv, Longest, LongerInterval, nativeVars
<1>1. CASE ProxyGcInit BY <1>1 DEF ProxyGcInit
<1>2. CASE ProxyGcBeat BY <1>2 DEF ProxyGcBeat, MaybeRequestMonoCollect
<1>3. CASE HeartbeatStops BY <1>3 DEF HeartbeatStops
<1>4. CASE CompanionStarts BY <1>4 DEF CompanionStarts
<1>5. CASE CompanionStep
  BY <1>5 DEF CompanionStep, WaitSignaled, WaitTimesOut, Measure, PublishWords, PublishLow,
              PublishHigh, PublishTick
<1>6. CASE TimePasses BY <1>6 DEF TimePasses
<1> QED BY <1>1, <1>2, <1>3, <1>4, <1>5, <1>6 DEF CompanionNext

\* PublishHeap's two words, in either order, and the heartbeat's read between
\* them.
LEMMA WordsStep ==
    ASSUME WordsInv, CompanionNext
    PROVE  WordsInv'
<1> USE CompanionAssumption DEF WordsInv, companionVars
<1>1. CASE ProxyGcInit BY <1>1 DEF ProxyGcInit
<1>2. CASE ProxyGcBeat
  <2>1. Value = low BY DEF Value
  <2> QED BY <1>2, <2>1 DEF ProxyGcBeat, GetScriptHeapBytes
<1>3. CASE HeartbeatStops BY <1>3 DEF HeartbeatStops
<1>4. CASE CompanionStarts BY <1>4 DEF CompanionStarts, nativeVars
<1>5. CASE CompanionStep
  <2>1. size % Word = size /\ size \div Word = 0 BY OneWord
  <2>2. CASE WaitSignaled BY <2>2 DEF WaitSignaled, nativeVars
  <2>3. CASE WaitTimesOut BY <2>3 DEF WaitTimesOut, nativeVars
  <2>4. CASE Measure BY <2>4 DEF Measure, nativeVars
  <2>5. CASE PublishWords
    BY <2>1, <2>5 DEF PublishWords, PublishLow, PublishHigh, nativeVars
  <2>6. CASE PublishTick BY <2>6 DEF PublishTick, nativeVars
  <2> QED BY <1>5, <2>2, <2>3, <2>4, <2>5, <2>6 DEF CompanionStep
<1>6. CASE TimePasses BY <1>6 DEF TimePasses
<1> QED BY <1>1, <1>2, <1>3, <1>4, <1>5, <1>6 DEF CompanionNext

\* CompanionInv holds whatever the two sides do.
LEMMA CompanionInvariance == CompanionSpec => []CompanionInv
<1>1. CompanionInv /\ [CompanionNext]_companionGcVars => CompanionInv'
  <2>1. ASSUME CompanionInv, UNCHANGED companionGcVars PROVE CompanionInv'
    BY <2>1 DEF CompanionInv, CadenceInv, WordsInv, companionGcVars, nativeVars,
                companionVars, Longest, LongerInterval
  <2> QED BY <2>1, CadenceStep, WordsStep DEF CompanionInv
<1> QED BY <1>1, InitCompanionInv, PTL DEF CompanionSpec

\* MaybeRequestMonoCollect signals the event at least once per longer interval
\* and beat, however the pressure changes between the beats.
THEOREM RequestsKeepComingAlways == CompanionSpec => []RequestsKeepComing
<1>1. CompanionInv => RequestsKeepComing
  BY CompanionAssumption DEF CompanionInv, CadenceInv, RequestsKeepComing, LongerInterval,
                             Longest
<1> QED BY <1>1, CompanionInvariance, PTL

\* GetScriptHeapBytes reports only sizes that PublishHeap was given, although
\* it may read between its two writes.
THEOREM ReadIsPublishedAlways == CompanionSpec => []ReadIsPublished
<1>1. CompanionInv => ReadIsPublished BY DEF CompanionInv, WordsInv, ReadIsPublished
<1> QED BY <1>1, CompanionInvariance, PTL
=============================================================================
