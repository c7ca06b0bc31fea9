----------------------------- MODULE CompanionGc -----------------------------
(***************************************************************************)
(* Garbage collection on request: the heartbeat's ProxyGc decides when to  *)
(* signal a named auto-reset event, and the managed companion, a thread of *)
(* the game's Mono runtime, waits on the event with a timeout, collects or *)
(* only samples, and publishes the heap size in shared memory.  Neither    *)
(* side knows whether the other exists, and either may create the event.   *)
(*                                                                         *)
(* The published size is 64 bits wide in a 32-bit process: the companion   *)
(* writes it as two words, in either order, while the heartbeat reads both *)
(* at once.  published and sinceSet are ghosts: the sizes that were        *)
(* published, and the time since the heartbeat last signalled the event.   *)
(***************************************************************************)
EXTENDS Naturals

CONSTANTS Proactive, Pressure,   \* ProxyGc's two request intervals
          BeatGap,               \* the longest time between two beats
          SampleEvery,           \* the companion's wait, 30 s
          HeapSizes,             \* sizes GC.GetTotalMemory returns
          Word                   \* 2^32

ASSUME CompanionAssumption ==
    /\ Proactive \in Nat \ {0} /\ Pressure \in Nat \ {0} /\ BeatGap \in Nat \ {0}
    /\ SampleEvery \in Nat /\ Word \in Nat \ {0}
    /\ HeapSizes \subseteq 0 .. Word - 1

VARIABLES native,       \* the heartbeat: "init", "beating" or "stopped"
          haveEvent,    \* s_gcReqEvent is not null
          haveMap,      \* s_shHeap is not null
          event,        \* the event is signalled
          sinceReq,     \* ticks since s_lastGcReqMs, capped
          beatIn,       \* ticks until the next beat at the latest
          companion,    \* "absent", "waiting", "collecting", "gone" or a publish step
          sampleIn,     \* ticks left of its wait
          size,         \* the heap size it is publishing
          low, high,    \* the two words of s_shHeap[0]
          read,         \* what the heartbeat read last
          published, sinceSet

nativeVars == <<native, haveEvent, haveMap, sinceReq, beatIn, read, sinceSet>>
companionVars == <<companion, sampleIn, size, low, high, published>>
companionGcVars == <<nativeVars, companionVars, event>>

Longest == Proactive + Pressure + BeatGap + 1
Value == high * Word + low

CompanionInit ==
    /\ native = "init" /\ haveEvent = FALSE /\ haveMap = FALSE
    /\ event = FALSE /\ sinceReq = Longest /\ beatIn = BeatGap
    /\ companion = "absent" /\ sampleIn = 0 /\ size = 0
    /\ low = 0 /\ high = 0 /\ read = 0 /\ published = {0} /\ sinceSet = 0

-----------------------------------------------------------------------------
(* ProxyGc, on the heartbeat thread *)

\* Init: the section is zeroed; either object may fail to be created.
ProxyGcInit ==
    /\ native = "init" /\ native' = "beating"
    /\ haveEvent' \in BOOLEAN /\ haveMap' \in BOOLEAN
    /\ beatIn' = BeatGap
    /\ sinceSet' = 0
    /\ UNCHANGED <<sinceReq, read, event, companionVars>>

\* Mutant: the time of the last request is noted before the interval is checked.
MaybeRequestMonoCollectNotes(pressure) ==
    LET due == haveEvent /\ sinceReq >= (IF pressure THEN Pressure ELSE Proactive)
    IN  /\ sinceReq' = IF haveEvent THEN 0 ELSE sinceReq
        /\ sinceSet' = IF due THEN 0 ELSE sinceSet
        /\ event' = (event \/ due)

\* A request is made when the interval for the current pressure is over.
MaybeRequestMonoCollect(pressure) ==
    LET due == haveEvent /\ sinceReq >= (IF pressure THEN Pressure ELSE Proactive)
    IN  /\ sinceReq' = IF due THEN 0 ELSE sinceReq
        /\ sinceSet' = IF due THEN 0 ELSE sinceSet
        /\ event' = (event \/ due)

GetScriptHeapBytes == IF haveMap THEN Value ELSE 0

\* One beat: a request, perhaps, and the read for the report.
ProxyGcBeat ==
    /\ native = "beating"
    /\ \E pressure \in BOOLEAN : MaybeRequestMonoCollect(pressure)
    /\ read' = GetScriptHeapBytes
    /\ beatIn' = BeatGap
    /\ UNCHANGED <<native, haveEvent, haveMap, companionVars>>

HeartbeatStops ==
    /\ native = "beating" /\ native' = "stopped"
    /\ UNCHANGED <<haveEvent, haveMap, sinceReq, sinceSet, beatIn, read, event,
                   companionVars>>

-----------------------------------------------------------------------------
(* The companion *)

\* The script loads: the waiter opens or creates the event, or gives up.
CompanionStarts ==
    /\ companion = "absent"
    /\ \/ companion' = "waiting" /\ sampleIn' = SampleEvery
       \/ companion' = "gone" /\ UNCHANGED sampleIn
    /\ UNCHANGED <<nativeVars, event, size, low, high, published>>

\* Mutant: the signal is taken for a timeout when both are there.
WaitSignaledLate ==
    /\ companion = "waiting" /\ event
    /\ event' = FALSE
    /\ IF sampleIn = 0 THEN companion' = "sample" ELSE companion' = "collecting"
    /\ UNCHANGED <<nativeVars, sampleIn, size, low, high, published>>

\* The event is consumed by the wait.
WaitSignaled ==
    /\ companion = "waiting" /\ event
    /\ event' = FALSE
    /\ companion' = "collecting"
    /\ UNCHANGED <<nativeVars, sampleIn, size, low, high, published>>

\* No request for SampleEvery: only sample.
WaitTimesOut ==
    /\ companion = "waiting" /\ ~event /\ sampleIn = 0
    /\ companion' = "sample"
    /\ UNCHANGED <<nativeVars, event, sampleIn, size, low, high, published>>

Wait == companion' = "waiting" /\ sampleIn' = SampleEvery

\* The heap is measured, after a collection or without one; with a mapped
\* section the size is published.  A failure goes back to the wait.
Measure ==
    /\ companion \in {"collecting", "sample"}
    /\ \/ /\ haveMap
          /\ \E n \in HeapSizes : size' = n /\ published' = published \cup {n}
          /\ companion' = "publish" /\ UNCHANGED sampleIn
       \/ Wait /\ UNCHANGED <<size, published>>
    /\ UNCHANGED <<nativeVars, event, low, high>>

\* Mutant: the second field is written at offset 4.
PublishTickAt4 ==
    /\ companion = "tick" /\ Wait
    /\ high' = 1
    /\ UNCHANGED <<nativeVars, event, size, low, published>>

PublishLow(from, to) ==
    /\ companion = from /\ companion' = to
    /\ low' = size % Word
    /\ UNCHANGED <<nativeVars, event, sampleIn, size, high, published>>

PublishHigh(from, to) ==
    /\ companion = from /\ companion' = to
    /\ high' = size \div Word
    /\ UNCHANGED <<nativeVars, event, sampleIn, size, low, published>>

\* PublishHeap: two words, then the publish time, which nobody reads.
PublishWords ==
    \/ PublishLow("publish", "high") \/ PublishHigh("high", "tick")
    \/ PublishHigh("publish", "low") \/ PublishLow("low", "tick")

PublishTick ==
    /\ companion = "tick" /\ Wait
    /\ UNCHANGED <<nativeVars, event, size, low, high, published>>

\* A tick passes; a beat and the companion's wait keep their deadlines.
TimePasses ==
    /\ native = "beating" => beatIn > 0
    /\ companion = "waiting" => sampleIn > 0 \/ event
    /\ sinceReq' = IF sinceReq < Longest THEN sinceReq + 1 ELSE Longest
    /\ sinceSet' = IF native = "beating" /\ sinceSet < Longest
                   THEN sinceSet + 1 ELSE sinceSet
    /\ beatIn' = IF native = "beating" THEN beatIn - 1 ELSE beatIn
    /\ sampleIn' = IF sampleIn > 0 THEN sampleIn - 1 ELSE 0
    /\ UNCHANGED <<native, haveEvent, haveMap, event, read, companion, size, low,
                   high, published>>

CompanionStep == WaitSignaled \/ WaitTimesOut \/ Measure \/ PublishWords \/ PublishTick

CompanionNext == ProxyGcInit \/ ProxyGcBeat \/ HeartbeatStops \/ CompanionStarts
                 \/ CompanionStep \/ TimePasses

\* The companion's thread is scheduled and a collection ends.
CompanionSpec == CompanionInit /\ [][CompanionNext]_companionGcVars
                 /\ WF_companionGcVars(CompanionStep)

-----------------------------------------------------------------------------
(* Properties *)

\* A request is never lost on a running companion, whatever it is doing when
\* the event is signalled, and neither is one made before it started.
RequestServed ==
    (event /\ companion \notin {"absent", "gone"}) ~> companion = "collecting"

\* The requests keep their cadence however the pressure changes: while the
\* heartbeat beats, the last signal is never older than the longer of the
\* two intervals and one beat.
RequestsKeepComing ==
    native = "beating" /\ haveEvent =>
        sinceSet <= BeatGap + (IF Pressure > Proactive THEN Pressure ELSE Proactive)

\* The lock-free read never reports a size that was not published, although
\* the companion writes it in two words.
ReadIsPublished == read \in published
=============================================================================
