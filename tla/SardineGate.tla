------------------------------ MODULE SardineGate ------------------------------
(***************************************************************************)
(* Which small heap requests may go to a shard.  A heap is classified by   *)
(* the module of the caller that is seen on it first, and the module of    *)
(* the caller of each request is looked up as well, because drivers share  *)
(* heaps with other code.  Both tables only grow; they are searched        *)
(* without a lock and extended under s_heapUseCS.                          *)
(*                                                                         *)
(* The thread's cache of the last heap answers what the table would, since *)
(* an entry never changes, and is left out.  So are modules that are       *)
(* unloaded: a cached range stays, whatever is loaded there next.  Code    *)
(* that belongs to no module is none of the callers here.                  *)
(***************************************************************************)
EXTENDS Naturals, FiniteSets

CONSTANTS GameThreads,
          ProcessHeaps,     \* the heaps the game calls the functions with
          Modules,          \* modules that call the heap functions
          Graphics, Audio,  \* IsGraphicsModule, IsAudioModule
          MaxHeaps,         \* kHeapUseMax
          MaxModules        \* kCallerModMax

VARIABLES heapUse,      \* s_heapUse: the first caller's module by heap known
          callerMods,   \* s_callerMods: the modules resolved
          at,           \* a thread's step in the hook, or "game"
          request,      \* its request: [api, heap, module]
          inShards      \* ghost: the modules whose requests the shards took

gateVars == <<heapUse, callerMods, at, request, inShards>>

Requests == [api : {"RtlAllocateHeap", "HeapAlloc"}, heap : ProcessHeaps, module : Modules]
SomeRequest == CHOOSE r \in Requests : TRUE

GateInit ==
    /\ heapUse = <<>> /\ callerMods = {} /\ inShards = {}
    /\ at = [t \in GameThreads |-> "game"]
    /\ request = [t \in GameThreads |-> SomeRequest]

Goto(t, step) == at' = [at EXCEPT ![t] = step] /\ UNCHANGED request
Decline(t) == /\ at' = [at EXCEPT ![t] = "game"]
              /\ request' = [request EXCEPT ![t] = SomeRequest]
Known(h) == h \in DOMAIN heapUse

\* Hooked_RtlAllocateHeap or Hooked_HeapAlloc, for a request below 64 KB.
Enter(t, r) ==
    /\ at[t] = "game" /\ at' = [at EXCEPT ![t] = "record"]
    /\ request' = [request EXCEPT ![t] = r]
    /\ UNCHANGED <<heapUse, callerMods, inShards>>

\* RecordHeapUse, the search without the lock.
RecordHeapUse(t) ==
    /\ at[t] = "record"
    /\ Goto(t, IF Known(request[t].heap) THEN "heap" ELSE "insert")
    /\ UNCHANGED <<heapUse, callerMods, inShards>>

\* RecordHeapUse under s_heapUseCS: another thread may have been first.
InsertHeap(t) ==
    /\ at[t] = "insert" /\ Goto(t, "heap")
    /\ heapUse' = IF Known(request[t].heap) \/ Cardinality(DOMAIN heapUse) = MaxHeaps
                  THEN heapUse
                  ELSE [h \in DOMAIN heapUse \cup {request[t].heap} |->
                            IF Known(h) THEN heapUse[h] ELSE request[t].module]
    /\ UNCHANGED <<callerMods, inShards>>

HeapIsSardineExcluded(h) == Known(h) /\ heapUse[h] \in Graphics \cup Audio

CheckHeap(t) ==
    /\ at[t] = "heap"
    /\ \/ HeapIsSardineExcluded(request[t].heap) /\ Decline(t)
       \/ ~HeapIsSardineExcluded(request[t].heap) /\ Goto(t, "graphics")
    /\ UNCHANGED <<heapUse, callerMods, inShards>>

\* The caller is of no graphics module.  HeapAlloc asks no further.
NotGraphics(t) ==
    Goto(t, IF request[t].api = "HeapAlloc" THEN "take" ELSE "audio")

\* CallerIsGraphicsModule: the search without the lock.
CallerIsGraphicsModule(t) ==
    /\ at[t] = "graphics"
    /\ LET m == request[t].module
       IN  \/ m \notin callerMods /\ Goto(t, "resolve")
           \/ m \in callerMods \cap Graphics /\ Decline(t)
           \/ m \in callerMods \ Graphics /\ NotGraphics(t)
    /\ UNCHANGED <<heapUse, callerMods, inShards>>

\* The module is resolved and entered under s_heapUseCS, if there is room.
ResolveCaller(t) ==
    /\ at[t] = "resolve"
    /\ LET m == request[t].module
       IN  /\ callerMods' = IF Cardinality(callerMods) < MaxModules
                            THEN callerMods \cup {m} ELSE callerMods
           /\ \/ m \in Graphics /\ Decline(t)
              \/ m \notin Graphics /\ NotGraphics(t)
    /\ UNCHANGED <<heapUse, inShards>>

\* CallerIsAudioModule reads what CallerIsGraphicsModule has entered; a module
\* for which there was no room counts as none.
CallerIsAudioModule(t) ==
    /\ at[t] = "audio"
    /\ \/ request[t].module \in callerMods \cap Audio /\ Decline(t)
       \/ request[t].module \notin callerMods \cap Audio /\ Goto(t, "take")
    /\ UNCHANGED <<heapUse, callerMods, inShards>>

\* ProxyHeapAlloc has a block for the request, or no shard has room.
Take(t) ==
    /\ at[t] = "take" /\ Decline(t)
    /\ \/ inShards' = inShards \cup {request[t].module}
       \/ UNCHANGED inShards
    /\ UNCHANGED <<heapUse, callerMods>>

GateNext ==
    \E t \in GameThreads :
        \/ \E r \in Requests : Enter(t, r)
        \/ RecordHeapUse(t) \/ InsertHeap(t) \/ CheckHeap(t)
        \/ CallerIsGraphicsModule(t) \/ ResolveCaller(t) \/ CallerIsAudioModule(t)
        \/ Take(t)

GateSpec == GateInit /\ [][GateNext]_gateVars

-----------------------------------------------------------------------------
(* Properties *)

\* No request of a graphics driver reaches a shard, however late the driver
\* comes, whatever heap it shares and however the two tables are raced for.
GraphicsHandsOff == inShards \cap Graphics = {}

\* The same of the audio modules, which the comment on IsAudioModule promises.
AudioHandsOff == inShards \cap Audio = {}

\* Behind GraphicsHandsOff: whoever is past the test has no graphics caller.
PassedIsNoDriver ==
    /\ at \in [GameThreads -> {"game", "record", "insert", "heap", "graphics", "resolve",
                               "audio", "take"}]
    /\ request \in [GameThreads -> Requests]
    /\ \A t \in GameThreads : at[t] \in {"audio", "take"} => request[t].module \notin Graphics

GateInv == PassedIsNoDriver /\ GraphicsHandsOff
=============================================================================
