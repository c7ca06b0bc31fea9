----------------------------- MODULE PackageScan -----------------------------
(***************************************************************************)
(* Counting the packages that carry scripts.  A package is loaded by       *)
(* ReadFile or by mapping a view of it, on any thread; both hooks share    *)
(* ScriptScanDedup, and the map-view hook keeps the inventory of module    *)
(* MapViewTracker as well.                                                 *)
(*                                                                         *)
(* The ReadFile hook marks every package and then opens the file itself to *)
(* look for scripts, which may fail.  The map-view hooks look first, at    *)
(* the view they are given, and mark a package only when the view shows a  *)
(* script.  A package is known by the key of its base name: the ANSI key   *)
(* of a view and the wide key of a read agree for an ASCII name.           *)
(***************************************************************************)
EXTENDS ScriptScanDedup, MapViewTracker

CONSTANTS Packages,     \* files with a package extension
          Scripted,     \* those with a script resource
          KeyA, KeyW,   \* KeyFromBaseNameA, KeyFromBaseNameW of their names
          NameOf        \* their base names

ASSUME PackageAssumption ==
    /\ Viewers = Threads /\ Scripted \subseteq Packages /\ Packages # {}
    /\ KeyA \in [Packages -> Keys] /\ KeyW \in [Packages -> Keys]
    /\ NameOf \in [Packages -> Names]

VARIABLES site,         \* the hook a thread is in: "none", "read", "map" or "nt"
          package,      \* the package it handles
          stage,        \* "none", "mark", "scan", "record" or "leave"
          inHook,       \* the TLS in-hook flag
          counted,      \* Script_Packages, by package
          visited,      \* ghost: scripted packages a hook has met the script of
          scanFailed    \* ghost: packages whose side-scan failed

scanVars == <<site, package, stage, inHook, counted, visited, scanFailed>>
packageVars == <<dedupVars, trackerVars, scanVars>>

\* What package holds outside a hook.
SomePackage == CHOOSE p \in Packages : TRUE

ScanInit ==
    /\ DedupInit /\ TrackerInit
    /\ site = [t \in Threads |-> "none"] /\ stage = [t \in Threads |-> "none"]
    /\ package = [t \in Threads |-> SomePackage]
    /\ inHook = [t \in Threads |-> FALSE]
    /\ counted = [p \in Packages |-> 0]
    /\ visited = {} /\ scanFailed = {}

-----------------------------------------------------------------------------
(* Entering a hook *)

Goto(t, s) == stage' = [stage EXCEPT ![t] = s] /\ UNCHANGED <<site, package>>

\* The hook returns, and its locals are gone.
Return(t) ==
    /\ stage' = [stage EXCEPT ![t] = "none"]
    /\ site' = [site EXCEPT ![t] = "none"]
    /\ package' = [package EXCEPT ![t] = SomePackage]

Count(p) == counted' = [counted EXCEPT ![p] = @ + 1]
Visit(p) == visited' = visited \cup ({p} \cap Scripted)

Enter(t, s, p, first) ==
    /\ stage[t] = "none" /\ tracking[t] = "none"
    /\ stage' = [stage EXCEPT ![t] = first]
    /\ site' = [site EXCEPT ![t] = s]
    /\ package' = [package EXCEPT ![t] = p]

\* Hooked_ReadFile, for a read that returned data.
ReadFile(t, p) ==
    /\ Enter(t, "read", p, "mark")
    /\ MarkOnceEnter(t, KeyW[p]) /\ Visit(p)
    /\ UNCHANGED <<trackerVars, inHook, counted, scanFailed>>

\* Hooked_MapViewOfFile and -Ex, for a view of the whole file, and
\* Hooked_NtMapViewOfSection, for any view.  The first clear the flag again
\* on the way out; their nested Nt call passes through.
MapView(t, s, p, first) ==
    /\ ~inHook[t] /\ inHook' = [inHook EXCEPT ![t] = TRUE]
    /\ Enter(t, s, p, first)
    /\ UNCHANGED <<trackerVars, scanFailed>>

\* What follows ProbeScriptAssembly: the Nt hook records the view.
Probed(t) == Goto(t, IF site[t] = "nt" THEN "record" ELSE "leave")

\* ProbeScriptAssembly: the view shows a script, and the package is marked.
MapScriptView(t, s, p) ==
    /\ p \in Scripted /\ MapView(t, s, p, "mark")
    /\ MarkOnceEnter(t, KeyA[p]) /\ Visit(p)
    /\ UNCHANGED <<counted>>

\* A view that shows no script: the package has none, or its index lies
\* outside the view.  (A view that shows one but has no name is counted without
\* a mark, and stays outside the model.)
MapOtherView(t, s, p) ==
    /\ MapView(t, s, p, IF s = "nt" THEN "record" ELSE "leave")
    /\ UNCHANGED <<dedupVars, counted, visited>>

-----------------------------------------------------------------------------
(* After MarkOnce *)

\* Mutant: the answer of MarkOnce is taken for its opposite.
AfterMarkInverted(t, new) ==
    IF ~new THEN IF site[t] = "read" THEN Goto(t, "scan") /\ UNCHANGED counted
                                     ELSE Probed(t) /\ Count(package[t])
            ELSE /\ IF site[t] = "read" THEN Return(t) ELSE Probed(t)
                 /\ UNCHANGED counted

\* Mutant: the side-scan runs for every read of a package.
AfterMarkScansAlways(t, new) ==
    IF site[t] = "read" THEN Goto(t, "scan") /\ UNCHANGED counted
                        ELSE Probed(t) /\ IF new THEN Count(package[t]) ELSE UNCHANGED counted

\* A package that is new is side-scanned by the read and counted by the probe.
AfterMark(t, new) ==
    IF new THEN IF site[t] = "read" THEN Goto(t, "scan") /\ UNCHANGED counted
                                    ELSE Probed(t) /\ Count(package[t])
           ELSE /\ IF site[t] = "read" THEN Return(t) ELSE Probed(t)
                /\ UNCHANGED counted

\* A step of MarkOnce; its last one has the answer.
MarkStep(t) ==
    /\ stage[t] = "mark" /\ DedupStep(t)
    /\ \/ pc'[t] # "idle" /\ UNCHANGED <<site, package, stage, counted>>
       \/ pc'[t] = "idle" /\ AfterMark(t, seen' = seen)
    /\ UNCHANGED <<trackerVars, inHook, visited, scanFailed>>

\* ScanPackageForScript opens the file itself and counts what it finds; it
\* finds nothing when it cannot open or read the file, or when the script lies
\* past the entries it looks at.
ScanPackageForScript(t) ==
    /\ stage[t] = "scan" /\ Return(t)
    /\ \/ /\ IF package[t] \in Scripted THEN Count(package[t]) ELSE UNCHANGED counted
          /\ UNCHANGED scanFailed
       \/ scanFailed' = scanFailed \cup {package[t]} /\ UNCHANGED counted
    /\ UNCHANGED <<dedupVars, trackerVars, inHook, visited>>

\* The Nt hook hands the view to the inventory and returns with the flag set.
RecordPackageView(t) ==
    /\ stage[t] = "record" /\ Return(t)
    /\ RecordView(t, NameOf[package[t]])
    /\ UNCHANGED <<dedupVars, inHook, counted, visited, scanFailed>>

LeaveMapView(t) ==
    /\ stage[t] = "leave" /\ Return(t)
    /\ inHook' = [inHook EXCEPT ![t] = FALSE]
    /\ UNCHANGED <<dedupVars, trackerVars, counted, visited, scanFailed>>

InventoryStep(t) == TrackerStep(t) /\ UNCHANGED <<dedupVars, scanVars>>

HookBegins(t) ==
    \E p \in Packages :
        \/ ReadFile(t, p)
        \/ \E s \in {"map", "nt"} : MapScriptView(t, s, p) \/ MapOtherView(t, s, p)

HookGoesOn(t) == MarkStep(t) \/ ScanPackageForScript(t) \/ RecordPackageView(t)
                 \/ LeaveMapView(t) \/ InventoryStep(t)

ScanNext == \E t \in Threads : HookBegins(t) \/ HookGoesOn(t)

ScanSpec == ScanInit /\ [][ScanNext]_packageVars

-----------------------------------------------------------------------------
(* Properties *)

KeysOf(p) == {Remap(KeyA[p]), Remap(KeyW[p])}
SameKey(p, q) == KeysOf(p) \cap KeysOf(q) # {}
Busy(p) == \E t \in Threads : stage[t] # "none" /\ SameKey(package[t], p)

\* A package whose two keys agree is counted once, whichever load paths see it
\* and however they interleave, unless a probe window was full.
CountedOnce ==
    \A p \in Packages :
        counted[p] <= 1 \/ KeyA[p] # KeyW[p]
                        \/ \E k \in KeysOf(p) : pressed[k] > 0

\* A script a hook has met is counted when the hooks are through with it,
\* unless a side-scan failed under its key or another package took the key.
CountedInTheEnd ==
    \A p \in visited : Busy(p) \/ counted[p] > 0
        \/ \E q \in Packages : SameKey(p, q) /\ (q # p \/ q \in scanFailed)
=============================================================================
