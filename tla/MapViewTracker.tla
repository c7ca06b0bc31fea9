---------------------------- MODULE MapViewTracker ----------------------------
(***************************************************************************)
(* The list of mapped files in the inventory of views: at most MaxFiles    *)
(* names.  A name is looked for without the lock, then again under m_cs    *)
(* before it is appended; the count of the list goes up before the name of *)
(* the new slot is written, so a search without the lock sees it blank.    *)
(*                                                                         *)
(* A slot stores the first 79 characters of a name and is compared with    *)
(* the whole name, so a longer one is never found again.  The counters of  *)
(* views and bytes are left out, and so is the table of resource types,    *)
(* which is only touched under m_cs.                                       *)
(***************************************************************************)
EXTENDS Naturals, Sequences, FiniteSets

CONSTANTS Viewers,      \* threads that map views
          Names,        \* base names of mapped files
          LongNames,    \* those that do not fit into a slot
          MaxFiles      \* kMaxFiles

ASSUME TrackerAssumption == LongNames \subseteq Names /\ MaxFiles \in Nat \ {0}

VARIABLES files,        \* the names in m_files[0 .. m_fileCount - 1]
          csOwner,      \* the viewer inside m_cs, if there is one
          tracking,     \* a viewer's step: "none", "search", "lock" or "name"
          name          \* the name it records

trackerVars == <<files, csOwner, tracking, name>>

Blank == <<"blank">>

TrackerInit ==
    /\ files = <<>> /\ csOwner = {}
    /\ tracking = [v \in Viewers |-> "none"]
    /\ name = [v \in Viewers |-> Blank]

Tracks(v, step) ==
    /\ tracking' = [tracking EXCEPT ![v] = step]
    /\ name' = IF step = "none" THEN [name EXCEPT ![v] = Blank] ELSE name

\* RecordView of a file with a name, and RecordFileName.
RecordView(v, n) ==
    /\ tracking[v] = "none" /\ tracking' = [tracking EXCEPT ![v] = "search"]
    /\ name' = [name EXCEPT ![v] = n]
    /\ UNCHANGED <<files, csOwner>>

\* What strncpy_s with _TRUNCATE leaves in the slot.
Stored(n) == <<IF n \in LongNames THEN "cut" ELSE "whole", n>>
Listed(n) == \E i \in DOMAIN files : files[i] = <<"whole", n>>

\* The search without the lock.
SearchUnlocked(v) ==
    /\ tracking[v] = "search"
    /\ Tracks(v, IF Listed(name[v]) THEN "none" ELSE "lock")
    /\ UNCHANGED <<files, csOwner>>

\* Mutant: the name is not looked for again.
InsertUnchecked(v) ==
    /\ tracking[v] = "lock" /\ csOwner = {}
    /\ \/ /\ Len(files) < MaxFiles /\ files' = Append(files, Blank)
          /\ csOwner' = {v} /\ Tracks(v, "name")
       \/ Len(files) = MaxFiles /\ Tracks(v, "none") /\ UNCHANGED <<files, csOwner>>

\* Under m_cs: found by now, appended, or dropped because the list is full.
InsertLocked(v) ==
    /\ tracking[v] = "lock" /\ csOwner = {}
    /\ \/ /\ ~Listed(name[v]) /\ Len(files) < MaxFiles
          /\ files' = Append(files, Blank)
          /\ csOwner' = {v} /\ Tracks(v, "name")
       \/ /\ Listed(name[v]) \/ Len(files) = MaxFiles
          /\ Tracks(v, "none") /\ UNCHANGED <<files, csOwner>>

\* Still inside m_cs, which lets nobody else append: the slot is the last.
WriteName(v) ==
    /\ tracking[v] = "name" /\ Tracks(v, "none")
    /\ files' = [files EXCEPT ![Len(files)] = Stored(name[v])]
    /\ csOwner' = {}

TrackerStep(v) == SearchUnlocked(v) \/ InsertLocked(v) \/ WriteName(v)

-----------------------------------------------------------------------------
(* Properties *)

\* A file is listed once, however the searches without the lock meet the
\* insertions, unless its name does not fit into a slot.
FileListedOnce ==
    \A i, j \in DOMAIN files : files[i] = files[j] /\ i # j => files[i][1] = "cut"
=============================================================================
