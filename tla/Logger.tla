-------------------------------- MODULE Logger --------------------------------
(***************************************************************************)
(* The log of the session: one file, one critical section around a write.  *)
(* The telemetry build creates the file in Init; the play build leaves it  *)
(* to the first error, outside m_logCS.  The file is opened for writing    *)
(* and shared for reading only, so a second creation fails for as long as  *)
(* a handle of the first is open, in m_hFile or nowhere.  A creation fails *)
(* for no other reason here.                                               *)
(*                                                                         *)
(* A message is its writer and a number.  The crash filter of an unhandled *)
(* exception logs its errors and shuts the logger down; the process ends   *)
(* after it, but other threads may still be inside Log.  The text, the     *)
(* console and the debugger output are left out.                           *)
(***************************************************************************)
EXTENDS Naturals, FiniteSets

CONSTANTS Writers,      \* threads that log
          MaxMessages,  \* bound: messages of a writer
          Telemetry     \* TS3VAS_TELEMETRY: the telemetry build

VARIABLES instance,     \* s_instance: "none", "live" or "gone"
          hFile,        \* m_hFile: "invalid" or "open"
          handleOpen,   \* some handle of the file is open
          logged,       \* the messages in the file
          at,           \* where a writer is: "idle", "create", "store", "lock", "astray"
          arg,          \* the handle EnsureLazyLogFile returned to it
          number,       \* of its current or last message
          crashed,      \* the writer in the crash filter
          returned      \* ghost: the errors whose Log has returned

fileVars == <<hFile, handleOpen, logged>>
loggerVars == <<instance, fileVars, at, arg, number, crashed, returned>>

LoggerInit ==
    /\ instance = "none" /\ hFile = "invalid" /\ handleOpen = FALSE /\ logged = {}
    /\ at = [w \in Writers |-> "idle"] /\ arg = [w \in Writers |-> "invalid"]
    /\ number = [w \in Writers |-> 0] /\ crashed = {} /\ returned = {}

Goes(w, to) == at' = [at EXCEPT ![w] = to]
Message(w) == <<w, number[w]>>

\* Initialize, the constructor and Init.
Initialize ==
    /\ instance = "none" /\ instance' = "live"
    /\ hFile' = IF Telemetry THEN "open" ELSE "invalid"
    /\ handleOpen' = Telemetry
    /\ UNCHANGED <<logged, at, arg, number, crashed, returned>>

-----------------------------------------------------------------------------
(* Log, for an error; Info and Warn come this far in the telemetry build only *)

LogBegins(w) ==
    /\ instance = "live" /\ at[w] = "idle" /\ number[w] < MaxMessages
    /\ number' = [number EXCEPT ![w] = @ + 1]
    /\ Goes(w, IF ~Telemetry /\ hFile = "invalid" THEN "create" ELSE "lock")
    /\ UNCHANGED <<instance, fileVars, arg, crashed, returned>>

\* EnsureLazyLogFile: CREATE_ALWAYS empties the file, unless it is open.
EnsureLazyLogFile(w) ==
    /\ at[w] = "create" /\ Goes(w, "store")
    /\ \/ /\ hFile = "open" \/ handleOpen
          /\ arg' = [arg EXCEPT ![w] = hFile]
          /\ UNCHANGED fileVars
       \/ /\ hFile = "invalid" /\ ~handleOpen
          /\ arg' = [arg EXCEPT ![w] = "open"]
          /\ handleOpen' = TRUE /\ logged' = {} /\ UNCHANGED hFile
    /\ UNCHANGED <<instance, number, crashed, returned>>

StoreHandle(w) ==
    /\ at[w] = "store" /\ Goes(w, "lock")
    /\ hFile' = arg[w]
    /\ UNCHANGED <<instance, handleOpen, logged, arg, number, crashed, returned>>

\* Under m_logCS: written if there is a file.
LogWrites(w) ==
    /\ at[w] = "lock" /\ instance = "live" /\ Goes(w, "idle")
    /\ logged' = IF hFile = "open" THEN logged \cup {Message(w)} ELSE logged
    /\ returned' = returned \cup {Message(w)}
    /\ UNCHANGED <<instance, hFile, handleOpen, arg, number, crashed>>

\* m_logCS is gone.
LogAstray(w) ==
    /\ at[w] = "lock" /\ instance = "gone" /\ Goes(w, "astray")
    /\ UNCHANGED <<instance, fileVars, arg, number, crashed, returned>>

\* LogNamed writes the line to the log and to the channel's own file; the play
\* build has no channels.
LogNamed(w) ==
    /\ Telemetry /\ instance = "live" /\ at[w] = "idle" /\ number[w] < MaxMessages
    /\ number' = [number EXCEPT ![w] = @ + 1]
    /\ logged' = IF hFile = "open" THEN logged \cup {<<w, number[w] + 1>>} ELSE logged
    /\ UNCHANGED <<instance, hFile, handleOpen, at, arg, crashed, returned>>

-----------------------------------------------------------------------------
(* The crash filter, and Shutdown *)

\* An unhandled exception on a writer's thread.
UnhandledFilter(w) ==
    /\ crashed = {} /\ instance = "live" /\ at[w] = "idle"
    /\ crashed' = {w}
    /\ UNCHANGED <<instance, fileVars, at, arg, number, returned>>

\* After its errors and Flush: ~Logger closes m_hFile and deletes m_logCS.
Shutdown(w) ==
    /\ w \in crashed /\ instance = "live" /\ at[w] = "idle" /\ number[w] > 0
    /\ instance' = "gone" /\ hFile' = "invalid"
    /\ handleOpen' = (handleOpen /\ hFile = "invalid")
    /\ UNCHANGED <<logged, at, arg, number, crashed, returned>>

LoggerNext ==
    \/ Initialize
    \/ \E w \in Writers : \/ LogBegins(w) \/ EnsureLazyLogFile(w) \/ StoreHandle(w)
                          \/ LogWrites(w) \/ LogAstray(w) \/ LogNamed(w)
                          \/ UnhandledFilter(w) \/ Shutdown(w)

LoggerSpec == LoggerInit /\ [][LoggerNext]_loggerVars

-----------------------------------------------------------------------------
(* Properties *)

\* Once an error was logged and nobody is inside Log, the file that the first
\* error created is the one m_hFile names: later errors, the crash dump among
\* them, land in it.
CrashLogKept ==
    /\ instance = "live" /\ returned # {}
    /\ \A w \in Writers : at[w] = "idle"
    => hFile = "open"
=============================================================================
