--------------------------- MODULE ScriptScanDedup ---------------------------
(***************************************************************************)
(* ScriptScanDedup::MarkOnce: an open-addressing table of 64-bit keys that *)
(* the map-view hook and the ReadFile hook share without a lock.  A probe  *)
(* reads a slot atomically and, when it was empty, tries to claim it with  *)
(* one compare-exchange; the slot may change between the two.  A thread    *)
(* that is told "new" reports the package's script resources.              *)
(***************************************************************************)
EXTENDS Integers, FiniteSets

CONSTANTS Threads,    \* game threads that run either detection site
          Keys,       \* package keys (KeyFromBaseName of a base file name)
          Slots,      \* kSlots
          MaxProbe,   \* the 64 probes of MarkOnce
          MaxMarks    \* bound on MarkOnce calls per key

ASSUME DedupAssumption ==
    /\ Slots \in Nat \ {0}
    /\ MaxProbe \in 1 .. Slots
    /\ MaxMarks \in Nat
    /\ Keys \subseteq Nat
    /\ Cardinality(Keys) \in Nat

VARIABLES table,    \* s_slots; 0 is the empty slot
          pc,       \* "idle", "read" (before the atomic read) or "claim"
          key,      \* the key a thread marks, 0 remapped to 1
          probe,    \* its probe counter
          claimed,  \* per key: calls that claimed a slot and returned "new"
          pressed,  \* per key: calls that ran out of probes and returned "new"
          seen,     \* per key: calls that returned "already recorded"
          marks     \* per key: calls made

dedupVars == <<table, pc, key, probe, claimed, pressed, seen, marks>>

\* Mutant: the key that equals the empty marker is not remapped.
RemapNone(k) == k

\* MarkOnce's remapping of the sentinel.
Remap(k) == IF k = 0 THEN 1 ELSE k
Marked == {Remap(k) : k \in Keys}

Index == 0 .. (Slots - 1)
SlotOf(k, p) == ((k % Slots) + p) % Slots

DedupInit ==
    /\ table = [i \in Index |-> 0]
    /\ pc = [t \in Threads |-> "idle"]
    /\ key = [t \in Threads |-> 0]
    /\ probe = [t \in Threads |-> 0]
    /\ claimed = [k \in Marked |-> 0]
    /\ pressed = [k \in Marked |-> 0]
    /\ seen = [k \in Marked |-> 0]
    /\ marks = [k \in Marked |-> 0]

MarkOnceEnter(t, k) ==
    /\ pc[t] = "idle" /\ marks[Remap(k)] < MaxMarks
    /\ key' = [key EXCEPT ![t] = Remap(k)]
    /\ probe' = [probe EXCEPT ![t] = 0]
    /\ pc' = [pc EXCEPT ![t] = "read"]
    /\ marks' = [marks EXCEPT ![Remap(k)] = @ + 1]
    /\ UNCHANGED <<table, claimed, pressed, seen>>

Here(t) == SlotOf(key[t], probe[t])

\* MarkOnce returns, and its locals are gone.
Leave(t) ==
    /\ pc' = [pc EXCEPT ![t] = "idle"]
    /\ key' = [key EXCEPT ![t] = 0]
    /\ probe' = [probe EXCEPT ![t] = 0]

ReturnSeen(t) ==
    /\ seen' = [seen EXCEPT ![key[t]] = @ + 1]
    /\ Leave(t)
    /\ UNCHANGED <<table, claimed, pressed, marks>>

\* Mutant: the last probe of the window is left out.
NextProbeTooFew(t) ==
    /\ IF probe[t] + 2 < MaxProbe
       THEN /\ probe' = [probe EXCEPT ![t] = @ + 1]
            /\ pc' = [pc EXCEPT ![t] = "read"]
            /\ UNCHANGED <<key, pressed>>
       ELSE /\ pressed' = [pressed EXCEPT ![key[t]] = @ + 1]
            /\ Leave(t)
    /\ UNCHANGED <<table, claimed, seen, marks>>

\* Next probe, or "new" after the last one.
NextProbe(t) ==
    /\ IF probe[t] + 1 < MaxProbe
       THEN /\ probe' = [probe EXCEPT ![t] = @ + 1]
            /\ pc' = [pc EXCEPT ![t] = "read"]
            /\ UNCHANGED <<key, pressed>>
       ELSE /\ pressed' = [pressed EXCEPT ![key[t]] = @ + 1]
            /\ Leave(t)
    /\ UNCHANGED <<table, claimed, seen, marks>>

\* The atomic read of the slot.
ReadSlot(t) ==
    /\ pc[t] = "read"
    /\ \/ table[Here(t)] = key[t] /\ ReturnSeen(t)
       \/ /\ table[Here(t)] = 0
          /\ pc' = [pc EXCEPT ![t] = "claim"]
          /\ UNCHANGED <<table, key, probe, claimed, pressed, seen, marks>>
       \/ table[Here(t)] \notin {0, key[t]} /\ NextProbe(t)

\* Mutant: the value the compare-exchange returns is not compared with the key.
ClaimSlotUnchecked(t) ==
    /\ pc[t] = "claim"
    /\ \/ /\ table[Here(t)] = 0
          /\ table' = [table EXCEPT ![Here(t)] = key[t]]
          /\ claimed' = [claimed EXCEPT ![key[t]] = @ + 1]
          /\ Leave(t)
          /\ UNCHANGED <<pressed, seen, marks>>
       \/ table[Here(t)] # 0 /\ NextProbe(t)

\* The compare-exchange of an empty slot with the key.
ClaimSlot(t) ==
    /\ pc[t] = "claim"
    /\ \/ /\ table[Here(t)] = 0
          /\ table' = [table EXCEPT ![Here(t)] = key[t]]
          /\ claimed' = [claimed EXCEPT ![key[t]] = @ + 1]
          /\ Leave(t)
          /\ UNCHANGED <<pressed, seen, marks>>
       \/ table[Here(t)] = key[t] /\ ReturnSeen(t)
       \/ table[Here(t)] \notin {0, key[t]} /\ NextProbe(t)

DedupStep(t) == ReadSlot(t) \/ ClaimSlot(t)

DedupNext == \E t \in Threads : DedupStep(t) \/ \E k \in Keys : MarkOnceEnter(t, k)

DedupSpec == DedupInit /\ [][DedupNext]_dedupVars

-----------------------------------------------------------------------------
(* Properties *)

\* The table holds only keys that were marked, and every thread is inside the
\* probe window MarkOnce allows.
DedupTypeOK ==
    /\ table \in [Index -> {0} \cup Marked]
    /\ pc \in [Threads -> {"idle", "read", "claim"}]
    /\ key \in [Threads -> {0} \cup Marked]
    /\ probe \in [Threads -> 0 .. (MaxProbe - 1)]
    /\ claimed \in [Marked -> Nat] /\ pressed \in [Marked -> Nat]
    /\ seen \in [Marked -> Nat] /\ marks \in [Marked -> Nat]
    /\ \A t \in Threads : pc[t] # "idle" => key[t] \in Marked

\* However the reads and the compare-exchanges of two threads interleave, a
\* key never occupies two slots of the table.
KeyStoredOnce ==
    \A i, j \in Index : table[i] # 0 /\ table[i] = table[j] => i = j

\* Each package is reported as new by at most one claiming call: two load
\* paths that mark the same package at the same time do not both report it.
ReportedOnce == \A k \in Marked : claimed[k] <= 1

\* A call that gave up had no slot left to use: its whole probe window is, and
\* stays, taken by other keys.  So a package is reported twice only then.
PressureMeansFull ==
    \A k \in Marked : pressed[k] > 0 =>
        \A p \in 0 .. (MaxProbe - 1) : table[SlotOf(k, p)] \notin {0, k}

\* A package that was marked and whose calls have all returned has been
\* reported: no interleaving makes every caller believe another one reports.
SomeoneReports ==
    \A k \in Marked :
        (marks[k] > 0 /\ \A t \in Threads : ~(pc[t] # "idle" /\ key[t] = k))
            => claimed[k] + pressed[k] > 0

-----------------------------------------------------------------------------
(* The inductive invariant behind these properties *)

\* A probe of k has passed slot i: it holds another key, and always will.
Passed(k, i) == table[i] \notin {0, k}

\* Every key sits on its own probe sequence, behind slots taken by others.
OnProbePath ==
    \A i \in Index : table[i] # 0 =>
        \E p \in 0 .. (MaxProbe - 1) :
            /\ i = SlotOf(table[i], p)
            /\ \A q \in 0 .. (p - 1) : Passed(table[i], SlotOf(table[i], q))

\* A thread inside MarkOnce has passed every slot before the one it is at.
ProbesPassed ==
    \A t \in Threads : pc[t] # "idle" =>
        \A q \in 0 .. (probe[t] - 1) : Passed(key[t], SlotOf(key[t], q))

\* A key has been claimed exactly when it is in the table, and only once.
ClaimsMatchTable ==
    \A k \in Marked : /\ claimed[k] \in {0, 1}
                      /\ claimed[k] = 1 <=> \E i \in Index : table[i] = k

\* A marked key has been reported, or a call for it is still under way.
ReportPending ==
    \A k \in Marked : marks[k] > 0 =>
        claimed[k] + pressed[k] > 0 \/ \E t \in Threads : pc[t] # "idle" /\ key[t] = k

DedupInv == DedupTypeOK /\ OnProbePath /\ ProbesPassed /\ ClaimsMatchTable /\ ReportPending
            /\ PressureMeansFull
=============================================================================
