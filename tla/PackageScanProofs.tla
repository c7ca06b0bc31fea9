-------------------------- MODULE PackageScanProofs --------------------------
(***************************************************************************)
(* Part 1.  MarkOnce stores a key at most once and lets exactly one caller *)
(* claim it, for any number of threads, keys, slots and probes.  The       *)
(* argument: a slot is written once, so a slot a probe has passed stays    *)
(* passed; a key therefore lies behind passed slots only, and a thread     *)
(* that finds an empty slot on its path knows its key is nowhere further   *)
(* along.                                                                  *)
(*                                                                         *)
(* Part 2.  The hooks that share MarkOnce implement its specification, and *)
(* count a package once.                                                   *)
(*                                                                         *)
(* Part 3.  The inventory of views lists a file once.                      *)
(***************************************************************************)
EXTENDS PackageScan, SequenceTheorems, TLAPS

\* Every probe stays inside the table.
LEMMA SlotInIndex ==
    ASSUME NEW k \in Nat, NEW p \in Nat
    PROVE  SlotOf(k, p) \in Index
<1>1. \A x \in Nat : x % Slots \in 0 .. (Slots - 1) BY DedupAssumption
<1>2. (k % Slots) + p \in Nat BY <1>1, DedupAssumption
<1> QED BY <1>1, <1>2 DEF SlotOf, Index

\* The remapped key is a natural number and never the empty marker.
LEMMA MarkedNonzero == \A k \in Marked : k \in Nat \ {0}
BY DedupAssumption DEF Marked, Remap

\* The table starts empty and nothing is marked.
LEMMA InitDedupInv == DedupInit => DedupInv
BY DedupAssumption, MarkedNonzero
DEF DedupInit, DedupInv, DedupTypeOK, OnProbePath, ProbesPassed, ClaimsMatchTable, ReportPending,
    PressureMeansFull

\* A thread that finds an empty slot on its path has a key that is not stored.
LEMMA EmptyMeansAbsent ==
    ASSUME DedupInv, NEW t \in Threads, pc[t] # "idle", table[Here(t)] = 0
    PROVE  \A i \in Index : table[i] # key[t]
<1> SUFFICES ASSUME NEW i \in Index, table[i] = key[t] PROVE FALSE OBVIOUS
<1>1. key[t] \in Marked /\ key[t] # 0 /\ key[t] \in Nat
  BY MarkedNonzero DEF DedupInv, DedupTypeOK
<1>2. PICK p \in 0 .. (MaxProbe - 1) :
          /\ i = SlotOf(key[t], p)
          /\ \A q \in 0 .. (p - 1) : Passed(key[t], SlotOf(key[t], q))
  BY <1>1 DEF DedupInv, OnProbePath
<1>3. probe[t] \in Nat BY DedupAssumption DEF DedupInv, DedupTypeOK
<1>4. CASE p < probe[t]
  <2>1. p \in 0 .. (probe[t] - 1) BY <1>3, <1>4, DedupAssumption
  <2> QED BY <2>1, <1>2 DEF DedupInv, ProbesPassed, Passed
<1>5. CASE p = probe[t] BY <1>1, <1>2, <1>5 DEF Here
<1>6. CASE p > probe[t]
  <2>1. probe[t] \in 0 .. (p - 1) BY <1>3, <1>6, DedupAssumption
  <2> QED BY <2>1, <1>2 DEF Passed, Here
<1> QED BY <1>3, <1>4, <1>5, <1>6, DedupAssumption
\* A key that is stored has been claimed, so "already recorded" is true.
LEMMA ReturnSeenInv ==
    ASSUME DedupInv, NEW t \in Threads, pc[t] # "idle",
           table[Here(t)] = key[t], ReturnSeen(t)
    PROVE  DedupInv'
<1> USE DedupAssumption DEF DedupInv, ReturnSeen, Leave
<1>1. key[t] \in Marked /\ key[t] \in Nat BY MarkedNonzero DEF DedupTypeOK
<1>2. Here(t) \in Index BY <1>1, SlotInIndex DEF Here, DedupTypeOK
<1>3. DedupTypeOK' BY <1>1 DEF DedupTypeOK
<1>4. OnProbePath' BY DEF OnProbePath, Passed, SlotOf
<1>5. ProbesPassed' BY DEF ProbesPassed, Passed, DedupTypeOK, SlotOf
<1>6. ClaimsMatchTable' BY DEF ClaimsMatchTable
<1>7. claimed[key[t]] = 1 BY <1>1, <1>2 DEF ClaimsMatchTable
<1>8. ReportPending'
  <2> SUFFICES ASSUME NEW k \in Marked, marks[k] > 0
               PROVE  \/ claimed[k] + pressed[k] > 0
                      \/ \E u \in Threads : pc'[u] # "idle" /\ key'[u] = k
    BY DEF ReportPending
  <2>1. CASE k = key[t] BY <1>7, <2>1 DEF DedupTypeOK
  <2>2. CASE k # key[t] BY <2>2 DEF ReportPending, DedupTypeOK
  <2> QED BY <2>1, <2>2
<1>9. PressureMeansFull' BY DEF PressureMeansFull, SlotOf
<1> QED BY <1>3, <1>4, <1>5, <1>6, <1>8, <1>9

\* A slot another key holds is passed: the next probe, or table pressure.
LEMMA NextProbeInv ==
    ASSUME DedupInv, NEW t \in Threads, pc[t] # "idle",
           table[Here(t)] \notin {0, key[t]}, NextProbe(t)
    PROVE  DedupInv'
<1> USE DedupAssumption DEF DedupInv, NextProbe, Leave
<1>1. key[t] \in Marked BY DEF DedupTypeOK
<1>2. DedupTypeOK'
  <2>1. CASE probe[t] + 1 < MaxProbe BY <1>1, <2>1 DEF DedupTypeOK
  <2>2. CASE ~(probe[t] + 1 < MaxProbe) BY <1>1, <2>2 DEF DedupTypeOK
  <2> QED BY <2>1, <2>2
<1>3. OnProbePath' BY DEF OnProbePath, Passed, SlotOf
<1>4. ProbesPassed'
  <2> SUFFICES ASSUME NEW u \in Threads, pc'[u] # "idle", NEW q \in 0 .. (probe'[u] - 1)
               PROVE  Passed(key'[u], SlotOf(key'[u], q))
    BY DEF ProbesPassed, Passed, SlotOf
  <2>0. key'[u] = key[u] BY DEF DedupTypeOK
  <2>1. CASE u # t BY <2>0, <2>1 DEF ProbesPassed, DedupTypeOK
  <2>2. CASE u = t
    <3>1. probe'[t] = probe[t] + 1 BY <2>2 DEF DedupTypeOK
    <3>2. CASE q = probe[t] BY <2>0, <2>2, <3>2 DEF Passed, Here
    <3>3. CASE q # probe[t]
      <4>1. q \in 0 .. (probe[t] - 1) BY <2>2, <3>1, <3>3 DEF DedupTypeOK
      <4> QED BY <2>0, <2>2, <4>1 DEF ProbesPassed
    <3> QED BY <3>2, <3>3
  <2> QED BY <2>1, <2>2
<1>5. ClaimsMatchTable' BY DEF ClaimsMatchTable
<1>6. ReportPending'
  <2> SUFFICES ASSUME NEW k \in Marked, marks[k] > 0
               PROVE  \/ claimed[k] + pressed'[k] > 0
                      \/ \E u \in Threads : pc'[u] # "idle" /\ key'[u] = k
    BY DEF ReportPending
  <2>1. CASE probe[t] + 1 < MaxProbe
    BY <2>1 DEF ReportPending, DedupTypeOK
  <2>2. CASE ~(probe[t] + 1 < MaxProbe)
    <3>1. CASE k = key[t] BY <2>2, <3>1 DEF DedupTypeOK
    <3>2. CASE k # key[t] BY <2>2, <3>2 DEF ReportPending, DedupTypeOK
    <3> QED BY <3>1, <3>2
  <2> QED BY <2>1, <2>2
<1>7. PressureMeansFull'
  <2> SUFFICES ASSUME NEW k \in Marked, pressed'[k] > 0, NEW p \in 0 .. (MaxProbe - 1)
               PROVE  table[SlotOf(k, p)] \notin {0, k}
    BY DEF PressureMeansFull, SlotOf
  <2>1. CASE pressed[k] > 0 BY <2>1 DEF PressureMeansFull
  <2>2. CASE ~(pressed[k] > 0)
    <3>1. k = key[t] /\ probe[t] = MaxProbe - 1 BY <2>2 DEF DedupTypeOK
    <3>2. CASE p = probe[t] BY <3>1, <3>2 DEF Here
    <3>3. CASE p # probe[t]
      <4>1. p \in 0 .. (probe[t] - 1) BY <3>1, <3>3
      <4> QED BY <3>1, <4>1 DEF ProbesPassed, Passed
    <3> QED BY <3>2, <3>3
  <2> QED BY <2>1, <2>2
<1> QED BY <1>2, <1>3, <1>4, <1>5, <1>6, <1>7

\* The compare-exchange that succeeds stores a key that was nowhere.
LEMMA ClaimInv ==
    ASSUME DedupInv, NEW t \in Threads, pc[t] = "claim", table[Here(t)] = 0,
           table' = [table EXCEPT ![Here(t)] = key[t]],
           claimed' = [claimed EXCEPT ![key[t]] = @ + 1],
           Leave(t), UNCHANGED <<pressed, seen, marks>>
    PROVE  DedupInv'
<1> USE DedupAssumption DEF DedupInv, Leave
<1> DEFINE h == Here(t)
           k == key[t]
<1>1. k \in Marked /\ k \in Nat /\ k # 0 BY MarkedNonzero DEF DedupTypeOK
<1>2. h \in Index /\ probe[t] \in 0 .. (MaxProbe - 1)
  BY <1>1, SlotInIndex DEF Here, DedupTypeOK
<1>3. \A i \in Index : table[i] # k BY EmptyMeansAbsent
<1>4. \A i \in Index : table'[i] = IF i = h THEN k ELSE table[i] BY DEF DedupTypeOK
<1>5. ASSUME NEW c \in Nat, NEW q \in Nat, Passed(c, SlotOf(c, q))
      PROVE  table'[SlotOf(c, q)] \notin {0, c}
  <2>1. SlotOf(c, q) \in Index BY SlotInIndex
  <2>2. SlotOf(c, q) # h BY <1>5 DEF Passed
  <2>3. table'[SlotOf(c, q)] = table[SlotOf(c, q)] BY <1>4, <2>1, <2>2
  <2> QED BY <1>5, <2>3 DEF Passed
<1>6. DedupTypeOK' BY <1>1, <1>2 DEF DedupTypeOK
<1>7. OnProbePath'
  <2> SUFFICES ASSUME NEW i \in Index, table'[i] # 0
               PROVE  \E p \in 0 .. (MaxProbe - 1) :
                        /\ i = SlotOf(table'[i], p)
                        /\ \A q \in 0 .. (p - 1) :
                             table'[SlotOf(table'[i], q)] \notin {0, table'[i]}
    BY DEF OnProbePath, SlotOf, Passed
  <2>1. CASE i = h
    <3>1. table'[i] = k BY <1>4, <2>1
    <3>2. \A q \in 0 .. (probe[t] - 1) : table'[SlotOf(k, q)] \notin {0, k}
      BY <1>1, <1>2, <1>5 DEF ProbesPassed
    <3>3. \A q \in 0 .. (probe[t] - 1) : table'[SlotOf(table'[i], q)] \notin {0, table'[i]}
      BY <3>1, <3>2
    <3> QED BY <1>2, <2>1, <3>1, <3>3 DEF Here
  <2>2. CASE i # h
    <3>1. table'[i] = table[i] /\ table[i] \in Nat
      BY <1>4, <2>2, MarkedNonzero DEF DedupTypeOK
    <3>2. PICK p \in 0 .. (MaxProbe - 1) :
             /\ i = SlotOf(table[i], p)
             /\ \A q \in 0 .. (p - 1) : Passed(table[i], SlotOf(table[i], q))
      BY <3>1 DEF OnProbePath
    <3>3. \A q \in 0 .. (p - 1) : table'[SlotOf(table'[i], q)] \notin {0, table'[i]}
      <4> TAKE q \in 0 .. (p - 1)
      <4>1. q \in Nat OBVIOUS
      <4>2. Passed(table[i], SlotOf(table[i], q)) BY <3>2
      <4>3. table'[SlotOf(table[i], q)] = table[SlotOf(table[i], q)]
        BY <1>4, <3>1, <4>1, <4>2, SlotInIndex DEF Passed
      <4> QED BY <3>1, <4>2, <4>3 DEF Passed, SlotOf
    <3> QED BY <3>1, <3>2, <3>3
  <2> QED BY <2>1, <2>2
<1>8. ProbesPassed'
  <2> SUFFICES ASSUME NEW u \in Threads, pc'[u] # "idle", NEW q \in 0 .. (probe[u] - 1)
               PROVE  table'[SlotOf(key[u], q)] \notin {0, key[u]}
    <3>1. \A u \in Threads : pc'[u] # "idle" => key'[u] = key[u] /\ probe'[u] = probe[u]
      BY DEF DedupTypeOK
    <3> QED BY <3>1 DEF ProbesPassed, Passed, SlotOf
  <2>1. pc[u] # "idle" /\ key[u] \in Nat /\ q \in Nat
    BY MarkedNonzero DEF DedupTypeOK
  <2>2. Passed(key[u], SlotOf(key[u], q)) BY <2>1 DEF ProbesPassed
  <2>3. table'[SlotOf(key[u], q)] = table[SlotOf(key[u], q)]
    BY <1>4, <2>1, <2>2, SlotInIndex DEF Passed
  <2> QED BY <2>2, <2>3 DEF Passed, SlotOf
<1>9. ClaimsMatchTable'
  <2> SUFFICES ASSUME NEW c \in Marked
               PROVE  /\ claimed'[c] \in {0, 1}
                      /\ claimed'[c] = 1 <=> \E i \in Index : table'[i] = c
    BY DEF ClaimsMatchTable
  <2>1. CASE c = k
    <3>1. claimed[k] = 0 BY <1>1, <1>3 DEF ClaimsMatchTable
    <3>2. claimed'[k] = 1 BY <1>1, <3>1 DEF DedupTypeOK
    <3> QED BY <1>2, <1>4, <2>1, <3>2
  <2>2. CASE c # k
    <3>1. claimed'[c] = claimed[c] BY <2>2 DEF DedupTypeOK
    <3>2. (\E i \in Index : table'[i] = c) <=> (\E i \in Index : table[i] = c)
      BY <1>2, <1>4, <2>2, MarkedNonzero
    <3> QED BY <3>1, <3>2 DEF ClaimsMatchTable
  <2> QED BY <2>1, <2>2
<1>10. ReportPending'
  <2> SUFFICES ASSUME NEW c \in Marked, marks[c] > 0
               PROVE  \/ claimed'[c] + pressed[c] > 0
                      \/ \E u \in Threads : pc'[u] # "idle" /\ key'[u] = c
    BY DEF ReportPending
  <2>1. CASE c = k BY <1>1, <2>1 DEF DedupTypeOK
  <2>2. CASE c # k BY <2>2 DEF ReportPending, DedupTypeOK
  <2> QED BY <2>1, <2>2
<1>11. PressureMeansFull'
  <2> SUFFICES ASSUME NEW c \in Marked, pressed[c] > 0, NEW p \in 0 .. (MaxProbe - 1)
               PROVE  table'[SlotOf(c, p)] \notin {0, c}
    BY DEF PressureMeansFull, SlotOf
  <2>1. c \in Nat /\ p \in Nat BY MarkedNonzero
  <2>2. Passed(c, SlotOf(c, p)) BY DEF PressureMeansFull, Passed
  <2> QED BY <1>5, <2>1, <2>2
<1> QED BY <1>6, <1>7, <1>8, <1>9, <1>10, <1>11
\* A call starts at its first probe, with nothing passed yet.
LEMMA EnterInv ==
    ASSUME DedupInv, NEW t \in Threads, NEW k \in Keys, MarkOnceEnter(t, k)
    PROVE  DedupInv'
<1> USE DedupAssumption DEF DedupInv, MarkOnceEnter
<1>1. Remap(k) \in Marked BY DEF Marked
<1>2. DedupTypeOK' BY <1>1 DEF DedupTypeOK
<1>3. OnProbePath' BY DEF OnProbePath, Passed, SlotOf
<1>4. ProbesPassed' BY DEF ProbesPassed, Passed, SlotOf, DedupTypeOK
<1>5. ClaimsMatchTable' BY DEF ClaimsMatchTable
<1>6. ReportPending'
  <2> SUFFICES ASSUME NEW c \in Marked, marks'[c] > 0
               PROVE  \/ claimed[c] + pressed[c] > 0
                      \/ \E u \in Threads : pc'[u] # "idle" /\ key'[u] = c
    BY DEF ReportPending
  <2>1. CASE c = Remap(k) BY <2>1 DEF DedupTypeOK
  <2>2. CASE c # Remap(k) BY <2>2 DEF ReportPending, DedupTypeOK
  <2> QED BY <2>1, <2>2
<1>7. PressureMeansFull' BY DEF PressureMeansFull, SlotOf
<1> QED BY <1>2, <1>3, <1>4, <1>5, <1>6, <1>7

\* The read of an empty slot changes nothing but the thread's place.
LEMMA SawEmptyInv ==
    ASSUME DedupInv, NEW t \in Threads, pc[t] = "read",
           pc' = [pc EXCEPT ![t] = "claim"],
           UNCHANGED <<table, key, probe, claimed, pressed, seen, marks>>
    PROVE  DedupInv'
<1> USE DedupAssumption DEF DedupInv
<1>1. DedupTypeOK' BY DEF DedupTypeOK
<1>2. OnProbePath' BY DEF OnProbePath, Passed, SlotOf
<1>3. ProbesPassed' BY DEF ProbesPassed, Passed, SlotOf, DedupTypeOK
<1>4. ClaimsMatchTable' BY DEF ClaimsMatchTable
<1>5. ReportPending' BY DEF ReportPending, DedupTypeOK
<1>6. PressureMeansFull' BY DEF PressureMeansFull, SlotOf
<1> QED BY <1>1, <1>2, <1>3, <1>4, <1>5, <1>6

\* DedupInv is preserved by the steps of MarkOnce, whoever calls it.
LEMMA DedupStepInv ==
    ASSUME DedupInv, [DedupNext]_dedupVars
    PROVE  DedupInv'
<1>1. ASSUME NEW t \in Threads, ReadSlot(t) PROVE DedupInv'
  BY <1>1, ReturnSeenInv, NextProbeInv, SawEmptyInv DEF ReadSlot
<1>2. ASSUME NEW t \in Threads, ClaimSlot(t) PROVE DedupInv'
  BY <1>2, ReturnSeenInv, NextProbeInv, ClaimInv DEF ClaimSlot
<1>3. ASSUME NEW t \in Threads, NEW k \in Keys, MarkOnceEnter(t, k) PROVE DedupInv'
  BY <1>3, EnterInv
<1>4. CASE UNCHANGED dedupVars
  BY <1>4 DEF dedupVars, DedupInv, DedupTypeOK, OnProbePath, ProbesPassed, Passed,
              SlotOf, ClaimsMatchTable, ReportPending, PressureMeansFull
<1> QED BY <1>1, <1>2, <1>3, <1>4 DEF DedupNext, DedupStep

\* DedupInv holds in every reachable state, for all Threads, Keys, Slots and
\* MaxProbe.
THEOREM DedupInvariance == DedupSpec => []DedupInv
<1>1. DedupInv /\ [DedupNext]_dedupVars => DedupInv' BY DedupStepInv
<1> QED BY <1>1, InitDedupInv, PTL DEF DedupSpec

\* MarkOnce's table and threads are well typed, and no probe leaves the window.
THEOREM DedupTypeCorrect == DedupSpec => []DedupTypeOK
<1>1. DedupInv => DedupTypeOK BY DEF DedupInv
<1> QED BY <1>1, DedupInvariance, PTL

\* No key ever occupies two slots of the table.
THEOREM KeyStoredOnceAlways == DedupSpec => []KeyStoredOnce
<1>1. DedupInv => KeyStoredOnce
  <2> SUFFICES ASSUME DedupInv, NEW i \in Index, NEW j \in Index,
                      table[i] # 0, table[i] = table[j]
               PROVE  i = j
    BY DEF KeyStoredOnce
  <2> USE DedupAssumption
  <2>1. PICK p \in 0 .. (MaxProbe - 1) :
           /\ i = SlotOf(table[i], p)
           /\ \A q \in 0 .. (p - 1) : Passed(table[i], SlotOf(table[i], q))
    BY DEF DedupInv, OnProbePath
  <2>2. PICK r \in 0 .. (MaxProbe - 1) :
           /\ j = SlotOf(table[i], r)
           /\ \A q \in 0 .. (r - 1) : Passed(table[i], SlotOf(table[i], q))
    BY DEF DedupInv, OnProbePath
  <2>3. CASE p < r
    <3>1. p \in 0 .. (r - 1) BY <2>3
    <3> QED BY <2>1, <2>2, <3>1 DEF Passed
  <2>4. CASE r < p
    <3>1. r \in 0 .. (p - 1) BY <2>4
    <3> QED BY <2>1, <2>2, <3>1 DEF Passed
  <2>5. CASE p = r BY <2>1, <2>2, <2>5
  <2> QED BY <2>3, <2>4, <2>5
<1> QED BY <1>1, DedupInvariance, PTL

\* At most one call claims a key, however many mark it at once.
THEOREM ReportedOnceAlways == DedupSpec => []ReportedOnce
<1>1. DedupInv => ReportedOnce BY DEF DedupInv, ClaimsMatchTable, ReportedOnce
<1> QED BY <1>1, DedupInvariance, PTL

\* Once every call for a marked key has returned, one of them reported it.
THEOREM SomeoneReportsAlways == DedupSpec => []SomeoneReports
<1>1. DedupInv => SomeoneReports BY DEF DedupInv, ReportPending, SomeoneReports
<1> QED BY <1>1, DedupInvariance, PTL

\* A call that ran out of probes left a window full of other keys behind it.
THEOREM PressureMeansFullAlways == DedupSpec => []PressureMeansFull
<1>1. DedupInv => PressureMeansFull BY DEF DedupInv
<1> QED BY <1>1, DedupInvariance, PTL

-----------------------------------------------------------------------------
(* Part 2.  The hooks *)

KeyAt(t) == Remap(IF site[t] = "read" THEN KeyW[package[t]] ELSE KeyA[package[t]])

ScanTypeOK ==
    /\ site \in [Threads -> {"none", "read", "map", "nt"}]
    /\ package \in [Threads -> Packages]
    /\ stage \in [Threads -> {"none", "mark", "scan", "record", "leave"}]
    /\ inHook \in [Threads -> BOOLEAN]
    /\ counted \in [Packages -> Nat]
    /\ visited \subseteq Scripted /\ scanFailed \subseteq Packages

\* A hook marks its package while MarkOnce runs, under the key of its site.
MarksItsKey ==
    \A t \in Threads : /\ stage[t] = "mark" <=> pc[t] # "idle"
                       /\ stage[t] = "mark" => key[t] = KeyAt(t)

Scans(t, p) == stage[t] = "scan" /\ package[t] = p

\* A package with one key has been counted, or is about to be, only on behalf
\* of the call that claimed the key, as long as no call gave up.
CountIsClaimed ==
    \A p \in Packages : KeyA[p] = KeyW[p] /\ pressed[Remap(KeyA[p])] = 0 =>
        /\ counted[p] <= claimed[Remap(KeyA[p])]
        /\ \A t \in Threads : Scans(t, p) => claimed[Remap(KeyA[p])] = 1 /\ counted[p] = 0
        /\ \A t, u \in Threads : Scans(t, p) /\ Scans(u, p) => t = u

\* No other package has a key of p.
Alone(p) == \A q \in Packages : SameKey(p, q) => q = p

\* Whoever was told that a key is new counts its package, or is about to.
NewIsCounted ==
    \A p \in Scripted \ scanFailed : \A k \in KeysOf(p) :
        Alone(p) /\ claimed[k] + pressed[k] > 0 =>
            counted[p] > 0 \/ \E t \in Threads : Scans(t, p)

\* A package that was met has been marked under one of its keys.
MetIsMarked == \A p \in visited : \E k \in KeysOf(p) : marks[k] > 0

ScanInv == DedupInv /\ ScanTypeOK /\ MarksItsKey /\ CountIsClaimed /\ NewIsCounted
           /\ MetIsMarked

\* The keys of a package are among those MarkOnce may be given.
LEMMA KeysOfMarked ==
    ASSUME NEW p \in Packages
    PROVE  KeysOf(p) \subseteq Marked
BY PackageAssumption DEF KeysOf, Marked

\* The key a scan marks next is one of its package's keys.
LEMMA KeyAtOf ==
    ASSUME ScanTypeOK, NEW t \in Threads
    PROVE  KeyAt(t) \in KeysOf(package[t])
BY DEF KeyAt, KeysOf

\* What a step of MarkOnce is to its caller: it goes on, it answers "already
\* recorded", or it answers "new" after a claim or after its last probe.
LEMMA MarkCases ==
    ASSUME DedupInv, NEW t \in Threads, DedupStep(t)
    PROVE  /\ pc[t] # "idle" /\ marks' = marks
           /\ pc' = [pc EXCEPT ![t] = pc'[t]]
           /\ key' = [key EXCEPT ![t] = key'[t]]
           /\ \/ /\ pc'[t] # "idle" /\ key' = key
                 /\ UNCHANGED <<claimed, pressed, seen>>
              \/ /\ pc'[t] = "idle" /\ seen' # seen
                 /\ UNCHANGED <<claimed, pressed>>
              \/ /\ pc'[t] = "idle" /\ seen' = seen
                 /\ \/ /\ claimed' = [claimed EXCEPT ![key[t]] = @ + 1]
                       /\ pressed' = pressed
                    \/ /\ pressed' = [pressed EXCEPT ![key[t]] = @ + 1]
                       /\ claimed' = claimed
<1> USE DEF DedupInv, DedupTypeOK
<1>1. key[t] \in Marked /\ pc[t] # "idle" BY DEF DedupStep, ReadSlot, ClaimSlot
<1>2. CASE ReturnSeen(t)
  <2>1. seen'[key[t]] = seen[key[t]] + 1 BY <1>1, <1>2 DEF ReturnSeen
  <2>2. seen[key[t]] \in Nat BY <1>1
  <2>3. seen' # seen BY <2>1, <2>2
  <2> QED BY <1>1, <1>2, <2>3 DEF ReturnSeen, Leave
<1>3. CASE NextProbe(t)
  <2>1. CASE probe[t] + 1 < MaxProbe BY <1>1, <1>3, <2>1 DEF NextProbe
  <2>2. CASE ~(probe[t] + 1 < MaxProbe) BY <1>1, <1>3, <2>2 DEF NextProbe, Leave
  <2> QED BY <2>1, <2>2
<1>4. CASE ReadSlot(t) /\ ~ReturnSeen(t) /\ ~NextProbe(t)
  BY <1>1, <1>4 DEF ReadSlot
<1>5. CASE ClaimSlot(t) /\ ~ReturnSeen(t) /\ ~NextProbe(t)
  BY <1>1, <1>5 DEF ClaimSlot, Leave
<1> QED BY <1>2, <1>3, <1>4, <1>5 DEF DedupStep

\* Every step of the hooks is a step of MarkOnce or leaves its state alone.
LEMMA ScanStepIsDedup ==
    ASSUME [ScanNext]_packageVars
    PROVE  [DedupNext]_dedupVars
<1> USE PackageAssumption
<1>1. ASSUME NEW t \in Threads, NEW p \in Packages, ReadFile(t, p) PROVE DedupNext
  BY <1>1 DEF ReadFile, DedupNext
<1>2. ASSUME NEW t \in Threads, NEW p \in Packages, NEW s, MapScriptView(t, s, p)
      PROVE  DedupNext
  BY <1>2 DEF MapScriptView, DedupNext
<1>3. ASSUME NEW t \in Threads, NEW p \in Packages, NEW s, MapOtherView(t, s, p)
      PROVE  UNCHANGED dedupVars
  BY <1>3 DEF MapOtherView
<1>4. ASSUME NEW t \in Threads, MarkStep(t) PROVE DedupNext
  BY <1>4 DEF MarkStep, DedupNext
<1>5. ASSUME NEW t \in Threads,
             ScanPackageForScript(t) \/ RecordPackageView(t) \/ LeaveMapView(t)
             \/ InventoryStep(t)
      PROVE  UNCHANGED dedupVars
  BY <1>5 DEF ScanPackageForScript, RecordPackageView, LeaveMapView, InventoryStep
<1>6. CASE UNCHANGED packageVars BY <1>6 DEF packageVars
<1> QED BY <1>1, <1>2, <1>3, <1>4, <1>5, <1>6 DEF ScanNext, HookBegins, HookGoesOn

\* The hooks together use MarkOnce as its specification says, so that what is
\* proved of the table holds whichever of them call it.
THEOREM ScanImplementsDedup == ScanSpec => DedupSpec
<1>1. ScanInit => DedupInit BY DEF ScanInit
<1>2. [ScanNext]_packageVars => [DedupNext]_dedupVars BY ScanStepIsDedup
<1> QED BY <1>1, <1>2, PTL DEF ScanSpec, DedupSpec

-----------------------------------------------------------------------------
(* One lemma per action of the hooks *)

\* The initial state of the hooks satisfies ScanInv.
LEMMA InitScanInv == ScanInit => ScanInv
<1> SUFFICES ASSUME ScanInit PROVE ScanInv OBVIOUS
<1> USE PackageAssumption DEF ScanInit
<1>1. DedupInv BY InitDedupInv
<1>2. SomePackage \in Packages BY DEF SomePackage
<1>3. ScanTypeOK BY <1>2 DEF ScanTypeOK
<1>4. MarksItsKey BY DEF MarksItsKey, DedupInit
<1>5. \A p \in Packages : Remap(KeyA[p]) \in Marked BY DEF Marked
<1>6. CountIsClaimed BY <1>5 DEF CountIsClaimed, Scans, DedupInit
<1>7. NewIsCounted
  <2>1. \A p \in Scripted : \A k \in KeysOf(p) : claimed[k] = 0 /\ pressed[k] = 0
    BY KeysOfMarked DEF DedupInit
  <2> QED BY <2>1 DEF NewIsCounted
<1>8. MetIsMarked BY DEF MetIsMarked
<1> QED BY <1>1, <1>3, <1>4, <1>6, <1>7, <1>8 DEF ScanInv

\* A hook that goes on to MarkOnce: the package is marked under a key of it.
LEMMA MarkBeginsInv ==
    ASSUME ScanInv, NEW t \in Threads, NEW p \in Packages, NEW k \in {KeyA[p], KeyW[p]},
           NEW s \in {"read", "map", "nt"}, s = "read" => k = KeyW[p], s # "read" => k = KeyA[p],
           Enter(t, s, p, "mark"), MarkOnceEnter(t, k), Visit(p),
           inHook' \in [Threads -> BOOLEAN], UNCHANGED <<counted, scanFailed>>
    PROVE  ScanInv'
<1> USE PackageAssumption DEF ScanInv, Enter
<1>0. k \in Keys /\ Remap(k) \in KeysOf(p) BY DEF KeysOf
<1>1. DedupInv' BY <1>0, DedupStepInv DEF DedupNext
<1>2. ScanTypeOK' BY DEF ScanTypeOK, Visit
<1>3. UNCHANGED <<claimed, pressed>> /\ DedupTypeOK BY DEF MarkOnceEnter, DedupInv
<1>4. MarksItsKey'
  <2> SUFFICES ASSUME NEW u \in Threads
               PROVE  /\ stage'[u] = "mark" <=> pc'[u] # "idle"
                      /\ stage'[u] = "mark" => key'[u] = KeyAt(u)'
    BY DEF MarksItsKey
  <2>1. CASE u = t
    BY <1>3, <2>1 DEF MarkOnceEnter, ScanTypeOK, DedupTypeOK, KeyAt, Remap
  <2>2. CASE u # t
    BY <1>3, <2>2 DEF MarksItsKey, MarkOnceEnter, ScanTypeOK, DedupTypeOK, KeyAt, Remap
  <2> QED BY <2>1, <2>2
<1>5. \A u \in Threads, q \in Packages : Scans(u, q)' <=> Scans(u, q)
  BY DEF Scans, ScanTypeOK
<1>6. CountIsClaimed' BY <1>3, <1>5 DEF CountIsClaimed, Remap
<1>7. NewIsCounted'
  BY <1>3, <1>5 DEF NewIsCounted, Alone, SameKey, KeysOf, Remap
<1>8. MetIsMarked'
  <2> SUFFICES ASSUME NEW q \in visited' PROVE \E c \in KeysOf(q) : marks'[c] > 0
    BY DEF MetIsMarked, KeysOf, Remap
  <2>1. Remap(k) \in Marked BY <1>0 DEF Marked
  <2>2. \A c \in Marked : marks'[c] >= marks[c] BY <1>3, <2>1 DEF MarkOnceEnter, DedupTypeOK
  <2>3. marks'[Remap(k)] > 0 BY <1>3, <2>1 DEF MarkOnceEnter, DedupTypeOK
  <2>4. CASE q \in visited
    <3>1. PICK c \in KeysOf(q) : marks[c] > 0 BY <2>4 DEF MetIsMarked
    <3>2. c \in Marked /\ marks[c] \in Nat
      BY <1>3, <2>4, KeysOfMarked DEF ScanTypeOK, DedupTypeOK
    <3>3. marks'[c] > 0 BY <2>1, <3>1, <3>2, <1>3 DEF MarkOnceEnter, DedupTypeOK
    <3> QED BY <3>3
  <2>5. CASE q \notin visited BY <1>0, <2>3, <2>5 DEF Visit
  <2> QED BY <2>4, <2>5
<1> QED BY <1>1, <1>2, <1>4, <1>6, <1>7, <1>8

\* The steps outside MarkOnce that count nothing and end no scan.
LEMMA PassesByInv ==
    ASSUME ScanInv, NEW t \in Threads, stage[t] \notin {"mark", "scan"},
           ScanTypeOK', stage' = [stage EXCEPT ![t] = stage'[t]],
           site' = [site EXCEPT ![t] = site'[t]],
           package' = [package EXCEPT ![t] = package'[t]],
           stage'[t] \notin {"mark", "scan"},
           UNCHANGED <<dedupVars, counted, visited, scanFailed>>
    PROVE  ScanInv'
<1> USE DEF ScanInv, dedupVars
<1>1. DedupInv' BY DedupStepInv
<1>2. MarksItsKey' BY DEF MarksItsKey, ScanTypeOK, KeyAt, Remap
<1>3. \A u \in Threads, q \in Packages : Scans(u, q)' <=> Scans(u, q)
  BY DEF Scans, ScanTypeOK
<1>4. CountIsClaimed' BY <1>3 DEF CountIsClaimed, Remap
<1>5. NewIsCounted'
  BY <1>3, PackageAssumption DEF NewIsCounted, Alone, SameKey, KeysOf, Remap
<1>6. MetIsMarked' BY DEF MetIsMarked, KeysOf, Remap
<1> QED BY <1>1, <1>2, <1>4, <1>5, <1>6

\* The side-scan counts the package it was started for, or fails.
LEMMA ScanPackageInv ==
    ASSUME ScanInv, NEW t \in Threads, ScanPackageForScript(t)
    PROVE  ScanInv'
<1> USE PackageAssumption DEF ScanInv, ScanPackageForScript, Return
<1> DEFINE p == package[t]
<1>0. p \in Packages /\ Scans(t, p) BY DEF ScanTypeOK, Scans
<1>1. DedupInv' BY DedupStepInv
<1>2. SomePackage \in Packages BY DEF SomePackage
<1>3. ScanTypeOK' BY <1>0, <1>2 DEF ScanTypeOK, Count
<1>4. MarksItsKey' BY DEF MarksItsKey, ScanTypeOK, KeyAt, Remap, dedupVars
<1>5. \A u \in Threads, q \in Packages : Scans(u, q)' <=> Scans(u, q) /\ u # t
  BY DEF Scans, ScanTypeOK
<1>6. \A q \in Packages : q # p => counted'[q] = counted[q]
  BY DEF Count, ScanTypeOK
<1>7. UNCHANGED <<claimed, pressed, marks>> BY DEF dedupVars
<1>8. CountIsClaimed'
  <2> SUFFICES ASSUME NEW q \in Packages, KeyA[q] = KeyW[q], pressed[Remap(KeyA[q])] = 0
               PROVE  /\ counted'[q] <= claimed[Remap(KeyA[q])]
                      /\ \A u \in Threads : Scans(u, q)' =>
                            claimed[Remap(KeyA[q])] = 1 /\ counted'[q] = 0
                      /\ \A u, v \in Threads : Scans(u, q)' /\ Scans(v, q)' => u = v
    BY <1>7 DEF CountIsClaimed, Remap
  <2>1. CASE q = p
    <3>1. claimed[Remap(KeyA[q])] = 1 /\ counted[q] = 0
      BY <1>0, <2>1 DEF CountIsClaimed
    <3>2. \A u \in Threads : ~Scans(u, q)' BY <1>0, <1>5, <2>1 DEF CountIsClaimed
    <3>3. counted'[q] \in {0, 1} BY <1>0, <2>1, <3>1 DEF Count, ScanTypeOK
    <3> QED BY <3>1, <3>2, <3>3
  <2>2. CASE q # p BY <1>5, <1>6, <2>2 DEF CountIsClaimed
  <2> QED BY <2>1, <2>2
<1>9. NewIsCounted'
  <2> SUFFICES ASSUME NEW q \in Scripted \ scanFailed', NEW k \in KeysOf(q),
                      Alone(q), claimed[k] + pressed[k] > 0
               PROVE  counted'[q] > 0 \/ \E u \in Threads : Scans(u, q)'
    BY <1>7 DEF NewIsCounted, Alone, SameKey, KeysOf, Remap
  <2>1. q \in Scripted \ scanFailed /\ q \in Packages OBVIOUS
  <2>2. CASE q = p
    <3>1. Count(p) BY <2>1, <2>2
    <3> QED BY <1>0, <2>2, <3>1 DEF Count, ScanTypeOK
  <2>3. CASE q # p
    <3>1. counted[q] > 0 \/ \E u \in Threads : Scans(u, q) BY <2>1 DEF NewIsCounted
    <3>2. \A u \in Threads : Scans(u, q) => u # t BY <2>3 DEF Scans
    <3> QED BY <1>5, <1>6, <2>1, <2>3, <3>1, <3>2
  <2> QED BY <2>2, <2>3
<1>10. MetIsMarked' BY <1>7 DEF MetIsMarked, KeysOf, Remap
<1> QED BY <1>1, <1>3, <1>4, <1>8, <1>9, <1>10

\* A step of MarkOnce inside a hook, and what the hook makes of its answer.
LEMMA MarkStepInv ==
    ASSUME ScanInv, NEW t \in Threads, MarkStep(t)
    PROVE  ScanInv'
<1> USE PackageAssumption DEF ScanInv
<1> DEFINE p == package[t]
           k == key[t]
<1>0. DedupStep(t) /\ stage[t] = "mark" /\ UNCHANGED <<inHook, visited, scanFailed>>
  BY DEF MarkStep
<1>1. DedupInv' /\ marks' = marks
  BY <1>0, DedupStepInv, MarkCases DEF DedupNext
<1>2. p \in Packages /\ k = KeyAt(t) /\ k \in KeysOf(p) /\ k \in Marked
  BY <1>0, KeyAtOf, KeysOfMarked DEF ScanTypeOK, MarksItsKey
<1>3. /\ claimed \in [Marked -> {0, 1}] /\ claimed' \in [Marked -> {0, 1}]
      /\ pressed \in [Marked -> Nat] /\ pc \in [Threads -> {"idle", "read", "claim"}]
      /\ key \in [Threads -> {0} \cup Marked]
  BY <1>1 DEF DedupInv, DedupTypeOK, ClaimsMatchTable
<1>4. MetIsMarked' BY <1>0, <1>1 DEF MetIsMarked, KeysOf, Remap
<1>5. SomePackage \in Packages BY DEF SomePackage
<1>6. \A q \in Packages : Remap(KeyA[q]) \in Marked BY DEF Marked
<1>7. \A u \in Threads : u # t => pc'[u] = pc[u] /\ key'[u] = key[u]
  BY <1>0, <1>3, MarkCases
<1>8. CASE pc'[t] # "idle"
  <2>1. UNCHANGED <<site, package, stage, counted, claimed, pressed, key>>
    BY <1>0, <1>8, MarkCases DEF MarkStep
  <2>2. ScanTypeOK' BY <1>0, <2>1 DEF ScanTypeOK
  <2>3. MarksItsKey' BY <1>0, <1>7, <1>8, <2>1 DEF MarksItsKey, KeyAt, Remap
  <2>4. CountIsClaimed' BY <2>1 DEF CountIsClaimed, Scans, Remap
  <2>5. NewIsCounted' BY <1>0, <2>1 DEF NewIsCounted, Scans, Alone, SameKey, KeysOf, Remap
  <2> QED BY <1>1, <1>4, <2>2, <2>3, <2>4, <2>5
<1>9. CASE pc'[t] = "idle" /\ seen' # seen
  <2>1. UNCHANGED <<counted, claimed, pressed>> /\ (Return(t) \/ Probed(t))
    BY <1>0, <1>9, MarkCases DEF MarkStep, AfterMark
  <2>2. ScanTypeOK' BY <1>0, <1>5, <2>1 DEF ScanTypeOK, Return, Probed, Goto
  <2>3. /\ stage'[t] \notin {"mark", "scan"}
        /\ \A u \in Threads : u # t => stage'[u] = stage[u] /\ site'[u] = site[u]
                                       /\ package'[u] = package[u]
    BY <2>1 DEF ScanTypeOK, Return, Probed, Goto
  <2>4. MarksItsKey' BY <1>7, <1>9, <2>3 DEF MarksItsKey, KeyAt, Remap
  <2>5. \A u \in Threads, q \in Packages : Scans(u, q)' <=> Scans(u, q)
    BY <1>0, <2>3 DEF Scans
  <2>6. CountIsClaimed' BY <2>1, <2>5 DEF CountIsClaimed, Remap
  <2>7. NewIsCounted'
    BY <1>0, <2>1, <2>5 DEF NewIsCounted, Alone, SameKey, KeysOf, Remap
  <2> QED BY <1>1, <1>4, <2>2, <2>4, <2>6, <2>7
<1>10. CASE pc'[t] = "idle" /\ seen' = seen
  <2>1. \/ site[t] = "read" /\ Goto(t, "scan") /\ counted' = counted
        \/ site[t] # "read" /\ Probed(t) /\ Count(p)
    BY <1>10 DEF MarkStep, AfterMark
  <2>2. ScanTypeOK' BY <1>0, <1>2, <2>1 DEF ScanTypeOK, Probed, Goto, Count
  <2>3. /\ stage'[t] # "mark" /\ UNCHANGED <<site, package>>
        /\ \A u \in Threads : u # t => stage'[u] = stage[u]
        /\ \A q \in Packages : q # p => counted'[q] = counted[q]
    BY <2>1 DEF ScanTypeOK, Probed, Goto, Count
  <2>4. MarksItsKey' BY <1>7, <1>10, <2>3 DEF MarksItsKey, KeyAt, Remap
  <2>5. \A u \in Threads, q \in Packages : u # t \/ q # p => (Scans(u, q)' <=> Scans(u, q))
    BY <1>0, <2>3 DEF Scans
  <2>6. \/ /\ claimed' = [claimed EXCEPT ![k] = @ + 1] /\ pressed' = pressed
        \/ /\ pressed' = [pressed EXCEPT ![k] = @ + 1] /\ claimed' = claimed
    BY <1>0, <1>10, MarkCases
  <2>7. CountIsClaimed'
    <3> SUFFICES ASSUME NEW q \in Packages, KeyA[q] = KeyW[q], pressed'[Remap(KeyA[q])] = 0
                 PROVE  /\ counted'[q] <= claimed'[Remap(KeyA[q])]
                        /\ \A u \in Threads : Scans(u, q)' =>
                              claimed'[Remap(KeyA[q])] = 1 /\ counted'[q] = 0
                        /\ \A u, v \in Threads : Scans(u, q)' /\ Scans(v, q)' => u = v
      BY DEF CountIsClaimed, Remap
    <3> DEFINE c == Remap(KeyA[q])
    <3>1. c \in Marked /\ pressed[c] = 0 BY <1>2, <1>3, <1>6, <2>6
    <3>2. counted[q] \in Nat /\ counted[q] <= claimed[c] BY <3>1 DEF CountIsClaimed, ScanTypeOK
    <3>3. CASE q = p
      <4>1. k = c BY <1>2, <3>3 DEF KeysOf
      <4>2. claimed[c] = 0 /\ claimed'[c] = 1 BY <1>2, <1>3, <2>6, <3>1, <4>1
      <4>3. counted[q] = 0 BY <3>2, <4>2
      <4>4. \A u \in Threads : ~Scans(u, q) BY <3>1, <4>2 DEF CountIsClaimed
      <4>5. CASE site[t] = "read" /\ Goto(t, "scan") /\ counted' = counted
        BY <2>5, <4>2, <4>3, <4>4, <4>5
      <4>6. CASE site[t] # "read" /\ Probed(t) /\ Count(p)
        <5>1. counted'[q] = 1 BY <1>2, <3>3, <4>3, <4>6 DEF Count, ScanTypeOK
        <5>2. ~Scans(t, q)' BY <4>6 DEF Scans, Probed, Goto, ScanTypeOK
        <5> QED BY <2>5, <4>2, <4>4, <5>1, <5>2
      <4> QED BY <2>1, <4>5, <4>6
    <3>4. CASE q # p
      <4>1. claimed'[c] \in {0, 1} /\ claimed[c] \in {0, 1} /\ claimed'[c] >= claimed[c]
        BY <1>2, <1>3, <2>6, <3>1
      <4> QED BY <2>3, <2>5, <3>1, <3>2, <3>4, <4>1 DEF CountIsClaimed
    <3> QED BY <3>3, <3>4
  <2>8. NewIsCounted'
    <3> SUFFICES ASSUME NEW q \in Scripted \ scanFailed, NEW c \in KeysOf(q),
                        Alone(q), claimed'[c] + pressed'[c] > 0
                 PROVE  counted'[q] > 0 \/ \E u \in Threads : Scans(u, q)'
      BY <1>0 DEF NewIsCounted, Alone, SameKey, KeysOf, Remap
    <3>1. CASE q = p
      <4>1. CASE site[t] = "read" /\ Goto(t, "scan")
        BY <2>3, <3>1, <4>1 DEF Scans, Goto, ScanTypeOK
      <4>2. CASE Count(p) BY <1>2, <3>1, <4>2 DEF Count, ScanTypeOK
      <4> QED BY <2>1, <4>1, <4>2
    <3>2. CASE q # p
      <4>1. k \notin KeysOf(q) BY <1>2, <3>2 DEF Alone, SameKey
      <4>2. c \in Marked BY KeysOfMarked
      <4>3. claimed'[c] = claimed[c] /\ pressed'[c] = pressed[c]
        BY <1>3, <2>6, <4>1, <4>2
      <4>4. counted[q] > 0 \/ \E u \in Threads : Scans(u, q) BY <4>3 DEF NewIsCounted
      <4> QED BY <2>3, <2>5, <3>2, <4>4
    <3> QED BY <3>1, <3>2
  <2> QED BY <1>1, <1>4, <2>2, <2>4, <2>7, <2>8
<1> QED BY <1>8, <1>9, <1>10

\* ScanInv holds in every reachable state, for any packages and threads.
THEOREM ScanInvariance == ScanSpec => []ScanInv
<1>1. ScanInv /\ [ScanNext]_packageVars => ScanInv'
  <2> SUFFICES ASSUME ScanInv, [ScanNext]_packageVars PROVE ScanInv' OBVIOUS
  <2> USE DEF ScanInv
  <2>0. SomePackage \in Packages BY PackageAssumption DEF SomePackage
  <2>1. ASSUME NEW t \in Threads, NEW p \in Packages, ReadFile(t, p) PROVE ScanInv'
    <3>1. inHook' \in [Threads -> BOOLEAN] BY <2>1 DEF ReadFile, ScanTypeOK
    <3> QED BY <2>1, <3>1, MarkBeginsInv DEF ReadFile
  <2>2. ASSUME NEW t \in Threads, NEW p \in Packages, NEW s \in {"map", "nt"},
               MapScriptView(t, s, p)
        PROVE  ScanInv'
    <3>1. inHook' \in [Threads -> BOOLEAN] BY <2>2 DEF MapScriptView, MapView, ScanTypeOK
    <3> QED BY <2>2, <3>1, MarkBeginsInv DEF MapScriptView, MapView
  <2>3. ASSUME NEW t \in Threads, NEW p \in Packages, NEW s \in {"map", "nt"},
               MapOtherView(t, s, p)
        PROVE  ScanInv'
    <3>1. ScanTypeOK' BY <2>3 DEF MapOtherView, MapView, Enter, ScanTypeOK
    <3> QED BY <2>3, <3>1, PassesByInv DEF MapOtherView, MapView, Enter, ScanTypeOK
  <2>4. ASSUME NEW t \in Threads, RecordPackageView(t) PROVE ScanInv'
    <3>1. ScanTypeOK' BY <2>0, <2>4 DEF RecordPackageView, Return, ScanTypeOK
    <3> QED BY <2>4, <3>1, PassesByInv DEF RecordPackageView, Return, ScanTypeOK
  <2>5. ASSUME NEW t \in Threads, LeaveMapView(t) PROVE ScanInv'
    <3>1. ScanTypeOK' BY <2>0, <2>5 DEF LeaveMapView, Return, ScanTypeOK
    <3> QED BY <2>5, <3>1, PassesByInv DEF LeaveMapView, Return, ScanTypeOK
  <2>6. CASE UNCHANGED <<dedupVars, scanVars>>
    <3>1. DedupInv' BY <2>6, DedupStepInv
    <3> QED BY <2>6, <3>1
            DEF dedupVars, scanVars, ScanTypeOK, MarksItsKey, KeyAt, Remap, CountIsClaimed, Scans,
                NewIsCounted, Alone, SameKey, KeysOf, MetIsMarked
  <2> QED BY <2>1, <2>2, <2>3, <2>4, <2>5, <2>6, MarkStepInv, ScanPackageInv
          DEF ScanNext, HookBegins, HookGoesOn, InventoryStep, packageVars
<1> QED BY <1>1, InitScanInv, PTL DEF ScanSpec

\* A package whose two keys agree is counted once, whichever load paths see
\* it, unless MarkOnce ran out of probes for it.
THEOREM CountedOnceAlways == ScanSpec => []CountedOnce
<1>1. ScanInv => CountedOnce
  <2> SUFFICES ASSUME ScanInv, NEW p \in Packages, KeyA[p] = KeyW[p],
                      \A k \in KeysOf(p) : ~(pressed[k] > 0)
               PROVE  counted[p] <= 1
    BY DEF CountedOnce
  <2>1. Remap(KeyA[p]) \in Marked /\ Remap(KeyA[p]) \in KeysOf(p)
    BY KeysOfMarked DEF KeysOf
  <2>2. pressed[Remap(KeyA[p])] = 0 BY <2>1 DEF ScanInv, DedupInv, DedupTypeOK
  <2>3. claimed[Remap(KeyA[p])] <= 1 BY <2>1 DEF ScanInv, DedupInv, ClaimsMatchTable
  <2>4. counted[p] <= claimed[Remap(KeyA[p])] BY <2>2 DEF ScanInv, CountIsClaimed
  <2> QED BY <2>1, <2>3, <2>4 DEF ScanInv, ScanTypeOK, DedupInv, DedupTypeOK
<1> QED BY <1>1, ScanInvariance, PTL

\* A script a hook has met is counted once the hooks are through with its key,
\* unless the side-scan failed or another package took the key.
THEOREM CountedInTheEndAlways == ScanSpec => []CountedInTheEnd
<1>1. ScanInv => CountedInTheEnd
  <2> SUFFICES ASSUME ScanInv, NEW p \in visited, ~Busy(p),
                      ~\E q \in Packages : SameKey(p, q) /\ (q # p \/ q \in scanFailed)
               PROVE  counted[p] > 0
    BY DEF CountedInTheEnd
  <2> USE PackageAssumption DEF ScanInv
  <2>1. p \in Scripted /\ p \in Packages BY DEF ScanTypeOK
  <2>2. Alone(p) /\ p \notin scanFailed BY <2>1 DEF Alone, SameKey, KeysOf
  <2>3. PICK k \in KeysOf(p) : marks[k] > 0 BY DEF MetIsMarked
  <2>4. k \in Marked BY <2>1, KeysOfMarked
  <2>5. ~\E t \in Threads : pc[t] # "idle" /\ key[t] = k
    <3> SUFFICES ASSUME NEW t \in Threads, pc[t] # "idle", key[t] = k PROVE FALSE OBVIOUS
    <3>1. stage[t] = "mark" /\ k \in KeysOf(package[t])
      BY KeyAtOf DEF MarksItsKey
    <3> QED BY <2>3, <3>1 DEF Busy, SameKey
  <2>6. claimed[k] + pressed[k] > 0 BY <2>3, <2>4, <2>5 DEF DedupInv, ReportPending
  <2>7. counted[p] > 0 \/ \E t \in Threads : Scans(t, p)
    BY <2>1, <2>2, <2>3, <2>6 DEF NewIsCounted
  <2> QED BY <2>3, <2>7 DEF Busy, SameKey, Scans
<1> QED BY <1>1, ScanInvariance, PTL

-----------------------------------------------------------------------------
(* Part 3.  The inventory of views *)

\* A blank slot is the last one, and its writer holds m_cs; the name it is
\* about to write is in no other slot.
BlankIsOwned ==
    /\ \A v \in Viewers : tracking[v] = "name" =>
           /\ csOwner = {v} /\ ~Listed(name[v])
           /\ files # <<>> /\ files[Len(files)] = Blank
    /\ \A i \in DOMAIN files : files[i] = Blank =>
           /\ i = Len(files)
           /\ \E v \in Viewers : csOwner = {v} /\ tracking[v] = "name"

Entries == {Blank} \cup {<<w, n>> : w \in {"cut", "whole"}, n \in Names}

TrackerTypeOK ==
    /\ files \in Seq(Entries)
    /\ tracking \in [Viewers -> {"none", "search", "lock", "name"}]
    /\ name \in [Viewers -> Names \cup {Blank}]
    /\ \A v \in Viewers : tracking[v] # "none" => name[v] \in Names

TrackerInv == TrackerTypeOK /\ BlankIsOwned /\ FileListedOnce

\* A viewer that does not touch the list keeps the invariant, whatever it is at.
LEMMA LooksOnlyInv ==
    ASSUME TrackerInv, NEW v \in Viewers, tracking[v] # "name",
           TrackerTypeOK', tracking' = [tracking EXCEPT ![v] = tracking'[v]],
           tracking'[v] # "name", name' = [name EXCEPT ![v] = name'[v]],
           UNCHANGED <<files, csOwner>>
    PROVE  TrackerInv'
<1> USE DEF TrackerInv, TrackerTypeOK
<1>1. \A w \in Viewers : tracking'[w] = "name" <=> tracking[w] = "name" OBVIOUS
<1>2. \A w \in Viewers : tracking'[w] = "name" => name'[w] = name[w] OBVIOUS
<1>3. BlankIsOwned' BY <1>1, <1>2 DEF BlankIsOwned, Listed
<1>4. FileListedOnce' BY DEF FileListedOnce
<1> QED BY <1>3, <1>4

\* Slots below the last one.
LEMMA BelowLast ==
    ASSUME NEW l \in Nat, NEW i \in 1 .. l, i # l
    PROVE  i \in 1 .. (l - 1)
OBVIOUS

\* Every index below another is an index too.
LEMMA StillBelow ==
    ASSUME NEW l \in Nat
    PROVE  \A i \in 1 .. (l - 1) : i \in 1 .. l /\ i # l
OBVIOUS

\* What is not the last index is one of the earlier ones.
LEMMA BelowNext ==
    ASSUME NEW l \in Nat, NEW i \in 1 .. (l + 1), i # l + 1
    PROVE  i \in 1 .. l
OBVIOUS

\* Insert's second look and its new slot keep TrackerInv.
LEMMA InsertLockedInv ==
    ASSUME TrackerInv, NEW v \in Viewers, InsertLocked(v)
    PROVE  TrackerInv'
<1> USE DEF TrackerInv, TrackerTypeOK
<1>1. CASE UNCHANGED <<files, csOwner>> /\ Tracks(v, "none")
  <2>1. TrackerTypeOK' BY <1>1 DEF Tracks
  <2> QED BY <1>1, <2>1, LooksOnlyInv DEF Tracks, InsertLocked
<1>2. CASE /\ ~Listed(name[v]) /\ files' = Append(files, Blank)
           /\ csOwner' = {v} /\ Tracks(v, "name")
  <2>0. tracking[v] = "lock" /\ csOwner = {} BY DEF InsertLocked
  <2>1. /\ name' = name /\ tracking' = [tracking EXCEPT ![v] = "name"]
        /\ Len(files) \in Nat /\ Len(files') = Len(files) + 1
        /\ DOMAIN files = 1 .. Len(files) /\ DOMAIN files' = 1 .. (Len(files) + 1)
        /\ \A i \in 1 .. Len(files) : files'[i] = files[i]
        /\ files'[Len(files) + 1] = Blank /\ files' \in Seq(Entries)
    BY <1>2 DEF Tracks, Entries
  <2>2. TrackerTypeOK' BY <2>0, <2>1
  <2>3. \A i \in DOMAIN files : files[i] # Blank BY <2>0 DEF BlankIsOwned
  <2>4. \A w \in Viewers : tracking'[w] = "name" <=> w = v BY <2>0, <2>1 DEF BlankIsOwned
  <2>5. \A n \in Names : <<"whole", n>> # Blank /\ <<"cut", n>> # Blank BY DEF Blank
  <2>6. ~Listed(name[v])'
    <3> SUFFICES ASSUME NEW i \in 1 .. (Len(files) + 1), files'[i] = <<"whole", name[v]>>
                 PROVE  FALSE
      BY <2>1 DEF Listed
    <3>1. name[v] \in Names BY <2>0
    <3>2. i # Len(files) + 1 BY <2>1, <2>5, <3>1
    <3>3. i \in 1 .. Len(files) BY <2>1, <3>2, BelowNext
    <3> QED BY <1>2, <2>1, <3>3 DEF Listed
  <2>7. BlankIsOwned' BY <1>2, <2>1, <2>3, <2>4, <2>6 DEF BlankIsOwned
  <2>8. FileListedOnce'
    BY <2>1, <2>3 DEF FileListedOnce
  <2> QED BY <2>2, <2>7, <2>8
<1> QED BY <1>1, <1>2 DEF InsertLocked

\* Writing the name of the new slot keeps TrackerInv.
LEMMA WriteNameInv ==
    ASSUME TrackerInv, NEW v \in Viewers, WriteName(v)
    PROVE  TrackerInv'
<1> USE DEF TrackerInv, TrackerTypeOK
<1> DEFINE l == Len(files)
           n == name[v]
<1>1. /\ tracking[v] = "name" /\ n \in Names /\ csOwner = {v} /\ ~Listed(n)
      /\ files # <<>> /\ files[l] = Blank /\ csOwner' = {}
  BY DEF WriteName, BlankIsOwned
<1>2. l \in Nat \ {0} /\ DOMAIN files = 1 .. l BY <1>1
<1>3. Stored(n) \in Entries /\ Stored(n) # Blank BY <1>1 DEF Stored, Entries, Blank
<1>4. /\ files' \in Seq(Entries) /\ Len(files') = l /\ DOMAIN files' = 1 .. l
      /\ files'[l] = Stored(n) /\ \A i \in 1 .. (l - 1) : files'[i] = files[i]
  <2>1. l \in 1 .. l /\ files' = [files EXCEPT ![l] = Stored(n)] BY <1>2 DEF WriteName
  <2>2. files' \in Seq(Entries) /\ Len(files') = l BY <1>3, <2>1, ExceptSeq
  <2>3. \A i \in 1 .. l : files'[i] = IF i = l THEN Stored(n) ELSE files[i]
    BY <1>2, <1>3, <2>1, ExceptSeq
  <2>4. \A i \in 1 .. (l - 1) : i \in 1 .. l /\ i # l BY <1>2, StillBelow
  <2>5. DOMAIN files' = 1 .. l BY <2>2
  <2> QED BY <2>1, <2>2, <2>3, <2>4, <2>5
<1>5. TrackerTypeOK' BY <1>4 DEF WriteName, Tracks
<1>6. \A w \in Viewers : tracking'[w] # "name"
  BY <1>1 DEF WriteName, Tracks, BlankIsOwned
<1>7. \A i \in 1 .. (l - 1) : files[i] # Blank BY <1>2 DEF BlankIsOwned
<1>8. BlankIsOwned' BY <1>2, <1>3, <1>4, <1>6, <1>7 DEF BlankIsOwned
<1>9. FileListedOnce'
  <2> SUFFICES ASSUME NEW i \in 1 .. l, NEW j \in 1 .. l, files'[i] = files'[j], i # j
               PROVE  files'[i][1] = "cut"
    BY <1>4 DEF FileListedOnce
  <2>1. CASE i # l /\ j # l
    <3>1. i \in 1 .. (l - 1) /\ j \in 1 .. (l - 1) BY <1>2, <2>1, BelowLast
    <3>2. files'[i] = files[i] /\ files'[j] = files[j] BY <1>4, <3>1
    <3> QED BY <1>2, <3>2 DEF FileListedOnce
  <2>2. CASE i = l \/ j = l
    <3>1. PICK k \in 1 .. (l - 1) : files[k] = Stored(n) /\ files'[i] = Stored(n)
      <4>1. i # l => i \in 1 .. (l - 1) /\ files'[i] = files[i] BY <1>2, <1>4, BelowLast
      <4>2. j # l => j \in 1 .. (l - 1) /\ files'[j] = files[j] BY <1>2, <1>4, BelowLast
      <4> QED BY <1>4, <2>2, <4>1, <4>2
    <3>2. Stored(n) # <<"whole", n>> BY <1>1, <1>2, <3>1 DEF Listed
    <3> QED BY <3>1, <3>2 DEF Stored
  <2> QED BY <2>1, <2>2
<1> QED BY <1>5, <1>8, <1>9

\* However the searches without the lock meet the insertions, a file is listed
\* once, unless its name does not fit into a slot.
THEOREM FileListedOnceAlways == ScanSpec => []FileListedOnce
<1>1. ScanInit => TrackerInv
  <2> SUFFICES ASSUME ScanInit PROVE TrackerInv OBVIOUS
  <2>1. /\ files = <<>> /\ tracking = [v \in Viewers |-> "none"]
        /\ name = [v \in Viewers |-> Blank]
    BY DEF ScanInit, TrackerInit
  <2>2. files \in Seq(Entries) /\ DOMAIN files = {} BY <2>1
  <2> QED BY <2>1, <2>2 DEF TrackerInv, TrackerTypeOK, BlankIsOwned, FileListedOnce
<1>2. ScanInv /\ TrackerInv /\ [ScanNext]_packageVars => TrackerInv'
  <2> SUFFICES ASSUME ScanInv, TrackerInv, [ScanNext]_packageVars PROVE TrackerInv'
    OBVIOUS
  <2> USE PackageAssumption
  <2>1. CASE UNCHANGED trackerVars
    BY <2>1 DEF trackerVars, TrackerInv, TrackerTypeOK, BlankIsOwned, Listed, FileListedOnce
  <2>2. ASSUME NEW t \in Threads, RecordPackageView(t) PROVE TrackerInv'
    <3>1. NameOf[package[t]] \in Names BY DEF ScanInv, ScanTypeOK
    <3>2. TrackerTypeOK'
      BY <2>2, <3>1 DEF RecordPackageView, RecordView, TrackerInv, TrackerTypeOK
    <3> QED BY <2>2, <3>2, LooksOnlyInv
            DEF RecordPackageView, RecordView, TrackerInv, TrackerTypeOK
  <2>3. ASSUME NEW t \in Threads, SearchUnlocked(t) PROVE TrackerInv'
    <3>1. TrackerTypeOK'
      BY <2>3 DEF SearchUnlocked, Tracks, TrackerInv, TrackerTypeOK
    <3> QED BY <2>3, <3>1, LooksOnlyInv DEF SearchUnlocked, Tracks, TrackerInv, TrackerTypeOK
  <2>4. ASSUME NEW t \in Threads, InventoryStep(t) PROVE TrackerInv'
    BY <2>3, <2>4, InsertLockedInv, WriteNameInv DEF InventoryStep, TrackerStep
  <2>5. ASSUME NEW t \in Threads,
               MarkStep(t) \/ ScanPackageForScript(t) \/ LeaveMapView(t) \/ HookBegins(t)
        PROVE  UNCHANGED trackerVars
    BY <2>5 DEF MarkStep, ScanPackageForScript, LeaveMapView, HookBegins, ReadFile,
                MapScriptView, MapOtherView, MapView
  <2> QED BY <2>1, <2>2, <2>4, <2>5 DEF ScanNext, HookGoesOn, packageVars
<1>3. TrackerInv => FileListedOnce BY DEF TrackerInv
<1> QED BY <1>1, <1>2, <1>3, ScanInvariance, PTL DEF ScanSpec
=============================================================================
