---------------------------- MODULE ArenaContract ----------------------------
(***************************************************************************)
(* What the shared arena promises to the code that draws slots from it:    *)
(* while the arena is open every slot lies inside it and no two slots that *)
(* are out at the same time share a byte; a slot leaves the contract only  *)
(* by being handed back or by the arena closing.  Which free range a       *)
(* request gets, and whether it gets one at all, is left open.             *)
(***************************************************************************)
EXTENDS Naturals

CONSTANT ArenaSize

VARIABLES phase,   \* "new" before Initialize, "up", "down" after Shutdown
          held     \* the slots that are out, as [addr, size]

contractVars == <<phase, held>>

Slot == [addr : Nat, size : Nat \ {0}]

\* Two ranges that share no byte.
Apart(b, c) == b.addr + b.size <= c.addr \/ c.addr + c.size <= b.addr

Inside(b) == b.addr + b.size <= ArenaSize

ContractInit == phase = "new" /\ held = {}

Open == phase = "new" /\ phase' = "up" /\ UNCHANGED held

Grant == /\ phase = "up"
         /\ \E a \in 0 .. ArenaSize, n \in 1 .. ArenaSize :
              LET b == [addr |-> a, size |-> n]
              IN  /\ Inside(b)
                  /\ \A h \in held : Apart(b, h)
                  /\ held' = held \cup {b}
         /\ UNCHANGED phase

Return == /\ phase = "up"
          /\ \E b \in held : held' = held \ {b}
          /\ UNCHANGED phase

Close == phase # "down" /\ phase' = "down" /\ held' = {}

ContractNext == Open \/ Grant \/ Return \/ Close

ContractSpec == ContractInit /\ [][ContractNext]_contractVars
=============================================================================
