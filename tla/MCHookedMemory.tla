---------------------------- MODULE MCHookedMemory ----------------------------
(* Instances of HookedMemory for TLC; slots and threads are interchangeable. *)
EXTENDS HookedMemory, TLC

HookSymmetry == Permutations(Threads) \cup Permutations(Slots)
=============================================================================
