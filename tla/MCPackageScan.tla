---------------------------- MODULE MCPackageScan ----------------------------
(***************************************************************************)
(* Packages for TLC: p1 has an ASCII name; the name of p2 is not ASCII, so *)
(* that its keys differ (one is 0), and too long for the inventory; p3 has *)
(* no script and the base name of p1.                                      *)
(***************************************************************************)
EXTENDS PackageScan, TLC

CONSTANTS p1, p2, p3, n1, n2

MCKeyA == p1 :> 2 @@ p2 :> 0 @@ p3 :> 2
MCKeyW == p1 :> 2 @@ p2 :> 4 @@ p3 :> 2
MCNameOf == p1 :> n1 @@ p2 :> n2 @@ p3 :> n1

\* The game's threads are interchangeable.
ScanSymmetry == Permutations(Threads)
=============================================================================
