------------------------------ MODULE MCCorral ------------------------------
EXTENDS Corral, TLC

\* The game's threads are interchangeable.
CorralSymmetry == Permutations(Threads)
=============================================================================
