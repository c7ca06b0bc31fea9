---------------------------- MODULE MCHeapShards ----------------------------
EXTENDS HeapShards, TLC

\* Executable heaps are interchangeable.
ShardSymmetry == Permutations(Exec)
=============================================================================
