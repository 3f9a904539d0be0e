----------------------------- MODULE MCCacheGc -----------------------------
EXTENDS CacheGc, TLC

UnitSize == [e \in Entries |-> 1]
Symmetry == Permutations(Procs) \cup Permutations(Stores)
=============================================================================
