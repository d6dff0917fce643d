------------------------------ MODULE MCMemFifo -----------------------------
EXTENDS MemFifo, TLC

Symmetry == Permutations(Threads) \cup Permutations(Entries)
=============================================================================
