----------------------------- MODULE MCProfiler -----------------------------
EXTENDS Profiler, TLC

Symmetry == Permutations(Threads)
=============================================================================
