----------------------------- MODULE MCLogGroup -----------------------------
EXTENDS LogGroup, TLC

Symmetry == Permutations(Loggers)
=============================================================================
