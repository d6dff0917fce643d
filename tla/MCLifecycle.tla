---------------------------- MODULE MCLifecycle ----------------------------
EXTENDS Lifecycle, TLC

Symmetry == Permutations(Workers) \cup Permutations(Addresses)
=============================================================================
