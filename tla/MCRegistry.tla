---------------------------- MODULE MCRegistry ----------------------------
EXTENDS Registry, TLC

Symmetry == Permutations(Processes) \cup Permutations(Addresses)

TwoFormats == <<"CREATE_THREAD", "PASSED">>
TwoPoints == <<"TST_PROF", "UI_PROF">>
=============================================================================
