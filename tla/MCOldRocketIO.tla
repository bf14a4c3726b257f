---------------------------- MODULE MCOldRocketIO ----------------------------
EXTENDS OldRocketIO, TLC
Symmetry == Permutations(Short) \cup Permutations(Small) \cup Permutations(Big)
=============================================================================
