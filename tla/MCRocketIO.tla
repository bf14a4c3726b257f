------------------------------ MODULE MCRocketIO ------------------------------
EXTENDS RocketIO, TLC
Symmetry == Permutations(Blocks)
=============================================================================
