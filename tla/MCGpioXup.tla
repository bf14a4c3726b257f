------------------------------ MODULE MCGpioXup ------------------------------
EXTENDS GpioXup, TLC
Symmetry == Permutations(Files)
=============================================================================
