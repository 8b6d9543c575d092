--------------------------- MODULE MCRegistryAdmin ---------------------------
EXTENDS RegistryAdmin, TLC
CONSTANTS r1, r2, r3, n1

RequestSymmetry == Permutations(Requests)
=============================================================================
