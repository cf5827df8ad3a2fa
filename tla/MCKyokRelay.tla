----------------------------- MODULE MCKyokRelay -----------------------------
EXTENDS KyokRelay, TLC
Symmetry == Permutations(Reqs)
=============================================================================
