--------------------------- MODULE MCProviderRelay ---------------------------
EXTENDS ProviderRelay, TLC
Symmetry == Permutations(Runs)
=============================================================================
