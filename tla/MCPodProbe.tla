----------------------------- MODULE MCPodProbe -----------------------------
EXTENDS PodProbe, TLC

RunsSymmetry == Permutations(Runs)

=============================================================================
