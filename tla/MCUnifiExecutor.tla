--------------------------- MODULE MCUnifiExecutor ---------------------------
EXTENDS UnifiExecutorRefinement, TLC
Symmetry == Permutations(Inodes) \cup Permutations(Certs)
=============================================================================
