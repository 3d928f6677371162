---------------------------- MODULE MCStartupGate ----------------------------
EXTENDS StartupGateInvariant, TLC
Symmetry == Permutations(Inodes) \cup Permutations(Certs)
=============================================================================
