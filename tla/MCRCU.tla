-------------------------------- MODULE MCRCU --------------------------------
EXTENDS RCU, TLC

\* Readers, writers and objects differ by nothing but their names.
Symmetry == Permutations(Readers) \cup Permutations(Writers) \cup Permutations(Objects)
===============================================================================
