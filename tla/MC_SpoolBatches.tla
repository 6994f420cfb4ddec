--------------------------- MODULE MC_SpoolBatches ---------------------------
EXTENDS SpoolBatches, TLC
Symmetry == Permutations(Batches)
=============================================================================
