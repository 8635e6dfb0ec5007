--------------------------- MODULE MCCorpusPaths ---------------------------
EXTENDS CorpusPaths, TLC

Symmetry == Permutations(Paths) \cup Permutations(Requests)
=============================================================================
