--------------------------- MODULE MCPreForkPool ---------------------------
EXTENDS PreForkPool, TLC

\* Pids are only compared.
Symmetry == Permutations(Pids)
=============================================================================
