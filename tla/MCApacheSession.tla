-------------------------- MODULE MCApacheSession --------------------------
EXTENDS ApacheSession, TLC

\* Processes and session ids are only compared.
Symmetry == Permutations(Procs) \cup Permutations(Sids)
=============================================================================
