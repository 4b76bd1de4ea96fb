----------------------------- MODULE MCTlsCert -----------------------------
\* Processes that share one certificate directory.
EXTENDS TlsCert, TLC

Symmetry == Permutations(Procs)
=============================================================================
