----------------------------- MODULE MCRedLease -----------------------------
EXTENDS RedLease, TLC

Symmetry == Permutations(Servers) \cup Permutations(Clients)
=============================================================================
