---------------------------- MODULE MCLockServer ----------------------------
EXTENDS LockServer, TLC

Symmetry == Permutations(Conns)
=============================================================================
