---------------------------- MODULE MCReplicaConn ----------------------------
(* ReplicaConn with the symmetry of its callers and its replicas, for TLC. *)
EXTENDS ReplicaConn, TLC

Symmetry == Permutations(Callers) \cup Permutations(Replicas)
=============================================================================
