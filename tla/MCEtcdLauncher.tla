---------------------------- MODULE MCEtcdLauncher ----------------------------
(* EtcdLauncher for TLC: one launcher; the others are leases in etcd. *)
EXTENDS EtcdLauncher
=============================================================================
