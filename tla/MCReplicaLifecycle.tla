------------------------- MODULE MCReplicaLifecycle -------------------------
(* Small instances of ReplicaLifecycle for TLC. *)
EXTENDS ReplicaLifecycle
=============================================================================
