------------------------- MODULE MCSnapshotReplicas -------------------------
(* SnapshotReplicas, for TLC: two replicas by rank. *)
EXTENDS SnapshotReplicas

MCReplica == 1 .. 2
=============================================================================
