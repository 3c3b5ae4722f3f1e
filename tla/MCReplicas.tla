----------------------------- MODULE MCReplicas -----------------------------
(* Replicas, for TLC: three replicas by rank. *)
EXTENDS Replicas

MCReplica == 1 .. 3
MCReplica2 == 1 .. 2
=============================================================================
