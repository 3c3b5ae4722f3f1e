------------------------------ MODULE MCRelay -------------------------------
(* Relay, for TLC: two replicas by rank. *)
EXTENDS Relay

MCReplica == 1 .. 2
=============================================================================
