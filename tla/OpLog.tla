------------------------------- MODULE OpLog --------------------------------
(***************************************************************************)
(* What a store of operations promises (DocStore, apps/server/src/store.ts *)
(* 8-32), seen by who joins a document: one log.  Every operation ever     *)
(* acknowledged is in it, under a number of its own; it grows by one       *)
(* operation at a time and forgets none.  Snapshots, compaction, tables    *)
(* and lists are how a store keeps it, and are not seen.  A store that has *)
(* been damaged is not intact again, and promises nothing more.            *)
(***************************************************************************)
CONSTANT Op

VARIABLES
  log,        \* a set of [seq, op]
  intact

Init == log = {} /\ intact = TRUE

Append ==
  /\ intact' = intact
  /\ \E e \in log' \ log :
       /\ log' = log \cup {e}
       /\ e.op \in Op
       /\ \A f \in log : f.seq # e.seq

Damage == intact' = FALSE

Spec == Init /\ [][Append \/ Damage]_<<log, intact>>
=============================================================================
