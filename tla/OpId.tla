-------------------------------- MODULE OpId --------------------------------
(***************************************************************************)
(* Ids and operations of the sequence CRDT (packages/crdt/src/id.ts and    *)
(* types.ts).                                                              *)
(*                                                                         *)
(* A replica id is a string that is only ever compared for equality and    *)
(* for lexicographic order, so a replica is its rank in that order, a      *)
(* positive natural number; 0 is the rank of the empty string, which only  *)
(* ROOT carries.  key(id) writes an id as "counter@replica"; no replica    *)
(* shares that text with another id, so an id is its own key.  The value   *)
(* of an insert is decided when its id is issued and is never read by the  *)
(* merge: it is left out, and an element is its id.                        *)
(***************************************************************************)
EXTENDS Naturals

CONSTANT Replica

ASSUME ReplicaAssumption == Replica \subseteq Nat \ {0}

Id == [counter : Nat \ {0}, replica : Replica]

ROOT == [counter |-> 0, replica |-> 0]

(* A slip: concurrent ids with the same counter are not told apart. *)
AfterByCounterOnly(a, b) == a.counter > b.counter

(* compareId(a, b) > 0: by counter, ties by replica. *)
After(a, b) ==
  \/ a.counter > b.counter
  \/ a.counter = b.counter /\ a.replica > b.replica

InsertOp == [type : {"insert"}, id : Id, parent : Id \cup {ROOT}]

DeleteOp == [type : {"delete"}, id : Id]

Op == InsertOp \cup DeleteOp

(* The inserts of a set of operations, and the elements its deletes hide. *)
Inserts(ops) == {op \in ops : op.type = "insert"}

InsertedIds(ops) == {op.id : op \in Inserts(ops)}

DeletedIds(ops) == {op.id : op \in {x \in ops : x.type = "delete"}}
=============================================================================
