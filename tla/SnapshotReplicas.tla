-------------------------- MODULE SnapshotReplicas --------------------------
(***************************************************************************)
(* Replicas that also pass whole documents around as snapshots: a replica  *)
(* is replaced by what fromSnapshot reads back from its own snapshot (a    *)
(* reload of the page, a compaction on the server), or merges the snapshot *)
(* of another (the welcome of a late joiner).                              *)
(*                                                                         *)
(* Causal says whether the transport delivers an operation only after the  *)
(* insert it refers to, as one ordered log does.  The CRDT does not ask    *)
(* for it (rga.ts:26-30), and several servers behind one fan-out do not    *)
(* provide it.                                                             *)
(***************************************************************************)
EXTENDS Replicas

CONSTANT Causal

ASSUME CausalAssumption == Causal \in BOOLEAN

Ready(r, op) ==
  LET known == {ROOT} \cup InsertedIds(applied[r])
  IN  IF op.type = "insert" THEN op.parent \in known ELSE op.id \in known

DeliverReady(r) ==
  \E op \in {o \in issued : Causal => Ready(r, o)} :
    /\ doc' = [doc EXCEPT ![r] = Apply(@, op)]
    /\ applied' = [applied EXCEPT ![r] = @ \cup {op}]
    /\ UNCHANGED issued

Restore(r) ==
  /\ doc' = [doc EXCEPT ![r] = FromSnapshot(Snapshot(@))]
  /\ UNCHANGED <<issued, applied>>

Merge(r) ==
  \E s \in Replica \ {r} :
    LET snap == Snapshot(doc[s]) IN
    /\ doc' = [doc EXCEPT ![r] = MergeSnapshot(@, snap)]
    /\ applied' = [applied EXCEPT ![r] = @ \cup SnapshotOps(snap)]
    /\ UNCHANGED issued

SnapshotNext ==
  \E r \in Replica : Insert(r) \/ Delete(r) \/ DeliverReady(r) \/ Restore(r) \/ Merge(r)

SnapshotSpec == Init /\ [][SnapshotNext]_vars

-----------------------------------------------------------------------------
(* A document read back from its snapshot is the document: the deleted     *)
(* elements, the sibling order and the clock included, so that what comes  *)
(* later (an id, a delete, a child) meets the same state                   *)
(* (crdt/README.md:91).                                                    *)
RestoreIsFaithful ==
  \A r \in Replica : FromSnapshot(Snapshot(doc[r])) = doc[r]

(* A snapshot brings all the operations it stands for, and merging it      *)
(* drops nothing the document had on its own (rga.ts:183-187).             *)
MergeIsUnion == StructuresMirrorOps

(* Restore then continue equals never snapshotted: replicas that got the   *)
(* same operations show the same text, whether or not they were reloaded   *)
(* on the way (crdt/README.md:91, rga.ts:21-24).                           *)
RestoreThenContinue ==
  \A r, s \in Replica :
    applied[r] = applied[s] => VisibleNodes(doc[r]) = VisibleNodes(doc[s])
=============================================================================
