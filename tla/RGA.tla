-------------------------------- MODULE RGA ---------------------------------
(***************************************************************************)
(* The class RGA (packages/crdt/src/rga.ts) as operators on a document:    *)
(*   counter     the Lamport clock                                         *)
(*   nodes       id -> [parent, deleted], every element ever inserted      *)
(*   children    parent -> its children, sorted by id, latest first        *)
(*   tombstones  the deleted ids, also those whose insert has not arrived  *)
(* Each operator returns the document after the method of the same name.   *)
(***************************************************************************)
EXTENDS OpId, Sequences, SequencesExt

NewDoc ==
  [counter    |-> 0,
   nodes      |-> [id \in {} |-> [parent |-> ROOT, deleted |-> FALSE]],
   children   |-> [p \in {ROOT} |-> <<>>],
   tombstones |-> {}]

(* The shape of a document: the private fields of the class (rga.ts:34-41). *)
IsDoc(d) ==
  /\ d = [counter |-> d.counter, nodes |-> d.nodes,
          children |-> d.children, tombstones |-> d.tombstones]
  /\ d.counter \in Nat
  /\ d.nodes \in [DOMAIN d.nodes -> [parent : Id \cup {ROOT}, deleted : BOOLEAN]]
  /\ DOMAIN d.nodes \subseteq Id
  /\ d.children \in [DOMAIN d.children -> Seq(Id)]
  /\ ROOT \in DOMAIN d.children /\ DOMAIN d.children \subseteq Id \cup {ROOT}
  /\ d.tombstones \subseteq Id

(* Each bucket lists exactly the elements with that parent, latest first,  *)
(* and no element is without a bucket.                                     *)
Descending(list) == \A i, j \in 1 .. Len(list) : i < j => After(list[i], list[j])

BucketsSorted(d) ==
  /\ \A p \in DOMAIN d.children :
       /\ Descending(d.children[p])
       /\ Range(d.children[p]) = {id \in DOMAIN d.nodes : d.nodes[id].parent = p}
  /\ \A id \in DOMAIN d.nodes : d.nodes[id].parent \in DOMAIN d.children

(* The document of a set of operations: the nodes are those of the inserts *)
(* with the parent they named, an element is deleted when a delete of it   *)
(* is there, and the buckets are those of ROOT and of the parents.         *)
Mirrors(d, ops) ==
  /\ DOMAIN d.nodes = InsertedIds(ops)
  /\ \A op \in Inserts(ops) : d.nodes[op.id].parent = op.parent
  /\ d.tombstones = DeletedIds(ops)
  /\ \A id \in DOMAIN d.nodes : d.nodes[id].deleted <=> id \in DeletedIds(ops)
  /\ DOMAIN d.children = {ROOT} \cup {op.parent : op \in Inserts(ops)}

(* The clock is the largest counter seen. *)
ClockIsLargestSeen(d) ==
  /\ \A id \in DOMAIN d.nodes : id.counter <= d.counter
  /\ d.counter \in {0} \cup {id.counter : id \in DOMAIN d.nodes}

Kids(children, p) == IF p \in DOMAIN children THEN children[p] ELSE <<>>

-----------------------------------------------------------------------------
(* Applying operations *)

(* A slip: siblings stay in the order they arrived in. *)
SlotAtEnd(list, id) == Len(list) + 1

(* The slot found by linkChild's binary search: the first whose id does    *)
(* not sort after the new one, or the end.  On a sorted list (the          *)
(* invariant SiblingsSorted of Replicas) there is exactly one.             *)
Slot(list, id) ==
  CHOOSE i \in 1 .. Len(list) + 1 :
    /\ \A j \in 1 .. i - 1 : After(list[j], id)
    /\ i <= Len(list) => ~ After(list[i], id)

(* A slip: the bucket of a parent seen for the first time is not stored. *)
LinkChildLosesBucket(children, id, parent) ==
  [p \in DOMAIN children |->
     IF p = parent THEN InsertAt(children[p], Slot(children[p], id), id) ELSE children[p]]

LinkChild(children, id, parent) ==
  LET list == Kids(children, parent) IN
  [p \in DOMAIN children \cup {parent} |->
     IF p = parent THEN InsertAt(list, Slot(list, id), id) ELSE children[p]]

(* Slips: a delete that raced ahead is forgotten; the clock stays behind   *)
(* the ids of others.                                                      *)
ApplyInsertForgetsRace(d, op) ==
  IF op.id \in DOMAIN d.nodes THEN d
  ELSE [d EXCEPT !.counter = IF op.id.counter > @ THEN op.id.counter ELSE @,
                 !.nodes = [id \in DOMAIN @ \cup {op.id} |->
                              IF id = op.id THEN [parent |-> op.parent, deleted |-> FALSE]
                              ELSE @[id]],
                 !.children = LinkChild(@, op.id, op.parent)]

ApplyInsertClockStays(d, op) ==
  IF op.id \in DOMAIN d.nodes THEN d
  ELSE [d EXCEPT !.nodes = [id \in DOMAIN @ \cup {op.id} |->
                              IF id = op.id
                              THEN [parent |-> op.parent, deleted |-> id \in d.tombstones]
                              ELSE @[id]],
                 !.children = LinkChild(@, op.id, op.parent)]

(* The clock catches up even when the element is already here. *)
ApplyInsert(d, op) ==
  LET clock == IF op.id.counter > d.counter THEN op.id.counter ELSE d.counter
      node  == [parent |-> op.parent, deleted |-> op.id \in d.tombstones]
  IN  IF op.id \in DOMAIN d.nodes
      THEN [d EXCEPT !.counter = clock]
      ELSE [counter    |-> clock,
            nodes      |-> [id \in DOMAIN d.nodes \cup {op.id} |->
                              IF id = op.id THEN node ELSE d.nodes[id]],
            children   |-> LinkChild(d.children, op.id, op.parent),
            tombstones |-> d.tombstones]

(* The tombstone is kept whether or not the insert is here. *)
ApplyDelete(d, op) ==
  [d EXCEPT !.tombstones = @ \cup {op.id},
            !.nodes = [id \in DOMAIN @ |->
                         [parent  |-> @[id].parent,
                          deleted |-> @[id].deleted \/ id = op.id]]]

Apply(d, op) == IF op.type = "insert" THEN ApplyInsert(d, op) ELSE ApplyDelete(d, op)

-----------------------------------------------------------------------------
(* Reading the document *)

(* A slip: the children are pushed in list order, so the last pops first.  *)
OrderedReversed(d) ==
  LET under[p \in {ROOT} \cup DOMAIN d.nodes] ==
        LET kids == Reverse(Kids(d.children, p))
        IN  FlattenSeq([i \in 1 .. Len(kids) |-> <<kids[i]>> \o under[kids[i]]])
  IN  under[ROOT]

(* The pre-order walk of the tree below ROOT: an element whose parent has  *)
(* not arrived is in a child bucket the walk does not reach.               *)
Ordered(d) ==
  LET under[p \in {ROOT} \cup DOMAIN d.nodes] ==
        LET kids == Kids(d.children, p)
        IN  FlattenSeq([i \in 1 .. Len(kids) |-> <<kids[i]>> \o under[kids[i]]])
  IN  under[ROOT]

(* x stands before y; an element that is there twice stands before itself. *)
Precedes(list, x, y) ==
  \E i, j \in 1 .. Len(list) : i < j /\ list[i] = x /\ list[j] = y

VisibleNodes(d) == SelectSeq(Ordered(d), LAMBDA id : ~ d.nodes[id].deleted)

(* The elements an edit can name: those of VisibleNodes, as a set. *)
VisibleIds(d) ==
  {id \in DOMAIN d.nodes : id \in Range(Ordered(d)) /\ ~ d.nodes[id].deleted}

-----------------------------------------------------------------------------
(* Local edits: the operation insertAt or deleteAt returns.  An index      *)
(* names the visible element before it (ROOT for 0, the last one when the  *)
(* index is clamped), so the callers choose that element.                  *)

(* A slip: the clock is read without being advanced. *)
TickSkipped(d) == d

(* nextId: the clock advances and, with the replica, is the new id. *)
Tick(d) == [d EXCEPT !.counter = @ + 1]

InsertAfter(d, r, parent) ==
  [type |-> "insert", id |-> [counter |-> Tick(d).counter, replica |-> r],
   parent |-> parent]

DeleteOf(id) == [type |-> "delete", id |-> id]

-----------------------------------------------------------------------------
(* Snapshots *)

(* Slips: what is deleted is left out; a deleted element is merged live.   *)
SnapshotVisibleOnly(d) ==
  LET nodes == VisibleNodes(d)
  IN  [i \in 1 .. Len(nodes) |->
         [id |-> nodes[i], parent |-> d.nodes[nodes[i]].parent, deleted |-> FALSE]]

MergeNodeLive(d, n) ==
  ApplyInsert(d, [type |-> "insert", id |-> n.id, parent |-> n.parent])

Snapshot(d) ==
  LET nodes == Ordered(d)
  IN  [i \in 1 .. Len(nodes) |->
         [id      |-> nodes[i],
          parent  |-> d.nodes[nodes[i]].parent,
          deleted |-> d.nodes[nodes[i]].deleted]]

MergeNode(d, n) ==
  LET inserted == ApplyInsert(d, [type |-> "insert", id |-> n.id, parent |-> n.parent])
  IN  IF n.deleted THEN ApplyDelete(inserted, DeleteOf(n.id)) ELSE inserted

MergeSnapshot(d, snap) == FoldLeft(MergeNode, d, snap)

(* The nodes from the oldest id to the latest: each at the place that as   *)
(* many go before.  (A snapshot lists an id once.)                         *)
SortedById(nodes) ==
  [i \in 1 .. Len(nodes) |->
     CHOOSE n \in Range(nodes) : Cardinality({m \in Range(nodes) : After(n.id, m.id)}) = i - 1]

FromSnapshot(snap) == MergeSnapshot(NewDoc, SortedById(snap))

(* The operations a snapshot stands for. *)
SnapshotOps(snap) ==
  {[type |-> "insert", id |-> n.id, parent |-> n.parent] : n \in Range(snap)}
  \cup {DeleteOf(n.id) : n \in {m \in Range(snap) : m.deleted}}
=============================================================================
