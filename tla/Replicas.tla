------------------------------ MODULE Replicas ------------------------------
(***************************************************************************)
(* Replicas that edit one document and exchange their operations.  Each    *)
(* holds an RGA; a local edit (insertAt, deleteAt) applies an operation    *)
(* and hands it to the transport; apply and applyAll take operations from  *)
(* it in any order and any number of times, as the header of rga.ts        *)
(* allows.  MaxOps bounds the operations of a behaviour.                   *)
(***************************************************************************)
EXTENDS RGA, FiniteSets

CONSTANT MaxOps

ASSUME MaxOpsAssumption == MaxOps \in Nat

VARIABLES
  doc,        \* doc[r]: the RGA of replica r
  issued,     \* every operation ever returned by insertAt or deleteAt
  applied     \* applied[r]: the operations apply has been called with at r

vars == <<doc, issued, applied>>

Init ==
  /\ doc = [r \in Replica |-> NewDoc]
  /\ issued = {}
  /\ applied = [r \in Replica |-> {}]

Issue(r, d, op) ==
  /\ Cardinality(issued) < MaxOps
  /\ doc' = [doc EXCEPT ![r] = Apply(d, op)]
  /\ issued' = issued \cup {op}
  /\ applied' = [applied EXCEPT ![r] = @ \cup {op}]

Insert(r) ==
  \E parent \in {ROOT} \cup VisibleIds(doc[r]) :
    Issue(r, Tick(doc[r]), InsertAfter(doc[r], r, parent))

Delete(r) ==
  \E id \in VisibleIds(doc[r]) : Issue(r, doc[r], DeleteOf(id))

Deliver(r) ==
  \E op \in issued :
    /\ doc' = [doc EXCEPT ![r] = Apply(@, op)]
    /\ applied' = [applied EXCEPT ![r] = @ \cup {op}]
    /\ UNCHANGED issued

Next == \E r \in Replica : Insert(r) \/ Delete(r) \/ Deliver(r)

Spec == Init /\ [][Next]_vars

-----------------------------------------------------------------------------
(* Documents keep their shape and operations are well formed.              *)
TypeOK ==
  /\ DOMAIN doc = Replica
  /\ \A r \in Replica : IsDoc(doc[r])
  /\ issued \subseteq Op
  /\ applied \in [Replica -> SUBSET issued]

(* The three structures depend on which operations were applied, not on    *)
(* when: the nodes are those of the inserts with the parent they named, an *)
(* element is deleted exactly when a delete of it was applied (before or   *)
(* after its insert), and the buckets are those of ROOT and of the parents *)
(* (rga.ts:11-19).                                                         *)
StructuresMirrorOps == \A r \in Replica : Mirrors(doc[r], applied[r])

(* Each bucket lists exactly the elements with that parent, once each,     *)
(* latest id first, whatever the order they arrived in (rga.ts:14-16).     *)
SiblingsSorted == \A r \in Replica : BucketsSorted(doc[r])

(* The Lamport clock (id.ts:1-9): a replica's clock is the largest counter *)
(* it has seen, and not behind any id it issued; an element is younger     *)
(* than the one it was typed after; two inserts never share an id; a       *)
(* delete names an element that was inserted.                              *)
LamportOrder ==
  /\ \A r \in Replica : ClockIsLargestSeen(doc[r])
  /\ \A op \in Inserts(issued) :
       /\ op.id.counter <= doc[op.id.replica].counter
       /\ op.id.counter > op.parent.counter
  /\ \A a, b \in Inserts(issued) : a.id = b.id => a = b
  /\ DeletedIds(issued) \subseteq InsertedIds(issued)

(* Two replicas that have applied the same set of operations, in whatever  *)
(* order and with whatever duplicates, are in the same state: same nodes,  *)
(* same buckets in the same order, same tombstones, same clock, hence the  *)
(* same text and the same next id (rga.ts:21-24).                          *)
Convergence ==
  \A r, s \in Replica : applied[r] = applied[s] => doc[r] = doc[s]

(* Replicas with different operations never disagree on the order of two   *)
(* elements: there is one document order, and nobody has seen it           *)
(* contradicted.  (Nor does a replica show an element twice.)              *)
OneOrder ==
  \A r, s \in Replica :
    LET a == Ordered(doc[r])
        b == Ordered(doc[s])
    IN  \A x, y \in Range(a) : Precedes(a, x, y) => ~ Precedes(b, y, x)

(* "Everything self-heals": once each applied insert's ancestors have been *)
(* applied too, the walk reaches every element, exactly once               *)
(* (rga.ts:26-30).                                                         *)
SelfHeals ==
  \A r \in Replica :
    (\A op \in Inserts(applied[r]) :
       op.parent \in {ROOT} \cup InsertedIds(applied[r])) =>
    /\ Range(Ordered(doc[r])) = DOMAIN doc[r].nodes
    /\ Len(Ordered(doc[r])) = Cardinality(DOMAIN doc[r].nodes)

(* The RGA implements ReplicatedText: what a replica shows is the text of  *)
(* the operations it applied, a local edit lands exactly where its user    *)
(* made it, and its id is new to everyone.                                 *)
Text == INSTANCE ReplicatedText WITH
  held <- applied, text <- [r \in Replica |-> VisibleNodes(doc[r])]

ImplementsText == Text!TextSpec
=============================================================================
