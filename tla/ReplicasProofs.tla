--------------------------- MODULE ReplicasProofs ---------------------------
(***************************************************************************)
(* Convergence of Replicas for every set of replicas, every number of      *)
(* operations and every order of delivery.  Convergence itself is not      *)
(* inductive: that two replicas agree now says nothing about the next      *)
(* operation.  Inv says what each document is made of; it is inductive,    *)
(* and it determines the document from the operations alone.               *)
(***************************************************************************)
EXTENDS SnapshotReplicas, RGALemmas

Inv == TypeOK /\ StructuresMirrorOps /\ SiblingsSorted /\ LamportOrder

-----------------------------------------------------------------------------
(* What the three actions have in common *)

(* The operations the actions apply are operations, and the documents they *)
(* are applied to are documents.                                           *)
LEMMA EditsAreOps ==
  ASSUME TypeOK, NEW r \in Replica
  PROVE  /\ IsDoc(doc[r]) /\ IsDoc(Tick(doc[r]))
         /\ VisibleIds(doc[r]) \subseteq DOMAIN doc[r].nodes
         /\ \A parent \in {ROOT} \cup VisibleIds(doc[r]) :
              LET op == InsertAfter(doc[r], r, parent) IN
              /\ op \in Op /\ op.type = "insert"
              /\ op.id.counter = doc[r].counter + 1 /\ op.id.replica = r
              /\ op.parent = parent
         /\ \A id \in VisibleIds(doc[r]) :
              LET op == DeleteOf(id) IN
              op \in Op /\ op.type = "delete" /\ op.id = id
<1>1. IsDoc(doc[r])
  BY DEF TypeOK
<1>2. VisibleIds(doc[r]) \subseteq DOMAIN doc[r].nodes
  BY DEF VisibleIds
<1>3. DOMAIN doc[r].nodes \subseteq Id /\ doc[r].counter \in Nat
  BY <1>1 DEF IsDoc
<1>4. \A parent \in {ROOT} \cup VisibleIds(doc[r]) :
        LET op == InsertAfter(doc[r], r, parent) IN
        /\ op \in Op /\ op.type = "insert"
        /\ op.id.counter = doc[r].counter + 1 /\ op.id.replica = r
        /\ op.parent = parent
  <2> TAKE parent \in {ROOT} \cup VisibleIds(doc[r])
  <2>1. Tick(doc[r]).counter = doc[r].counter + 1
    BY <1>1, TickEffect
  <2>2. [counter |-> doc[r].counter + 1, replica |-> r] \in Id
    BY <1>3 DEF Id
  <2>3. parent \in Id \cup {ROOT}
    BY <1>2, <1>3
  <2> QED BY <2>1, <2>2, <2>3 DEF InsertAfter, Op, InsertOp
<1>5. \A id \in VisibleIds(doc[r]) :
        LET op == DeleteOf(id) IN
        op \in Op /\ op.type = "delete" /\ op.id = id
  BY <1>2, <1>3 DEF DeleteOf, Op, DeleteOp
<1> QED BY <1>1, <1>2, <1>4, <1>5, TickEffect

(* Every action applies one operation at one replica, to a document that   *)
(* differs from the replica's at most by an advanced clock.                *)
Applies(r, d, op) ==
  /\ r \in Replica /\ op \in Op /\ IsDoc(d)
  /\ d.nodes = doc[r].nodes /\ d.children = doc[r].children
  /\ d.tombstones = doc[r].tombstones /\ d.counter >= doc[r].counter
  /\ doc' = [doc EXCEPT ![r] = Apply(d, op)]
  /\ issued' = issued \cup {op}
  /\ applied' = [applied EXCEPT ![r] = @ \cup {op}]

LEMMA ActionsApply ==
  ASSUME TypeOK, NEW r \in Replica
  PROVE  /\ Insert(r) => \E parent \in {ROOT} \cup VisibleIds(doc[r]) :
                           Applies(r, Tick(doc[r]), InsertAfter(doc[r], r, parent))
         /\ Delete(r) => \E id \in VisibleIds(doc[r]) : Applies(r, doc[r], DeleteOf(id))
         /\ Deliver(r) => \E op \in issued : Applies(r, doc[r], op)
<1>1. IsDoc(doc[r]) /\ doc[r].counter \in Nat
  BY EditsAreOps DEF IsDoc
<1>2. ASSUME Insert(r)
      PROVE  \E parent \in {ROOT} \cup VisibleIds(doc[r]) :
               Applies(r, Tick(doc[r]), InsertAfter(doc[r], r, parent))
  <2>1. PICK parent \in {ROOT} \cup VisibleIds(doc[r]) :
          Issue(r, Tick(doc[r]), InsertAfter(doc[r], r, parent))
    BY <1>2 DEF Insert
  <2>2. InsertAfter(doc[r], r, parent) \in Op
    BY EditsAreOps
  <2>3. Tick(doc[r]).counter >= doc[r].counter
    BY <1>1, TickEffect
  <2>4. Applies(r, Tick(doc[r]), InsertAfter(doc[r], r, parent))
    BY <1>1, <2>1, <2>2, <2>3, TickEffect DEF Applies, Issue
  <2> QED BY <2>4
<1>3. ASSUME Delete(r)
      PROVE  \E id \in VisibleIds(doc[r]) : Applies(r, doc[r], DeleteOf(id))
  <2>1. PICK id \in VisibleIds(doc[r]) : Issue(r, doc[r], DeleteOf(id))
    BY <1>3 DEF Delete
  <2>2. DeleteOf(id) \in Op
    BY EditsAreOps
  <2>3. Applies(r, doc[r], DeleteOf(id))
    BY <1>1, <2>1, <2>2 DEF Applies, Issue
  <2> QED BY <2>3
<1>4. ASSUME Deliver(r)
      PROVE  \E op \in issued : Applies(r, doc[r], op)
  <2>1. PICK op \in issued :
          /\ doc' = [doc EXCEPT ![r] = Apply(@, op)]
          /\ applied' = [applied EXCEPT ![r] = @ \cup {op}]
          /\ issued' = issued
    BY <1>4 DEF Deliver
  <2>2. issued' = issued \cup {op} /\ op \in Op
    BY <2>1 DEF TypeOK
  <2>3. Applies(r, doc[r], op)
    BY <1>1, <2>1, <2>2 DEF Applies
  <2> QED BY <2>3
<1> QED BY <1>2, <1>3, <1>4

LEMMA ApplyingKeepsTypes ==
  ASSUME TypeOK, NEW r, NEW d, NEW op, Applies(r, d, op)
  PROVE  TypeOK'
<1>1. IsDoc(Apply(d, op))
  BY ApplyIsDoc DEF Applies
<1>2. DOMAIN doc' = Replica
  BY DEF Applies, TypeOK
<1>3. \A s \in Replica : IsDoc(doc'[s])
  <2> TAKE s \in Replica
  <2>1. doc'[s] = IF s = r THEN Apply(d, op) ELSE doc[s]
    BY DEF Applies, TypeOK
  <2> QED BY <1>1, <2>1 DEF TypeOK
<1>4. issued' \subseteq Op /\ applied' \in [Replica -> SUBSET issued']
  BY DEF Applies, TypeOK
<1>5. (\A s \in Replica : IsDoc(doc[s]))'
  BY <1>3
<1> QED BY <1>2, <1>4, <1>5 DEF TypeOK

LEMMA ApplyingKeepsStructure ==
  ASSUME TypeOK, NEW r, NEW d, NEW op, Applies(r, d, op),
         StructuresMirrorOps, SiblingsSorted,
         op.type = "insert" => \A o \in Inserts(issued) : o.id = op.id => o = op
  PROVE  StructuresMirrorOps' /\ SiblingsSorted'
<1>1. \A s \in Replica :
        /\ doc'[s] = IF s = r THEN Apply(d, op) ELSE doc[s]
        /\ applied'[s] = IF s = r THEN applied[r] \cup {op} ELSE applied[s]
  BY DEF Applies, TypeOK
<1>2. Mirrors(Apply(d, op), applied[r] \cup {op})
  <2>1. Mirrors(d, applied[r])
    BY DEF Applies, StructuresMirrorOps, Mirrors
  <2>2. applied[r] \in SUBSET Op /\ Inserts(applied[r]) \subseteq Inserts(issued)
    BY DEF TypeOK, Applies, Inserts
  <2> QED BY <2>1, <2>2, ApplyMirrors DEF Applies
<1>3. BucketsSorted(Apply(d, op))
  <2>1. BucketsSorted(d)
    BY DEF Applies, SiblingsSorted, BucketsSorted
  <2> QED BY <2>1, ApplyIsDoc DEF Applies
<1>4. \A s \in Replica : Mirrors(doc'[s], applied'[s])
  BY <1>1, <1>2 DEF StructuresMirrorOps
<1>5. \A s \in Replica : BucketsSorted(doc'[s])
  BY <1>1, <1>3 DEF SiblingsSorted
<1> QED BY <1>4, <1>5 DEF StructuresMirrorOps, SiblingsSorted

(* The parts of LamportOrder that speak of one more operation.             *)
LEMMA ApplyingKeepsClocks ==
  ASSUME TypeOK, NEW r, NEW d, NEW op, Applies(r, d, op), LamportOrder,
         \/ d = doc[r]
         \/ /\ op.type = "insert" /\ op.id \notin DOMAIN d.nodes
            /\ op.id.counter = d.counter,
         op.type = "insert" =>
           /\ op.id.replica = r \/ op \in issued
           /\ op.id.counter > op.parent.counter
           /\ \A o \in Inserts(issued) : o.id = op.id => o = op,
         op.type # "insert" => op.id \in InsertedIds(issued)
  PROVE  LamportOrder'
<1>1. \A s \in Replica : doc'[s] = IF s = r THEN Apply(d, op) ELSE doc[s]
  BY DEF Applies, TypeOK
<1>2. Apply(d, op).counter >= d.counter
      /\ (op.type = "insert" => Apply(d, op).counter >= op.id.counter)
  BY ApplyClock DEF Applies
<1>3. /\ \A s \in Replica : doc[s].counter \in Nat
      /\ \A s \in Replica : doc'[s].counter \in Nat
      /\ d.counter \in Nat
  BY ApplyingKeepsTypes DEF TypeOK, IsDoc, Applies
<1>4. \A s \in Replica : doc'[s].counter >= doc[s].counter
  <2> TAKE s \in Replica
  <2>1. CASE s = r
    <3>1. doc'[s] = Apply(d, op) /\ d.counter >= doc[s].counter
      BY <1>1, <2>1 DEF Applies
    <3> QED BY <1>2, <1>3, <3>1
  <2>2. CASE s # r
    BY <1>1, <1>3, <2>2
  <2> QED BY <2>1, <2>2
<1>5. \A s \in Replica : ClockIsLargestSeen(doc'[s])
  <2>1. ClockIsLargestSeen(Apply(d, op))
    <3>1. ClockIsLargestSeen(doc[r])
      BY DEF LamportOrder, Applies
    <3>2. CASE d = doc[r]
      BY <3>1, <3>2, ApplyKeepsClock DEF Applies
    <3>3. CASE d # doc[r]
      <4>1. \A id \in DOMAIN d.nodes : id.counter <= d.counter
        <5>1. \A id \in DOMAIN doc[r].nodes : id.counter \in Nat /\ id.counter <= doc[r].counter
          BY <3>1, IdsAreRecords DEF ClockIsLargestSeen, TypeOK, IsDoc, Applies
        <5>2. d.counter >= doc[r].counter /\ d.nodes = doc[r].nodes /\ r \in Replica
          BY DEF Applies
        <5> QED BY <1>3, <5>1, <5>2
      <4> QED BY <3>3, <4>1, ApplyKeepsClock DEF Applies
    <3> QED BY <3>2, <3>3
  <2> QED BY <1>1, <2>1 DEF LamportOrder
<1>6. Inserts(issued') = IF op.type = "insert" THEN Inserts(issued) \cup {op} ELSE Inserts(issued)
  BY OneMoreOp DEF Applies
<1>7. \A o \in Inserts(issued) : o.id \in Id /\ o.id.counter \in Nat /\ o.id.replica \in Replica
  BY OpsAreRecords, IdsAreRecords DEF TypeOK, Inserts
<1>8. \A o \in Inserts(issued') :
        /\ o.id.counter <= doc'[o.id.replica].counter
        /\ o.id.counter > o.parent.counter
  <2> TAKE o \in Inserts(issued')
  <2>1. CASE o \in Inserts(issued)
    <3>1. o.id.counter <= doc[o.id.replica].counter /\ o.id.counter > o.parent.counter
      BY <2>1 DEF LamportOrder
    <3>2. doc'[o.id.replica].counter >= doc[o.id.replica].counter
      BY <1>4, <1>7, <2>1
    <3> QED BY <1>3, <1>7, <2>1, <3>1, <3>2
  <2>2. CASE o \notin Inserts(issued)
    <3>1. o = op /\ op.type = "insert" /\ op \notin issued
      BY <1>6, <2>2 DEF Inserts
    <3>2. op.id.replica = r /\ doc'[r] = Apply(d, op) /\ r \in Replica
      BY <1>1, <3>1 DEF Applies
    <3>3. op.id.counter \in Nat
      BY <3>1, OpsAreRecords, IdsAreRecords DEF Applies
    <3> QED BY <1>2, <1>3, <3>1, <3>2, <3>3
  <2> QED BY <2>1, <2>2
<1>9. \A a, b \in Inserts(issued') : a.id = b.id => a = b
  BY <1>6 DEF LamportOrder
<1>10. DeletedIds(issued') \subseteq InsertedIds(issued')
  <2>1. op \in Op /\ issued' = issued \cup {op}
    BY DEF Applies
  <2>2. DeletedIds(issued) \subseteq InsertedIds(issued)
    BY DEF LamportOrder
  <2>3. CASE op.type = "insert"
    BY <2>1, <2>2, <2>3, OneMoreOp
  <2>4. CASE op.type # "insert"
    <3>1. /\ InsertedIds(issued') = InsertedIds(issued)
          /\ DeletedIds(issued') = DeletedIds(issued) \cup {op.id}
      BY <2>1, <2>4, OneMoreOp
    <3> QED BY <2>2, <2>4, <3>1
  <2> QED BY <2>3, <2>4
<1> QED BY <1>5, <1>8, <1>9, <1>10 DEF LamportOrder

-----------------------------------------------------------------------------
(* The specification *)

LEMMA InitTypes == Init => TypeOK
BY EmptyDocument DEF Init, TypeOK

LEMMA NextTypes == TypeOK /\ [Next]_vars => TypeOK'
<1> SUFFICES ASSUME TypeOK, [Next]_vars PROVE TypeOK'
  OBVIOUS
<1>1. ASSUME NEW r \in Replica, Insert(r) PROVE TypeOK'
  BY <1>1, ActionsApply, ApplyingKeepsTypes
<1>2. ASSUME NEW r \in Replica, Delete(r) PROVE TypeOK'
  BY <1>2, ActionsApply, ApplyingKeepsTypes
<1>3. ASSUME NEW r \in Replica, Deliver(r) PROVE TypeOK'
  BY <1>3, ActionsApply, ApplyingKeepsTypes
<1>4. CASE UNCHANGED vars
  BY <1>4 DEF vars, TypeOK
<1> QED BY <1>1, <1>2, <1>3, <1>4 DEF Next

(* Documents keep the shape the class gives them, and only well-formed     *)
(* operations circulate.                                                   *)
THEOREM TypeCorrect == Spec => []TypeOK
BY InitTypes, NextTypes, PTL DEF Spec

LEMMA InitInv == Init => Inv
<1> SUFFICES ASSUME Init PROVE Inv
  OBVIOUS
<1>1. TypeOK
  BY InitTypes
<1>2. \A r \in Replica : doc[r] = NewDoc /\ applied[r] = {}
  BY DEF Init
<1>3. issued = {}
  BY DEF Init
<1>4. /\ DOMAIN NewDoc.nodes = {} /\ NewDoc.tombstones = {}
      /\ DOMAIN NewDoc.children = {ROOT} /\ NewDoc.counter = 0
  BY DEF NewDoc
<1>5. Inserts({}) = {} /\ InsertedIds({}) = {} /\ DeletedIds({}) = {}
  BY DEF Inserts, InsertedIds, DeletedIds
<1>6. StructuresMirrorOps
  <2>1. Mirrors(NewDoc, {})
    BY <1>4, <1>5 DEF Mirrors
  <2> QED BY <1>2, <2>1 DEF StructuresMirrorOps
<1>7. SiblingsSorted
  BY <1>2, EmptyDocument DEF SiblingsSorted
<1>8. LamportOrder
  BY <1>2, <1>3, <1>4, <1>5 DEF LamportOrder, ClockIsLargestSeen
<1> QED BY <1>1, <1>6, <1>7, <1>8 DEF Inv

(* A new id is larger than everything its replica has seen or issued.      *)
LEMMA NewIdIsNew ==
  ASSUME Inv, NEW r \in Replica, NEW parent \in {ROOT} \cup VisibleIds(doc[r])
  PROVE  LET op == InsertAfter(doc[r], r, parent) IN
         /\ op.id \notin DOMAIN doc[r].nodes
         /\ op.id.counter = Tick(doc[r]).counter
         /\ op.id.counter > op.parent.counter
         /\ \A o \in Inserts(issued) : o.id # op.id
<1> DEFINE op == InsertAfter(doc[r], r, parent)
<1>1. /\ op.id.counter = doc[r].counter + 1 /\ op.id.replica = r
      /\ op.parent = parent
      /\ VisibleIds(doc[r]) \subseteq DOMAIN doc[r].nodes
      /\ IsDoc(doc[r])
  BY EditsAreOps DEF Inv
<1>2. doc[r].counter \in Nat /\ Tick(doc[r]).counter = doc[r].counter + 1
  BY <1>1, TickEffect DEF IsDoc
<1>3. \A id \in DOMAIN doc[r].nodes : id.counter \in Nat /\ id.counter <= doc[r].counter
  BY <1>1, IdsAreRecords DEF Inv, LamportOrder, ClockIsLargestSeen, IsDoc
<1>4. \A o \in Inserts(issued) : o.id.counter \in Nat /\ o.id.counter <= doc[o.id.replica].counter
  BY OpsAreRecords, IdsAreRecords DEF Inv, TypeOK, LamportOrder, Inserts
<1> HIDE DEF op
<1>5. op.id \notin DOMAIN doc[r].nodes
  BY <1>1, <1>2, <1>3
<1>6. op.id.counter > op.parent.counter
  <2>1. CASE parent = ROOT
    <3>1. ROOT.counter = 0
      BY DEF ROOT
    <3> QED BY <1>1, <1>2, <2>1, <3>1
  <2>2. CASE parent \in VisibleIds(doc[r])
    BY <1>1, <1>2, <1>3, <2>2
  <2> QED BY <2>1, <2>2
<1>7. \A o \in Inserts(issued) : o.id # op.id
  BY <1>1, <1>2, <1>4
<1> QED BY <1>1, <1>2, <1>5, <1>6, <1>7 DEF op

LEMMA NextInv == Inv /\ [Next]_vars => Inv'
<1> SUFFICES ASSUME Inv, [Next]_vars PROVE Inv'
  OBVIOUS
<1>1. TypeOK /\ StructuresMirrorOps /\ SiblingsSorted /\ LamportOrder
  BY DEF Inv
<1>2. TypeOK'
  BY <1>1, NextTypes
<1>3. ASSUME NEW r \in Replica, Insert(r)
      PROVE  StructuresMirrorOps' /\ SiblingsSorted' /\ LamportOrder'
  <2>1. PICK parent \in {ROOT} \cup VisibleIds(doc[r]) :
          Applies(r, Tick(doc[r]), InsertAfter(doc[r], r, parent))
    BY <1>1, <1>3, ActionsApply
  <2> DEFINE op == InsertAfter(doc[r], r, parent)
  <2>2. /\ op.id \notin DOMAIN doc[r].nodes /\ op.id.counter = Tick(doc[r]).counter
        /\ op.id.counter > op.parent.counter
        /\ \A o \in Inserts(issued) : o.id # op.id
    BY NewIdIsNew
  <2>3. op.type = "insert" /\ op.id.replica = r /\ Tick(doc[r]).nodes = doc[r].nodes
    BY <1>1, EditsAreOps, TickEffect
  <2> HIDE DEF op
  <2>4. Applies(r, Tick(doc[r]), op)
    BY <2>1 DEF op
  <2>5. StructuresMirrorOps' /\ SiblingsSorted'
    BY <1>1, <2>2, <2>4, ApplyingKeepsStructure
  <2>6. LamportOrder'
    BY <1>1, <2>2, <2>3, <2>4, ApplyingKeepsClocks
  <2> QED BY <2>5, <2>6
<1>4. ASSUME NEW r \in Replica, Delete(r)
      PROVE  StructuresMirrorOps' /\ SiblingsSorted' /\ LamportOrder'
  <2>1. PICK id \in VisibleIds(doc[r]) : Applies(r, doc[r], DeleteOf(id))
    BY <1>1, <1>4, ActionsApply
  <2> DEFINE op == DeleteOf(id)
  <2>2. op.type = "delete" /\ op.id = id
    BY <1>1, EditsAreOps
  <2>3. id \in InsertedIds(issued)
    <3>1. id \in InsertedIds(applied[r])
      BY <1>1, EditsAreOps DEF StructuresMirrorOps, Mirrors
    <3>2. applied[r] \subseteq issued
      BY <1>1 DEF TypeOK
    <3> QED BY <3>1, <3>2 DEF InsertedIds, Inserts
  <2> HIDE DEF op
  <2>4. Applies(r, doc[r], op)
    BY <2>1 DEF op
  <2>5. StructuresMirrorOps' /\ SiblingsSorted'
    BY <1>1, <2>2, <2>4, ApplyingKeepsStructure
  <2>6. LamportOrder'
    BY <1>1, <2>2, <2>3, <2>4, ApplyingKeepsClocks
  <2> QED BY <2>5, <2>6
<1>5. ASSUME NEW r \in Replica, Deliver(r)
      PROVE  StructuresMirrorOps' /\ SiblingsSorted' /\ LamportOrder'
  <2>1. PICK op \in issued : Applies(r, doc[r], op)
    BY <1>1, <1>5, ActionsApply
  <2>2. op.type = "insert" => /\ op \in Inserts(issued)
                              /\ op.id.counter > op.parent.counter
                              /\ \A o \in Inserts(issued) : o.id = op.id => o = op
    BY <1>1 DEF LamportOrder, Inserts
  <2>3. op.type # "insert" => op.id \in InsertedIds(issued)
    <3>1. op \in Op
      BY <1>1 DEF TypeOK
    <3>2. op.type # "insert" => op.id \in DeletedIds(issued)
      BY <3>1, OpsAreRecords DEF DeletedIds
    <3> QED BY <1>1, <3>2 DEF LamportOrder
  <2>4. StructuresMirrorOps' /\ SiblingsSorted'
    BY <1>1, <2>1, <2>2, ApplyingKeepsStructure
  <2>5. LamportOrder'
    BY <1>1, <2>1, <2>2, <2>3, ApplyingKeepsClocks
  <2> QED BY <2>4, <2>5
<1>6. CASE UNCHANGED vars
  BY <1>1, <1>2, <1>6 DEF vars, Inv, StructuresMirrorOps, SiblingsSorted, LamportOrder
<1> QED BY <1>2, <1>3, <1>4, <1>5, <1>6 DEF Inv, Next

(* What each document is made of, in every reachable state.                *)
THEOREM Invariance == Spec => []Inv
BY InitInv, NextInv, PTL DEF Spec

-----------------------------------------------------------------------------
(* Convergence *)

LEMMA InvImpliesConvergence == Inv => Convergence
<1> SUFFICES ASSUME Inv, NEW r \in Replica, NEW s \in Replica, applied[r] = applied[s]
             PROVE  doc[r] = doc[s]
  BY DEF Convergence
<1>1. /\ IsDoc(doc[r]) /\ Mirrors(doc[r], applied[r])
      /\ BucketsSorted(doc[r]) /\ ClockIsLargestSeen(doc[r])
      /\ IsDoc(doc[s]) /\ Mirrors(doc[s], applied[r])
      /\ BucketsSorted(doc[s]) /\ ClockIsLargestSeen(doc[s])
  BY DEF Inv, TypeOK, StructuresMirrorOps, SiblingsSorted, LamportOrder
<1> QED BY <1>1, SameOpsSameDocument

(* Replicas that applied the same operations hold the same document.       *)
THEOREM Converges == Spec => []Convergence
BY Invariance, InvImpliesConvergence, PTL

(* No two inserts ever share an id, and clocks keep up with what they see. *)
THEOREM ClocksAreLamport == Spec => []LamportOrder
<1>1. Inv => LamportOrder
  BY DEF Inv
<1> QED BY <1>1, Invariance, PTL

(* Documents depend on the operations applied, never on their order.       *)
THEOREM DocumentsMirrorOps == Spec => [](StructuresMirrorOps /\ SiblingsSorted)
<1>1. Inv => StructuresMirrorOps /\ SiblingsSorted
  BY DEF Inv
<1> QED BY <1>1, Invariance, PTL

(* Siblings stay sorted, newest first, in whatever order they arrive.      *)
THEOREM BucketsStaySorted == Spec => []SiblingsSorted
BY DocumentsMirrorOps, PTL

-----------------------------------------------------------------------------
(* The document order *)

(* Every document is a tree that grows away from ROOT, and what two of     *)
(* them have in common hangs at the same place.                            *)
LEMMA DocumentsAreTrees ==
  ASSUME Inv
  PROVE  /\ \A r \in Replica : Tree(doc[r])
         /\ \A r, s \in Replica : SameParents(doc[r], doc[s])
<1>1. TypeOK /\ StructuresMirrorOps /\ SiblingsSorted /\ LamportOrder
  BY DEF Inv
<1>2. \A r \in Replica : \A id \in DOMAIN doc[r].nodes :
        \E op \in Inserts(issued) : op.id = id /\ doc[r].nodes[id].parent = op.parent
  <2> TAKE r \in Replica
  <2> TAKE id \in DOMAIN doc[r].nodes
  <2>1. Mirrors(doc[r], applied[r]) /\ applied[r] \subseteq issued
    BY <1>1 DEF StructuresMirrorOps, TypeOK
  <2>2. PICK op \in Inserts(applied[r]) : op.id = id
    BY <2>1 DEF Mirrors, InsertedIds
  <2>3. op \in Inserts(issued)
    BY <2>1, <2>2 DEF Inserts
  <2> QED BY <2>1, <2>2, <2>3 DEF Mirrors
<1>3. \A r \in Replica : Tree(doc[r])
  <2> TAKE r \in Replica
  <2>1. IsDoc(doc[r]) /\ BucketsSorted(doc[r]) /\ ClockIsLargestSeen(doc[r])
    BY <1>1 DEF TypeOK, SiblingsSorted, LamportOrder
  <2>2. \A id \in DOMAIN doc[r].nodes : id.counter > doc[r].nodes[id].parent.counter
    BY <1>1, <1>2 DEF LamportOrder
  <2> QED BY <2>1, <2>2 DEF Tree, ClockIsLargestSeen
<1>4. \A r, s \in Replica : SameParents(doc[r], doc[s])
  BY <1>1, <1>2 DEF SameParents, LamportOrder
<1> QED BY <1>3, <1>4

(* No two replicas ever contradict one another on the order of two         *)
(* elements, whatever each has and has not received.                       *)
THEOREM OrderIsOne == Spec => []OneOrder
<1>1. Inv => OneOrder
  <2> SUFFICES ASSUME Inv, NEW r \in Replica, NEW s \in Replica, NEW x, NEW y,
                      Precedes(Ordered(doc[r]), x, y), Precedes(Ordered(doc[s]), y, x)
               PROVE  FALSE
    BY DEF OneOrder
  <2>1. Tree(doc[r]) /\ Tree(doc[s]) /\ SameParents(doc[s], doc[r])
    BY DocumentsAreTrees
  <2>2. /\ Ordered(doc[r]) \in Seq(Id) /\ \A z : ~ Precedes(Ordered(doc[r]), z, z)
    BY <2>1, OrderedLists
  <2>3. x \in ToSet(Ordered(doc[r])) /\ y \in ToSet(Ordered(doc[r]))
    BY <2>2, PrecedesMembers
  <2>4. Precedes(Ordered(doc[r]), y, x)
    BY <2>1, <2>3, OrdersAgree
  <2> QED BY <2>2, <2>4, PrecedesOneWay
<1> QED BY <1>1, Invariance, PTL

(* A document with no parent missing shows all its elements, each once.    *)
THEOREM WalkIsComplete == Spec => []SelfHeals
<1>1. Inv => SelfHeals
  <2> SUFFICES ASSUME Inv, NEW r \in Replica,
                      \A op \in Inserts(applied[r]) :
                        op.parent \in {ROOT} \cup InsertedIds(applied[r])
               PROVE  /\ Range(Ordered(doc[r])) = DOMAIN doc[r].nodes
                      /\ Len(Ordered(doc[r])) = Cardinality(DOMAIN doc[r].nodes)
    BY DEF SelfHeals
  <2>1. Tree(doc[r]) /\ Mirrors(doc[r], applied[r])
    BY DocumentsAreTrees DEF Inv, StructuresMirrorOps
  <2>2. \A id \in DOMAIN doc[r].nodes : doc[r].nodes[id].parent \in Places(doc[r])
    <3> TAKE id \in DOMAIN doc[r].nodes
    <3>1. PICK op \in Inserts(applied[r]) : op.id = id
      BY <2>1 DEF Mirrors, InsertedIds
    <3> QED BY <2>1, <3>1 DEF Mirrors, Places
  <2>3. /\ Ordered(doc[r]) \in Seq(Id) /\ \A x : ~ Precedes(Ordered(doc[r]), x, x)
        /\ ToSet(Ordered(doc[r])) = DOMAIN doc[r].nodes
    BY <2>1, <2>2, OrderedLists
  <2>4. Range(Ordered(doc[r])) = ToSet(Ordered(doc[r]))
    BY DEF Range, ToSet
  <2> QED BY <2>3, <2>4, ListWithoutDuplicates
<1> QED BY <1>1, Invariance, PTL

-----------------------------------------------------------------------------
(* Snapshots *)

(* Behind a causal transport nobody has an operation without what it       *)
(* refers to; without one a snapshot leaves out what the walk does not     *)
(* reach.                                                                  *)
SnapshotInv == Inv /\ \A r \in Replica : Whole(applied[r])

LEMMA DocumentsAreSound ==
  ASSUME Inv
  PROVE  /\ UniqueIds(issued) /\ issued \subseteq Op
         /\ \A r \in Replica : /\ applied[r] \subseteq issued
                               /\ Sound(doc[r], applied[r]) /\ Tree(doc[r])
<1>1. TypeOK /\ StructuresMirrorOps /\ SiblingsSorted /\ LamportOrder
  BY DEF Inv
<1>2. UniqueIds(issued) /\ issued \subseteq Op /\ \A r \in Replica : applied[r] \subseteq issued
  BY <1>1 DEF LamportOrder, UniqueIds, TypeOK
<1>3. \A r \in Replica : Sound(doc[r], applied[r])
  BY <1>1 DEF TypeOK, StructuresMirrorOps, SiblingsSorted, LamportOrder, Sound
<1> QED BY <1>2, <1>3, DocumentsAreTrees

LEMMA InvImpliesFaithful ==
  ASSUME SnapshotInv
  PROVE  RestoreIsFaithful
<1> SUFFICES ASSUME NEW r \in Replica PROVE FromSnapshot(Snapshot(doc[r])) = doc[r]
  BY DEF RestoreIsFaithful
<1>1. /\ applied[r] \in SUBSET Op /\ Sound(doc[r], applied[r]) /\ Tree(doc[r])
      /\ UniqueIds(applied[r]) /\ Whole(applied[r])
  BY DocumentsAreSound, SubsetUnique DEF SnapshotInv
<1> QED BY <1>1, RestoreGivesTheDocument

LEMMA InitSnapshotInv == Init => SnapshotInv
<1> SUFFICES ASSUME Init PROVE SnapshotInv
  OBVIOUS
<1>1. \A r \in Replica : applied[r] = {}
  BY DEF Init
<1>2. Whole({})
  BY DEF Whole, Inserts, InsertedIds, DeletedIds
<1> QED BY <1>1, <1>2, InitInv DEF SnapshotInv

(* One operation more, and what it refers to is there.                     *)
LEMMA StaysWhole ==
  ASSUME NEW ops, NEW op \in Op, Whole(ops),
         op.type = "insert" => op.parent \in {ROOT} \cup InsertedIds(ops),
         op.type # "insert" => op.id \in InsertedIds(ops)
  PROVE  Whole(ops \cup {op})
<1>1. CASE op.type = "insert"
  <2>1. /\ Inserts(ops \cup {op}) = Inserts(ops) \cup {op}
        /\ InsertedIds(ops \cup {op}) = InsertedIds(ops) \cup {op.id}
        /\ DeletedIds(ops \cup {op}) = DeletedIds(ops)
    BY <1>1, OneMoreOp
  <2> QED BY <1>1, <2>1 DEF Whole
<1>2. CASE op.type # "insert"
  <2>1. /\ Inserts(ops \cup {op}) = Inserts(ops)
        /\ InsertedIds(ops \cup {op}) = InsertedIds(ops)
        /\ DeletedIds(ops \cup {op}) = DeletedIds(ops) \cup {op.id}
    BY <1>2, OneMoreOp
  <2> QED BY <1>2, <2>1 DEF Whole
<1> QED BY <1>1, <1>2

LEMMA UnionIsWhole ==
  ASSUME NEW ops, NEW more, Whole(ops), Whole(more)
  PROVE  Whole(ops \cup more)
BY DEF Whole, Inserts, InsertedIds, DeletedIds

LEMMA ApplyingStaysWhole ==
  ASSUME Inv, NEW r, NEW d, NEW op, Applies(r, d, op),
         \A s \in Replica : Whole(applied[s]),
         op.type = "insert" => op.parent \in {ROOT} \cup InsertedIds(applied[r]),
         op.type # "insert" => op.id \in InsertedIds(applied[r])
  PROVE  \A s \in Replica : Whole(applied'[s])
<1>1. r \in Replica /\ op \in Op
  BY DEF Applies
<1>2. Whole(applied[r] \cup {op})
  BY <1>1, StaysWhole
<1>3. \A s \in Replica : applied'[s] = IF s = r THEN applied[r] \cup {op} ELSE applied[s]
  BY DEF Applies, Inv, TypeOK
<1> QED BY <1>2, <1>3

(* Merging a snapshot is applying all the operations of the other replica. *)
LEMMA MergeKeepsInv ==
  ASSUME SnapshotInv, NEW r \in Replica, Merge(r)
  PROVE  SnapshotInv'
<1>1. TypeOK /\ StructuresMirrorOps /\ SiblingsSorted /\ LamportOrder
  BY DEF SnapshotInv, Inv
<1>2. PICK s \in Replica :
        /\ doc' = [doc EXCEPT ![r] = MergeSnapshot(@, Snapshot(doc[s]))]
        /\ applied' = [applied EXCEPT ![r] = @ \cup SnapshotOps(Snapshot(doc[s]))]
        /\ issued' = issued
  BY DEF Merge
<1> DEFINE snap == Snapshot(doc[s])
           new  == MergeSnapshot(doc[r], snap)
           ops  == applied[r] \cup applied[s]
<1>3. /\ UniqueIds(issued) /\ issued \subseteq Op /\ ops \subseteq issued
      /\ applied[r] \in SUBSET Op /\ applied[s] \in SUBSET Op
      /\ Sound(doc[r], applied[r]) /\ Sound(doc[s], applied[s]) /\ Tree(doc[s])
      /\ Whole(applied[r]) /\ Whole(applied[s])
  BY DocumentsAreSound DEF SnapshotInv
<1>4. snap \in Seq(Node) /\ SnapshotOps(snap) = applied[s]
  BY <1>3, SnapshotHolds DEF Sound
<1> HIDE DEF snap
<1>5. UniqueIds(applied[r] \cup SnapshotOps(snap))
  BY <1>3, <1>4, SubsetUnique
<1>6. Sound(new, ops) /\ new.counter >= doc[r].counter
  BY <1>3, <1>4, <1>5, MergeSound
<1>7. /\ DOMAIN doc' = Replica
      /\ \A q \in Replica : doc'[q] = IF q = r THEN new ELSE doc[q]
      /\ \A q \in Replica : applied'[q] = IF q = r THEN ops ELSE applied[q]
  BY <1>1, <1>2, <1>4 DEF TypeOK, snap
<1>8. applied' \in [Replica -> SUBSET issued]
  <2>1. applied' = [applied EXCEPT ![r] = ops]
    BY <1>1, <1>2, <1>4 DEF TypeOK, snap
  <2> HIDE DEF ops
  <2> QED BY <1>1, <1>3, <2>1 DEF TypeOK
<1> HIDE DEF new, ops
<1>9. \A q \in Replica : Sound(doc'[q], applied'[q])
  BY <1>6, <1>7, DocumentsAreSound DEF SnapshotInv
<1>10. TypeOK'
  BY <1>1, <1>2, <1>7, <1>8, <1>9 DEF TypeOK, Sound
<1>11. StructuresMirrorOps' /\ SiblingsSorted'
  BY <1>9 DEF StructuresMirrorOps, SiblingsSorted, Sound
<1>12. LamportOrder'
  <2>1. \A q \in Replica : doc[q].counter \in Nat /\ doc'[q].counter \in Nat
    BY <1>1, <1>10 DEF TypeOK, IsDoc
  <2>2. \A q \in Replica : doc'[q].counter >= doc[q].counter
    BY <1>6, <1>7, <2>1
  <2>3. \A o \in Inserts(issued) : o.id.counter \in Nat /\ o.id.replica \in Replica
    BY <1>3, OpsAreRecords, IdsAreRecords DEF Inserts
  <2>4. \A o \in Inserts(issued) : o.id.counter <= doc'[o.id.replica].counter
    <3> TAKE o \in Inserts(issued)
    <3>1. o.id.counter <= doc[o.id.replica].counter
      BY <1>1 DEF LamportOrder
    <3> QED BY <2>1, <2>2, <2>3, <3>1
  <2>5. \A q \in Replica : ClockIsLargestSeen(doc'[q])
    BY <1>9 DEF Sound
  <2> QED BY <1>1, <1>2, <2>4, <2>5 DEF LamportOrder
<1>13. \A q \in Replica : Whole(applied'[q])
  BY <1>3, <1>7, UnionIsWhole DEF SnapshotInv, ops
<1> QED BY <1>10, <1>11, <1>12, <1>13 DEF SnapshotInv, Inv

LEMMA NextSnapshotInv ==
  ASSUME Causal, SnapshotInv, [SnapshotNext]_vars
  PROVE  SnapshotInv'
<1>1. Inv /\ TypeOK /\ \A r \in Replica : Whole(applied[r])
  BY DEF SnapshotInv, Inv
<1>2. \A r \in Replica : DOMAIN doc[r].nodes = InsertedIds(applied[r])
  BY <1>1 DEF Inv, StructuresMirrorOps, Mirrors
<1>3. ASSUME NEW r \in Replica, Insert(r) PROVE SnapshotInv'
  <2>1. Inv'
    BY <1>1, <1>3, NextInv DEF Next
  <2>2. PICK parent \in {ROOT} \cup VisibleIds(doc[r]) :
          Applies(r, Tick(doc[r]), InsertAfter(doc[r], r, parent))
    BY <1>1, <1>3, ActionsApply
  <2> DEFINE op == InsertAfter(doc[r], r, parent)
  <2>3. op.type = "insert" /\ op.parent \in {ROOT} \cup InsertedIds(applied[r])
    BY <1>1, <1>2, EditsAreOps
  <2> HIDE DEF op
  <2>4. \A s \in Replica : Whole(applied'[s])
    BY <1>1, <2>2, <2>3, ApplyingStaysWhole DEF op
  <2> QED BY <2>1, <2>4 DEF SnapshotInv
<1>4. ASSUME NEW r \in Replica, Delete(r) PROVE SnapshotInv'
  <2>1. Inv'
    BY <1>1, <1>4, NextInv DEF Next
  <2>2. PICK id \in VisibleIds(doc[r]) : Applies(r, doc[r], DeleteOf(id))
    BY <1>1, <1>4, ActionsApply
  <2> DEFINE op == DeleteOf(id)
  <2>3. op.type = "delete" /\ op.id \in InsertedIds(applied[r])
    BY <1>1, <1>2, EditsAreOps
  <2> HIDE DEF op
  <2>4. \A s \in Replica : Whole(applied'[s])
    BY <1>1, <2>2, <2>3, ApplyingStaysWhole DEF op
  <2> QED BY <2>1, <2>4 DEF SnapshotInv
<1>5. ASSUME NEW r \in Replica, DeliverReady(r) PROVE SnapshotInv'
  <2>1. PICK op \in issued :
          /\ Ready(r, op)
          /\ doc' = [doc EXCEPT ![r] = Apply(@, op)]
          /\ applied' = [applied EXCEPT ![r] = @ \cup {op}]
          /\ issued' = issued
    BY <1>5 DEF DeliverReady
  <2>2. Deliver(r)
    BY <2>1 DEF Deliver
  <2>3. Inv'
    BY <1>1, <2>2, NextInv DEF Next
  <2>4. op \in Op
    BY <1>1 DEF TypeOK
  <2>5. Whole(applied[r] \cup {op})
    <3>1. op.type = "insert" => op.parent \in {ROOT} \cup InsertedIds(applied[r])
      BY <2>1 DEF Ready
    <3>2. op.type # "insert" => op.id \in InsertedIds(applied[r])
      <4>1. ASSUME op.type # "insert" PROVE op.id \in Id
        BY <2>4, <4>1, OpsAreRecords
      <4> QED BY <2>1, <4>1, IdsAreRecords DEF Ready
    <3> QED BY <1>1, <2>4, <3>1, <3>2, StaysWhole
  <2>6. \A s \in Replica : applied'[s] = IF s = r THEN applied[r] \cup {op} ELSE applied[s]
    BY <1>1, <2>1 DEF TypeOK
  <2>7. \A s \in Replica : Whole(applied'[s])
    BY <1>1, <2>5, <2>6
  <2> QED BY <2>3, <2>7 DEF SnapshotInv
<1>6. ASSUME DOMAIN doc' = Replica, \A q \in Replica : doc'[q] = doc[q],
             UNCHANGED <<issued, applied>>
      PROVE  SnapshotInv'
  <2>1. TypeOK'
    BY <1>1, <1>6 DEF TypeOK
  <2>2. StructuresMirrorOps'
    BY <1>1, <1>6 DEF Inv, StructuresMirrorOps
  <2>3. SiblingsSorted'
    BY <1>1, <1>6 DEF Inv, SiblingsSorted
  <2>4. LamportOrder'
    <3>1. \A q \in Replica : ClockIsLargestSeen(doc'[q])
      BY <1>1, <1>6 DEF Inv, LamportOrder
    <3>2. \A op \in Inserts(issued) : op.id.replica \in Replica
      BY <1>1, OpsAreRecords, IdsAreRecords DEF TypeOK, Inserts
    <3>3. \A op \in Inserts(issued) : doc'[op.id.replica] = doc[op.id.replica]
      BY <1>6, <3>2
    <3> QED BY <1>1, <1>6, <3>1, <3>3 DEF Inv, LamportOrder
  <2>5. \A r \in Replica : Whole(applied'[r])
    BY <1>1, <1>6
  <2> QED BY <2>1, <2>2, <2>3, <2>4, <2>5 DEF SnapshotInv, Inv
<1>7. ASSUME NEW r \in Replica, Restore(r) PROVE SnapshotInv'
  <2>1. FromSnapshot(Snapshot(doc[r])) = doc[r]
    BY InvImpliesFaithful DEF RestoreIsFaithful
  <2>2. DOMAIN doc' = Replica /\ \A q \in Replica : doc'[q] = doc[q]
    BY <1>1, <1>7, <2>1 DEF Restore, TypeOK
  <2> QED BY <1>6, <1>7, <2>2 DEF Restore
<1>8. ASSUME NEW r \in Replica, Merge(r) PROVE SnapshotInv'
  BY <1>8, MergeKeepsInv
<1>9. CASE UNCHANGED vars
  BY <1>1, <1>6, <1>9 DEF vars, TypeOK
<1> QED BY <1>3, <1>4, <1>5, <1>7, <1>8, <1>9 DEF SnapshotNext

(* Documents are passed around as snapshots in these theorems; the         *)
(* transport is causal.                                                    *)
LEMMA SnapshotInvariance == Causal => (SnapshotSpec => []SnapshotInv)
<1> SUFFICES ASSUME Causal PROVE SnapshotSpec => []SnapshotInv
  OBVIOUS
<1>1. SnapshotInv /\ [SnapshotNext]_vars => SnapshotInv'
  BY NextSnapshotInv
<1> QED BY <1>1, InitSnapshotInv, PTL DEF SnapshotSpec

(* A document read back from its snapshot is the document, clock and       *)
(* tombstones included.                                                    *)
THEOREM SnapshotsAreFaithful == Causal => (SnapshotSpec => []RestoreIsFaithful)
<1> SUFFICES ASSUME Causal PROVE SnapshotSpec => []RestoreIsFaithful
  OBVIOUS
<1>1. SnapshotInv => RestoreIsFaithful
  BY InvImpliesFaithful
<1>2. SnapshotSpec => []SnapshotInv
  BY SnapshotInvariance
<1> QED BY <1>1, <1>2, PTL

(* Merging a snapshot brings all it stands for and drops nothing.          *)
THEOREM MergesAreUnions == Causal => (SnapshotSpec => []MergeIsUnion)
<1> SUFFICES ASSUME Causal PROVE SnapshotSpec => []MergeIsUnion
  OBVIOUS
<1>1. SnapshotInv => MergeIsUnion
  BY DEF SnapshotInv, Inv, MergeIsUnion
<1>2. SnapshotSpec => []SnapshotInv
  BY SnapshotInvariance
<1> QED BY <1>1, <1>2, PTL

(* Whether a replica was reloaded on the way makes no difference.          *)
THEOREM ReloadsAreUnseen == Causal => (SnapshotSpec => []RestoreThenContinue)
<1> SUFFICES ASSUME Causal PROVE SnapshotSpec => []RestoreThenContinue
  OBVIOUS
<1>1. SnapshotInv => RestoreThenContinue
  BY InvImpliesConvergence DEF SnapshotInv, Convergence, RestoreThenContinue
<1>2. SnapshotSpec => []SnapshotInv
  BY SnapshotInvariance
<1> QED BY <1>1, <1>2, PTL
=============================================================================
