----------------------------- MODULE RGALemmas ------------------------------
(***************************************************************************)
(* Facts about the operators of RGA, for every replica set and document:   *)
(* the id order, the slot of a new sibling, the lists splicing produces,   *)
(* and what applying one operation does to each field of a document.       *)
(***************************************************************************)
EXTENDS RGA, BasicLemmas

-----------------------------------------------------------------------------
(* The order on ids and sorted lists *)

IdOrRoot == Id \cup {ROOT}

LEMMA IdsAreRecords ==
  /\ \A a, b \in Id :
       /\ a.counter \in Nat \ {0} /\ a.replica \in Replica /\ a.replica \in Nat
       /\ a.counter = b.counter /\ a.replica = b.replica => a = b
  /\ ROOT \notin Id
<1>1. \A a \in Id : /\ a.counter \in Nat \ {0} /\ a.replica \in Replica
                   /\ a.replica \in Nat
                   /\ a = [counter |-> a.counter, replica |-> a.replica]
  <2> TAKE a \in Id
  <2>1. a.counter \in Nat \ {0} /\ a.replica \in Replica
    BY DEF Id
  <2>2. a = [counter |-> a.counter, replica |-> a.replica]
    BY DEF Id
  <2> QED BY <2>1, <2>2, ReplicaAssumption
<1>2. ROOT \notin Id
  <2>1. ROOT.counter = 0
    BY DEF ROOT
  <2> QED BY <2>1, <1>1
<1> QED BY <1>1, <1>2

(* compareId is a strict total order on the ids of a document (id.ts:44). *)
LEMMA AfterIsStrictOrder ==
  /\ \A a \in Id : ~ After(a, a)
  /\ \A a, b, c \in Id : After(a, b) /\ After(b, c) => After(a, c)
  /\ \A a, b \in Id : a # b => After(a, b) \/ After(b, a)
  /\ \A a, b \in Id : After(a, b) => ~ After(b, a)
BY IdsAreRecords DEF After

(* Slot is a position of the list or its end, everything before it sorts   *)
(* after the new id, and what it points at does not.                       *)
LEMMA SlotProperties ==
  ASSUME NEW list \in Seq(Id), NEW id \in Id
  PROVE  /\ Slot(list, id) \in 1 .. Len(list) + 1
         /\ \A j \in 1 .. Slot(list, id) - 1 : After(list[j], id)
         /\ Slot(list, id) <= Len(list) => ~ After(list[Slot(list, id)], id)
<1> DEFINE T == {i \in 1 .. Len(list) + 1 : i <= Len(list) => ~ After(list[i], id)}
           P(i) == /\ \A j \in 1 .. i - 1 : After(list[j], id)
                   /\ i <= Len(list) => ~ After(list[i], id)
<1>1. Len(list) \in Nat
  BY LenProperties
<1>2. Len(list) + 1 \in T
  BY <1>1
<1>3. PICK m \in T : \A k \in T : m <= k
  <2>1. T \subseteq Nat /\ T # {}
    BY <1>1, <1>2
  <2> QED BY <2>1, LeastNatural
<1>4. m \in 1 .. Len(list) + 1 /\ P(m)
  BY <1>1, <1>3
<1>5. \E i \in 1 .. Len(list) + 1 : P(i)
  BY <1>4
<1>6. Slot(list, id) = CHOOSE i \in 1 .. Len(list) + 1 : P(i)
  BY DEF Slot
<1> HIDE DEF P
<1>7. Slot(list, id) \in 1 .. Len(list) + 1 /\ P(Slot(list, id))
  BY <1>5, <1>6
<1> QED BY <1>7 DEF P

(* splice(i, 0, e): one element longer, the others in place and in order. *)
LEMMA InsertAtProperties ==
  ASSUME NEW S, NEW s \in Seq(S), NEW e \in S, NEW i \in 1 .. Len(s) + 1
  PROVE  /\ InsertAt(s, i, e) \in Seq(S)
         /\ Len(InsertAt(s, i, e)) = Len(s) + 1
         /\ \A j \in 1 .. Len(s) + 1 :
              InsertAt(s, i, e)[j] = IF j < i THEN s[j] ELSE IF j = i THEN e ELSE s[j - 1]
<1> DEFINE a == SubSeq(s, 1, i - 1)
           b == SubSeq(s, i, Len(s))
<1>1. Len(s) \in Nat /\ i \in Nat /\ i >= 1 /\ i <= Len(s) + 1
  BY LenProperties
<1>2. /\ a \in Seq(S) /\ Len(a) = i - 1
      /\ \A j \in 1 .. i - 1 : a[j] = s[j]
  <2>1. \A j \in 1 .. i - 1 : s[j] \in S
    BY <1>1, ElementOfSeq
  <2>2. /\ a \in Seq(S)
        /\ Len(a) = IF 1 <= i - 1 THEN i - 1 - 1 + 1 ELSE 0
        /\ \A j \in 1 .. i - 1 - 1 + 1 : a[j] = s[1 + j - 1]
    BY <2>1, <1>1, SubSeqProperties
  <2> QED BY <2>2, <1>1
<1>3. /\ b \in Seq(S) /\ Len(b) = Len(s) - i + 1
      /\ \A j \in 1 .. Len(s) - i + 1 : b[j] = s[i + j - 1]
  <2>1. \A j \in i .. Len(s) : s[j] \in S
    BY <1>1, ElementOfSeq
  <2>2. /\ b \in Seq(S)
        /\ Len(b) = IF i <= Len(s) THEN Len(s) - i + 1 ELSE 0
        /\ \A j \in 1 .. Len(s) - i + 1 : b[j] = s[i + j - 1]
    BY <2>1, <1>1, SubSeqProperties
  <2> QED BY <2>2, <1>1
<1> HIDE DEF a, b
<1> DEFINE c == a \o <<e>>
<1>4. /\ c \in Seq(S) /\ Len(c) = i
      /\ \A j \in 1 .. i : c[j] = IF j < i THEN s[j] ELSE e
  <2>1. <<e>> \in Seq(S) /\ Len(<<e>>) = 1 /\ <<e>>[1] = e
    OBVIOUS
  <2>2. /\ c \in Seq(S) /\ Len(c) = Len(a) + 1
        /\ \A j \in 1 .. Len(a) + 1 : c[j] = IF j <= Len(a) THEN a[j] ELSE <<e>>[j - Len(a)]
    BY <1>2, <2>1, ConcatProperties
  <2> QED BY <2>1, <2>2, <1>1, <1>2
<1> HIDE DEF c
<1>5. /\ c \o b \in Seq(S) /\ Len(c \o b) = Len(c) + Len(b)
      /\ \A j \in 1 .. Len(c) + Len(b) :
           (c \o b)[j] = IF j <= Len(c) THEN c[j] ELSE b[j - Len(c)]
  BY <1>3, <1>4, ConcatProperties
<1>6. InsertAt(s, i, e) = c \o b
  BY DEF InsertAt, a, b, c
<1>7. \A j \in 1 .. Len(s) + 1 :
        (c \o b)[j] = IF j < i THEN s[j] ELSE IF j = i THEN e ELSE s[j - 1]
  <2> TAKE j \in 1 .. Len(s) + 1
  <2>1. CASE j <= i
    BY <2>1, <1>1, <1>3, <1>4, <1>5
  <2>2. CASE j > i
    <3>1. j - i \in 1 .. Len(s) - i + 1 /\ i + (j - i) - 1 = j - 1
      BY <2>2, <1>1
    <3>2. b[j - i] = s[i + (j - i) - 1]
      BY <3>1, <1>3
    <3>3. (c \o b)[j] = b[j - i]
      BY <2>2, <1>1, <1>3, <1>4, <1>5
    <3>4. (c \o b)[j] = s[j - 1]
      BY <3>1, <3>2, <3>3
    <3>5. ~ (j < i) /\ j # i
      BY <2>2, <1>1
    <3> QED BY <3>4, <3>5, Zenon
  <2>3. j <= i \/ j > i
    BY <1>1
  <2> QED BY <2>1, <2>2, <2>3, Zenon
<1> QED BY <1>1, <1>3, <1>4, <1>5, <1>6, <1>7

(* linkChild on one bucket: the new id joins the list, and a sorted list   *)
(* without it stays sorted.                                                *)
LEMMA LinkedList ==
  ASSUME NEW list \in Seq(Id), NEW id \in Id
  PROVE  LET new == InsertAt(list, Slot(list, id), id) IN
         /\ new \in Seq(Id)
         /\ Range(new) = Range(list) \cup {id}
         /\ Descending(list) /\ id \notin Range(list) => Descending(new)
<1> DEFINE k   == Slot(list, id)
           new == InsertAt(list, k, id)
<1>1. Len(list) \in Nat /\ Range(list) = {list[i] : i \in 1 .. Len(list)}
  BY LenProperties, RangeEquality
<1>2. /\ k \in 1 .. Len(list) + 1
      /\ \A j \in 1 .. k - 1 : After(list[j], id)
      /\ k <= Len(list) => ~ After(list[k], id)
  BY SlotProperties
<1> HIDE DEF k
<1>3. /\ new \in Seq(Id)
      /\ Len(new) = Len(list) + 1
      /\ \A j \in 1 .. Len(list) + 1 :
           new[j] = IF j < k THEN list[j] ELSE IF j = k THEN id ELSE list[j - 1]
  BY <1>2, InsertAtProperties
<1>4. Range(new) = {new[i] : i \in 1 .. Len(list) + 1}
  BY <1>3, RangeEquality
<1> HIDE DEF new
<1>5. Range(new) = Range(list) \cup {id}
  <2>1. \A j \in 1 .. Len(list) + 1 : new[j] \in Range(list) \cup {id}
    BY <1>1, <1>2, <1>3
  <2>2. \A i \in 1 .. Len(list) : \E j \in 1 .. Len(list) + 1 : new[j] = list[i]
    <3> TAKE i \in 1 .. Len(list)
    <3>1. CASE i < k
      <4>1. new[i] = list[i] /\ i \in 1 .. Len(list) + 1
        BY <3>1, <1>1, <1>2, <1>3
      <4> QED BY <4>1
    <3>2. CASE i >= k
      <4>1. new[i + 1] = list[i] /\ i + 1 \in 1 .. Len(list) + 1
        <5>1. i + 1 \in 1 .. Len(list) + 1 /\ ~ (i + 1 < k) /\ i + 1 # k /\ (i + 1) - 1 = i
          BY <3>2, <1>1, <1>2
        <5>2. new[i + 1] = list[(i + 1) - 1]
          BY <5>1, <1>3
        <5> QED BY <5>1, <5>2
      <4> QED BY <4>1
    <3> QED BY <3>1, <3>2, <1>1, <1>2
  <2>3. new[k] = id
    BY <1>1, <1>2, <1>3
  <2> QED BY <2>1, <2>2, <2>3, <1>1, <1>2, <1>4
<1>6. ASSUME Descending(list), id \notin Range(list)
      PROVE  Descending(new)
  <2>1. \A i, j \in 1 .. Len(list) : i < j => After(list[i], list[j])
    BY <1>6 DEF Descending
  <2>2. \A i \in 1 .. Len(list) : list[i] \in Id /\ list[i] # id
    BY <1>1, <1>6, ElementOfSeq
  <2>3. \A i \in k .. Len(list) : After(id, list[i])
    <3> TAKE i \in k .. Len(list)
    <3>1. k \in 1 .. Len(list) /\ i \in 1 .. Len(list)
      BY <1>1, <1>2
    <3>2. After(id, list[k])
      BY <3>1, <1>2, <2>2, AfterIsStrictOrder
    <3>3. CASE i = k
      BY <3>2, <3>3
    <3>4. CASE i > k
      <4>1. After(list[k], list[i])
        BY <3>1, <3>4, <2>1
      <4> QED BY <4>1, <3>1, <3>2, <2>2, AfterIsStrictOrder
    <3> QED BY <3>1, <3>3, <3>4, <1>1, <1>2
  <2> SUFFICES ASSUME NEW i \in 1 .. Len(list) + 1, NEW j \in 1 .. Len(list) + 1, i < j
               PROVE  After(new[i], new[j])
    BY <1>3 DEF Descending
  <2>4. CASE j < k
    <3>1. new[i] = list[i] /\ new[j] = list[j]
      BY <2>4, <1>1, <1>2, <1>3
    <3>2. i \in 1 .. Len(list) /\ j \in 1 .. Len(list)
      BY <2>4, <1>1, <1>2
    <3> QED BY <3>1, <3>2, <2>1
  <2>5. CASE j = k
    <3>1. new[i] = list[i] /\ new[j] = id /\ i \in 1 .. k - 1
      BY <2>5, <1>1, <1>2, <1>3
    <3> QED BY <3>1, <1>2
  <2>6. CASE i < k /\ k < j
    <3>1. new[i] = list[i] /\ new[j] = list[j - 1]
      BY <2>6, <1>1, <1>2, <1>3
    <3>2. i \in 1 .. Len(list) /\ j - 1 \in 1 .. Len(list) /\ i < j - 1
      BY <2>6, <1>1, <1>2
    <3> QED BY <3>1, <3>2, <2>1
  <2>7. CASE i = k
    <3>1. new[i] = id /\ new[j] = list[j - 1]
      BY <2>7, <1>1, <1>2, <1>3
    <3>2. j - 1 \in k .. Len(list)
      BY <2>7, <1>1, <1>2
    <3> QED BY <3>1, <3>2, <2>3
  <2>8. CASE k < i
    <3>1. new[i] = list[i - 1] /\ new[j] = list[j - 1]
      BY <2>8, <1>1, <1>2, <1>3
    <3>2. i - 1 \in 1 .. Len(list) /\ j - 1 \in 1 .. Len(list) /\ i - 1 < j - 1
      BY <2>8, <1>1, <1>2
    <3> QED BY <3>1, <3>2, <2>1
  <2>9. j < k \/ j = k \/ (i < k /\ k < j) \/ i = k \/ k < i
    BY <1>1, <1>2
  <2> QED BY <2>4, <2>5, <2>6, <2>7, <2>8, <2>9, Zenon
<1> QED BY <1>3, <1>5, <1>6 DEF new, k

(* A set of ids has one sorted list: buckets that hold the same elements   *)
(* are the same list, whatever the order they were filled in.              *)
LEMMA SortedListIsUnique ==
  ASSUME NEW s \in Seq(Id), NEW t \in Seq(Id),
         Descending(s), Descending(t), Range(s) = Range(t)
  PROVE  s = t
<1>1. /\ Len(s) \in Nat /\ Range(s) = {s[i] : i \in 1 .. Len(s)}
      /\ Len(t) \in Nat /\ Range(t) = {t[i] : i \in 1 .. Len(t)}
  BY LenProperties, RangeEquality
<1>2. /\ \A i \in 1 .. Len(s) : s[i] \in Id
      /\ \A i \in 1 .. Len(t) : t[i] \in Id
  BY ElementOfSeq
<1>3. /\ \A i, j \in 1 .. Len(s) : i < j => After(s[i], s[j]) /\ s[i] # s[j]
      /\ \A i, j \in 1 .. Len(t) : i < j => After(t[i], t[j]) /\ t[i] # t[j]
  BY <1>2, AfterIsStrictOrder DEF Descending
<1>4. \A i \in 1 .. Len(s) : \E j \in 1 .. Len(t) : s[i] = t[j]
  BY <1>1
<1>5. \A i \in 1 .. Len(t) : \E j \in 1 .. Len(s) : t[i] = s[j]
  BY <1>1
<1> DEFINE T == {i \in 1 .. Len(s) : i \in 1 .. Len(t) /\ s[i] # t[i]}
<1>6. T = {}
  <2> SUFFICES ASSUME T # {} PROVE FALSE
    OBVIOUS
  <2>1. PICK m \in T : \A k \in T : m <= k
    <3>1. T \subseteq Nat
      BY <1>1
    <3> QED BY <3>1, LeastNatural
  <2>2. \A k \in 1 .. m - 1 : k \in 1 .. Len(s) /\ k \in 1 .. Len(t) /\ s[k] = t[k]
    BY <2>1, <1>1
  <2>3. m \in 1 .. Len(s) /\ m \in 1 .. Len(t) /\ s[m] # t[m]
    BY <2>1
  <2> HIDE DEF T
  <2>4. After(t[m], s[m])
    <3>1. PICK j \in 1 .. Len(t) : s[m] = t[j]
      BY <1>4, <2>3
    <3>2. ~ (j < m)
      BY <1>1, <1>3, <2>2, <2>3, <3>1
    <3> QED BY <1>1, <1>3, <2>3, <3>1, <3>2
  <2>5. After(s[m], t[m])
    <3>1. PICK j \in 1 .. Len(s) : t[m] = s[j]
      BY <1>5, <2>3
    <3>2. ~ (j < m)
      BY <1>1, <1>3, <2>2, <2>3, <3>1
    <3> QED BY <1>1, <1>3, <2>3, <3>1, <3>2
  <2> QED BY <2>3, <2>4, <2>5, <1>2, AfterIsStrictOrder
<1>7. Len(s) = Len(t)
  <2>1. ASSUME Len(s) < Len(t) PROVE FALSE
    <3>1. Len(s) + 1 \in 1 .. Len(t)
      BY <2>1, <1>1
    <3>2. PICK j \in 1 .. Len(s) : t[Len(s) + 1] = s[j]
      BY <3>1, <1>5
    <3>3. j \in 1 .. Len(t) /\ j < Len(s) + 1 /\ s[j] = t[j]
      BY <2>1, <1>1, <1>6
    <3> QED BY <3>1, <3>2, <3>3, <1>3
  <2>2. ASSUME Len(t) < Len(s) PROVE FALSE
    <3>1. Len(t) + 1 \in 1 .. Len(s)
      BY <2>2, <1>1
    <3>2. PICK j \in 1 .. Len(t) : s[Len(t) + 1] = t[j]
      BY <3>1, <1>4
    <3>3. j \in 1 .. Len(s) /\ j < Len(t) + 1 /\ s[j] = t[j]
      BY <2>2, <1>1, <1>6
    <3> QED BY <3>1, <3>2, <3>3, <1>3
  <2> QED BY <2>1, <2>2, <1>1
<1> QED BY <1>1, <1>6, <1>7, SeqEqual

-----------------------------------------------------------------------------
(* What applying an operation does to a document *)

LEMMA OpsAreRecords ==
  /\ \A op \in InsertOp : op.type = "insert" /\ op.id \in Id /\ op.parent \in IdOrRoot
  /\ \A op \in DeleteOp : op.type = "delete" /\ op.id \in Id
  /\ \A op \in Op : op.type = "insert" => op \in InsertOp
  /\ \A op \in Op : op.type # "insert" => op \in DeleteOp
BY DEF InsertOp, DeleteOp, Op, IdOrRoot

LEMMA EmptyDocument == IsDoc(NewDoc) /\ BucketsSorted(NewDoc)
<1>1. NewDoc.nodes = [id \in {} |-> [parent |-> ROOT, deleted |-> FALSE]]
  BY DEF NewDoc
<1>2. NewDoc.children = [p \in {ROOT} |-> <<>>]
  BY DEF NewDoc
<1>3. NewDoc.counter = 0 /\ NewDoc.tombstones = {}
  BY DEF NewDoc
<1>4. NewDoc = [counter |-> NewDoc.counter, nodes |-> NewDoc.nodes,
                children |-> NewDoc.children, tombstones |-> NewDoc.tombstones]
  BY DEF NewDoc
<1>5. IsDoc(NewDoc)
  BY <1>1, <1>2, <1>3, <1>4 DEF IsDoc
<1>6. Range(<<>>) = {} /\ Len(<<>>) = 0
  BY DEF Range
<1>7. BucketsSorted(NewDoc)
  BY <1>1, <1>2, <1>6 DEF BucketsSorted, Descending
<1> QED BY <1>5, <1>7

(* The fields of the document after an insert that was already here...     *)
LEMMA InsertAgain ==
  ASSUME NEW d, IsDoc(d), NEW op \in InsertOp, op.id \in DOMAIN d.nodes
  PROVE  LET e == ApplyInsert(d, op) IN
         /\ IsDoc(e)
         /\ e.counter = IF op.id.counter > d.counter THEN op.id.counter ELSE d.counter
         /\ e.nodes = d.nodes /\ e.children = d.children /\ e.tombstones = d.tombstones
<1> DEFINE c == IF op.id.counter > d.counter THEN op.id.counter ELSE d.counter
<1>1. ApplyInsert(d, op) = [d EXCEPT !.counter = c]
  BY DEF ApplyInsert
<1>2. c \in Nat
  BY OpsAreRecords, IdsAreRecords DEF IsDoc
<1> HIDE DEF c
<1>3. ApplyInsert(d, op) = [counter |-> c, nodes |-> d.nodes,
                            children |-> d.children, tombstones |-> d.tombstones]
  BY <1>1 DEF IsDoc
<1>4. LET e == ApplyInsert(d, op) IN
      /\ e.counter = c /\ e.nodes = d.nodes
      /\ e.children = d.children /\ e.tombstones = d.tombstones
  BY <1>3
<1>5. IsDoc(ApplyInsert(d, op))
  BY <1>2, <1>3, <1>4 DEF IsDoc
<1> QED BY <1>4, <1>5 DEF c

(* ... and after one that was not.                                         *)
LEMMA InsertNew ==
  ASSUME NEW d, IsDoc(d), NEW op \in InsertOp, op.id \notin DOMAIN d.nodes
  PROVE  LET e == ApplyInsert(d, op) IN
         /\ IsDoc(e)
         /\ e.counter = IF op.id.counter > d.counter THEN op.id.counter ELSE d.counter
         /\ e.nodes = [id \in DOMAIN d.nodes \cup {op.id} |->
                         IF id = op.id
                         THEN [parent |-> op.parent, deleted |-> op.id \in d.tombstones]
                         ELSE d.nodes[id]]
         /\ DOMAIN e.children = DOMAIN d.children \cup {op.parent}
         /\ e.tombstones = d.tombstones
         /\ BucketsSorted(d) => BucketsSorted(e)
<1> DEFINE c    == IF op.id.counter > d.counter THEN op.id.counter ELSE d.counter
           node == [parent |-> op.parent, deleted |-> op.id \in d.tombstones]
           ns   == [id \in DOMAIN d.nodes \cup {op.id} |->
                      IF id = op.id THEN node ELSE d.nodes[id]]
           list == Kids(d.children, op.parent)
           new  == InsertAt(list, Slot(list, op.id), op.id)
           ch   == [p \in DOMAIN d.children \cup {op.parent} |->
                      IF p = op.parent THEN new ELSE d.children[p]]
           e    == ApplyInsert(d, op)
<1>1. op.id \in Id /\ op.id.counter \in Nat /\ op.parent \in IdOrRoot
  BY OpsAreRecords, IdsAreRecords
<1>2. e = [counter |-> c, nodes |-> ns, children |-> ch, tombstones |-> d.tombstones]
  BY DEF ApplyInsert, LinkChild
<1>3. /\ e.counter = c /\ e.nodes = ns /\ e.children = ch
      /\ e.tombstones = d.tombstones
  BY <1>2
<1>4. c \in Nat
  BY <1>1 DEF IsDoc
<1>5. list \in Seq(Id)
  BY DEF Kids, IsDoc
<1>6. /\ new \in Seq(Id)
      /\ Range(new) = Range(list) \cup {op.id}
      /\ Descending(list) /\ op.id \notin Range(list) => Descending(new)
  BY <1>1, <1>5, LinkedList
<1> HIDE DEF c, e, list, new
<1>7. node \in [parent : Id \cup {ROOT}, deleted : BOOLEAN]
  BY <1>1 DEF IdOrRoot
<1>8. ns \in [DOMAIN ns -> [parent : Id \cup {ROOT}, deleted : BOOLEAN]] /\ DOMAIN ns \subseteq Id
  <2> HIDE DEF node
  <2> QED BY <1>1, <1>7 DEF IsDoc
<1>9. /\ ch \in [DOMAIN ch -> Seq(Id)]
      /\ ROOT \in DOMAIN ch /\ DOMAIN ch \subseteq Id \cup {ROOT}
  BY <1>1, <1>6 DEF IsDoc, IdOrRoot
<1>10. IsDoc(e)
  <2> HIDE DEF ns, ch
  <2> QED BY <1>2, <1>3, <1>4, <1>8, <1>9 DEF IsDoc
<1>11. ASSUME BucketsSorted(d) PROVE BucketsSorted(e)
  <2>1. node.parent = op.parent
    OBVIOUS
  <2> HIDE DEF node
  <2>2. ASSUME NEW p \in DOMAIN ch
        PROVE  /\ Descending(ch[p])
               /\ Range(ch[p]) = {id \in DOMAIN ns : ns[id].parent = p}
    <3>1. CASE p # op.parent
      <4>1. p \in DOMAIN d.children /\ ch[p] = d.children[p]
        BY <3>1
      <4>2. {id \in DOMAIN ns : ns[id].parent = p}
              = {id \in DOMAIN d.nodes : d.nodes[id].parent = p}
        BY <2>1, <3>1
      <4> QED BY <1>11, <4>1, <4>2 DEF BucketsSorted
    <3>2. CASE p = op.parent
      <4>1. Descending(list) /\ Range(list) = {id \in DOMAIN d.nodes : d.nodes[id].parent = p}
        <5>1. CASE op.parent \in DOMAIN d.children
          BY <1>11, <3>2, <5>1 DEF list, Kids, BucketsSorted
        <5>2. CASE op.parent \notin DOMAIN d.children
          <6>1. list = <<>>
            BY <5>2 DEF list, Kids
          <6>2. Descending(<<>>) /\ Range(<<>>) = {}
            BY DEF Descending, Range
          <6>3. {id \in DOMAIN d.nodes : d.nodes[id].parent = p} = {}
            BY <1>11, <3>2, <5>2 DEF BucketsSorted
          <6> QED BY <6>1, <6>2, <6>3
        <5> QED BY <5>1, <5>2
      <4>2. op.id \notin Range(list)
        BY <4>1
      <4>3. ch[p] = new
        BY <3>2
      <4>4. {id \in DOMAIN ns : ns[id].parent = p}
              = {id \in DOMAIN d.nodes : d.nodes[id].parent = p} \cup {op.id}
        BY <2>1, <3>2
      <4> QED BY <1>6, <4>1, <4>2, <4>3, <4>4
    <3> QED BY <3>1, <3>2
  <2>3. \A id \in DOMAIN ns : ns[id].parent \in DOMAIN ch
    BY <1>11, <2>1 DEF BucketsSorted
  <2> HIDE DEF ns, ch
  <2> QED BY <1>3, <2>2, <2>3 DEF BucketsSorted
<1>12. DOMAIN e.children = DOMAIN d.children \cup {op.parent}
  BY <1>3
<1> QED BY <1>3, <1>10, <1>11, <1>12 DEF c, e

(* A delete only adds a tombstone and marks the element it names.          *)
LEMMA DeleteEffect ==
  ASSUME NEW d, IsDoc(d), NEW op \in DeleteOp
  PROVE  LET e == ApplyDelete(d, op) IN
         /\ IsDoc(e)
         /\ e.counter = d.counter /\ e.children = d.children
         /\ e.tombstones = d.tombstones \cup {op.id}
         /\ DOMAIN e.nodes = DOMAIN d.nodes
         /\ \A id \in DOMAIN d.nodes :
              /\ e.nodes[id].parent = d.nodes[id].parent
              /\ e.nodes[id].deleted = (d.nodes[id].deleted \/ id = op.id)
         /\ BucketsSorted(d) => BucketsSorted(e)
<1> DEFINE ns == [id \in DOMAIN d.nodes |->
                    [parent  |-> d.nodes[id].parent,
                     deleted |-> d.nodes[id].deleted \/ id = op.id]]
           ts == d.tombstones \cup {op.id}
           e  == ApplyDelete(d, op)
<1>1. op.id \in Id
  BY OpsAreRecords
<1>2. e = [counter |-> d.counter, nodes |-> ns, children |-> d.children, tombstones |-> ts]
  <2>1. e = [d EXCEPT !.tombstones = ts, !.nodes = ns]
    BY DEF ApplyDelete, IsDoc
  <2> HIDE DEF e, ns, ts
  <2> QED BY <2>1 DEF IsDoc
<1>3. /\ e.counter = d.counter /\ e.nodes = ns /\ e.children = d.children
      /\ e.tombstones = ts
  BY <1>2
<1> HIDE DEF e
<1>4. \A id \in DOMAIN d.nodes :
        /\ d.nodes[id].parent \in Id \cup {ROOT}
        /\ d.nodes[id].deleted \in BOOLEAN
  BY DEF IsDoc
<1>5. ns \in [DOMAIN ns -> [parent : Id \cup {ROOT}, deleted : BOOLEAN]]
  BY <1>4
<1>6. ts \subseteq Id
  BY <1>1 DEF IsDoc
<1>7. DOMAIN ns = DOMAIN d.nodes /\ \A id \in DOMAIN d.nodes :
        /\ ns[id].parent = d.nodes[id].parent
        /\ ns[id].deleted = (d.nodes[id].deleted \/ id = op.id)
  OBVIOUS
<1> HIDE DEF ns
<1>8. IsDoc(e)
  <2> HIDE DEF ts
  <2> QED BY <1>2, <1>3, <1>5, <1>6, <1>7 DEF IsDoc
<1>9. BucketsSorted(d) => BucketsSorted(e)
  <2>1. \A p : {id \in DOMAIN ns : ns[id].parent = p}
                  = {id \in DOMAIN d.nodes : d.nodes[id].parent = p}
    BY <1>7
  <2> QED BY <1>3, <1>7, <2>1 DEF BucketsSorted
<1> QED BY <1>3, <1>7, <1>8, <1>9 DEF e

-----------------------------------------------------------------------------
(* One document, one operation *)

LEMMA ApplyIsDoc ==
  ASSUME NEW d, IsDoc(d), NEW op \in Op
  PROVE  IsDoc(Apply(d, op)) /\ (BucketsSorted(d) => BucketsSorted(Apply(d, op)))
<1>1. CASE op.type = "insert"
  <2>1. op \in InsertOp /\ Apply(d, op) = ApplyInsert(d, op)
    BY <1>1, OpsAreRecords DEF Apply
  <2>2. CASE op.id \in DOMAIN d.nodes
    BY <2>1, <2>2, InsertAgain DEF BucketsSorted
  <2>3. CASE op.id \notin DOMAIN d.nodes
    <3>1. /\ IsDoc(ApplyInsert(d, op))
          /\ BucketsSorted(d) => BucketsSorted(ApplyInsert(d, op))
      BY <2>1, <2>3, InsertNew, Zenon
    <3> QED BY <2>1, <3>1
  <2> QED BY <2>2, <2>3
<1>2. CASE op.type # "insert"
  <2>1. op \in DeleteOp /\ Apply(d, op) = ApplyDelete(d, op)
    BY <1>2, OpsAreRecords DEF Apply
  <2> QED BY <2>1, DeleteEffect
<1> QED BY <1>1, <1>2

LEMMA TickEffect ==
  ASSUME NEW d, IsDoc(d)
  PROVE  /\ IsDoc(Tick(d))
         /\ Tick(d).counter = d.counter + 1
         /\ Tick(d).nodes = d.nodes /\ Tick(d).children = d.children
         /\ Tick(d).tombstones = d.tombstones
<1>1. Tick(d) = [counter |-> d.counter + 1, nodes |-> d.nodes,
                 children |-> d.children, tombstones |-> d.tombstones]
  BY DEF Tick, IsDoc
<1>2. /\ Tick(d).counter = d.counter + 1
      /\ Tick(d).nodes = d.nodes /\ Tick(d).children = d.children
      /\ Tick(d).tombstones = d.tombstones
  BY <1>1
<1>3. IsDoc(Tick(d))
  BY <1>1, <1>2 DEF IsDoc
<1> QED BY <1>2, <1>3

(* How one more operation changes the sets the invariant speaks of.        *)
LEMMA OneMoreOp ==
  ASSUME NEW ops, NEW op \in Op
  PROVE  /\ op.type = "insert" =>
              /\ Inserts(ops \cup {op}) = Inserts(ops) \cup {op}
              /\ InsertedIds(ops \cup {op}) = InsertedIds(ops) \cup {op.id}
              /\ DeletedIds(ops \cup {op}) = DeletedIds(ops)
         /\ op.type # "insert" =>
              /\ Inserts(ops \cup {op}) = Inserts(ops)
              /\ InsertedIds(ops \cup {op}) = InsertedIds(ops)
              /\ DeletedIds(ops \cup {op}) = DeletedIds(ops) \cup {op.id}
<1>1. op.type \in {"insert", "delete"}
  BY OpsAreRecords
<1>2. CASE op.type = "insert"
  <2>1. Inserts(ops \cup {op}) = Inserts(ops) \cup {op}
    BY <1>2 DEF Inserts
  <2>2. InsertedIds(ops \cup {op}) = InsertedIds(ops) \cup {op.id}
    BY <2>1 DEF InsertedIds
  <2>3. DeletedIds(ops \cup {op}) = DeletedIds(ops)
    BY <1>2 DEF DeletedIds
  <2> QED BY <1>2, <2>1, <2>2, <2>3
<1>3. CASE op.type = "delete"
  <2>1. Inserts(ops \cup {op}) = Inserts(ops)
    BY <1>3 DEF Inserts
  <2>2. InsertedIds(ops \cup {op}) = InsertedIds(ops)
    BY <2>1 DEF InsertedIds
  <2>3. DeletedIds(ops \cup {op}) = DeletedIds(ops) \cup {op.id}
    BY <1>3 DEF DeletedIds
  <2> QED BY <1>3, <2>1, <2>2, <2>3
<1> QED BY <1>1, <1>2, <1>3

(* Whatever its state, a document keeps mirroring the operations applied,  *)
(* provided no two inserts share an id.                                    *)
LEMMA ApplyMirrors ==
  ASSUME NEW d, IsDoc(d), NEW ops \in SUBSET Op, NEW op \in Op, Mirrors(d, ops),
         op.type = "insert" => \A o \in Inserts(ops) : o.id = op.id => o = op
  PROVE  Mirrors(Apply(d, op), ops \cup {op})
<1> DEFINE e   == Apply(d, op)
           all == ops \cup {op}
<1>1. CASE op.type = "insert"
  <2>1. /\ op \in InsertOp /\ e = ApplyInsert(d, op)
        /\ Inserts(all) = Inserts(ops) \cup {op}
        /\ InsertedIds(all) = InsertedIds(ops) \cup {op.id}
        /\ DeletedIds(all) = DeletedIds(ops)
    BY <1>1, OpsAreRecords, OneMoreOp DEF Apply
  <2>2. {o.parent : o \in Inserts(all)} = {o.parent : o \in Inserts(ops)} \cup {op.parent}
    BY <2>1
  <2> HIDE DEF e, all
  <2>3. CASE op.id \in DOMAIN d.nodes
    <3>1. e.nodes = d.nodes /\ e.children = d.children /\ e.tombstones = d.tombstones
      BY <2>1, <2>3, InsertAgain
    <3>2. op \in Inserts(ops)
      <4>1. PICK o \in Inserts(ops) : o.id = op.id
        BY <2>3 DEF Mirrors, InsertedIds
      <4> QED BY <1>1, <4>1
    <3>3. /\ Inserts(all) = Inserts(ops) /\ InsertedIds(all) = InsertedIds(ops)
          /\ DeletedIds(all) = DeletedIds(ops)
      BY <2>1, <3>2 DEF InsertedIds
    <3>4. Mirrors(e, all)
      BY <3>1, <3>3 DEF Mirrors
    <3> QED BY <3>4 DEF e, all
  <2>4. CASE op.id \notin DOMAIN d.nodes
    <3>1. /\ e.nodes = [id \in DOMAIN d.nodes \cup {op.id} |->
                          IF id = op.id
                          THEN [parent |-> op.parent, deleted |-> op.id \in d.tombstones]
                          ELSE d.nodes[id]]
          /\ DOMAIN e.children = DOMAIN d.children \cup {op.parent}
          /\ e.tombstones = d.tombstones
      BY <2>1, <2>4, InsertNew
    <3>2. DOMAIN e.nodes = InsertedIds(all) /\ e.tombstones = DeletedIds(all)
      BY <2>1, <3>1 DEF Mirrors
    <3>3. \A o \in Inserts(all) : e.nodes[o.id].parent = o.parent
      <4> TAKE o \in Inserts(all)
      <4>1. CASE o = op
        BY <3>1, <4>1
      <4>2. CASE o \in Inserts(ops)
        <5>1. o.id \in DOMAIN d.nodes /\ o.id # op.id
          BY <2>4, <4>2 DEF Mirrors, InsertedIds
        <5> QED BY <3>1, <4>2, <5>1 DEF Mirrors
      <4> QED BY <2>1, <4>1, <4>2
    <3>4. \A id \in DOMAIN e.nodes : e.nodes[id].deleted <=> id \in DeletedIds(all)
      <4> TAKE id \in DOMAIN e.nodes
      <4>1. CASE id = op.id
        <5>1. e.nodes[id].deleted = (op.id \in d.tombstones)
          BY <3>1, <4>1
        <5> QED BY <2>1, <4>1, <5>1 DEF Mirrors
      <4>2. CASE id # op.id
        <5>1. id \in DOMAIN d.nodes /\ e.nodes[id] = d.nodes[id]
          BY <3>1, <4>2
        <5> QED BY <2>1, <5>1 DEF Mirrors
      <4> QED BY <4>1, <4>2
    <3>5. DOMAIN e.children = {ROOT} \cup {o.parent : o \in Inserts(all)}
      BY <2>2, <3>1 DEF Mirrors
    <3> QED BY <3>2, <3>3, <3>4, <3>5 DEF Mirrors, e, all
  <2> QED BY <2>3, <2>4
<1>2. CASE op.type # "insert"
  <2>1. /\ op \in DeleteOp /\ e = ApplyDelete(d, op)
        /\ Inserts(all) = Inserts(ops)
        /\ InsertedIds(all) = InsertedIds(ops)
        /\ DeletedIds(all) = DeletedIds(ops) \cup {op.id}
    BY <1>2, OpsAreRecords, OneMoreOp DEF Apply
  <2> HIDE DEF e, all
  <2>2. /\ e.children = d.children /\ e.tombstones = d.tombstones \cup {op.id}
        /\ DOMAIN e.nodes = DOMAIN d.nodes
        /\ \A id \in DOMAIN d.nodes :
             /\ e.nodes[id].parent = d.nodes[id].parent
             /\ e.nodes[id].deleted = (d.nodes[id].deleted \/ id = op.id)
    BY <2>1, DeleteEffect
  <2>3. \A o \in Inserts(all) : e.nodes[o.id].parent = o.parent
    BY <2>1, <2>2 DEF Mirrors, InsertedIds
  <2>4. \A id \in DOMAIN e.nodes : e.nodes[id].deleted <=> id \in DeletedIds(all)
    BY <2>1, <2>2 DEF Mirrors
  <2> QED BY <2>1, <2>2, <2>3, <2>4 DEF Mirrors, e, all
<1> QED BY <1>1, <1>2

(* The clock never runs backwards, and ends at or above the id applied.    *)
LEMMA ApplyClock ==
  ASSUME NEW d, IsDoc(d), NEW op \in Op
  PROVE  /\ Apply(d, op).counter >= d.counter
         /\ op.type = "insert" => Apply(d, op).counter >= op.id.counter
<1>1. d.counter \in Nat /\ (op.type = "insert" => op.id.counter \in Nat)
  BY OpsAreRecords, IdsAreRecords DEF IsDoc
<1>2. CASE op.type = "insert"
  <2>1. op \in InsertOp /\ Apply(d, op) = ApplyInsert(d, op)
    BY <1>2, OpsAreRecords DEF Apply
  <2>2. ApplyInsert(d, op).counter
          = IF op.id.counter > d.counter THEN op.id.counter ELSE d.counter
    <3>1. CASE op.id \in DOMAIN d.nodes
      BY <2>1, <3>1, InsertAgain, Zenon
    <3>2. CASE op.id \notin DOMAIN d.nodes
      BY <2>1, <3>2, InsertNew, Zenon
    <3> QED BY <3>1, <3>2
  <2> QED BY <1>1, <1>2, <2>1, <2>2
<1>3. CASE op.type # "insert"
  <2>1. op \in DeleteOp /\ Apply(d, op) = ApplyDelete(d, op)
    BY <1>3, OpsAreRecords DEF Apply
  <2>2. ApplyDelete(d, op).counter = d.counter
    BY <2>1, DeleteEffect
  <2> QED BY <1>1, <1>3, <2>1, <2>2
<1> QED BY <1>2, <1>3

(* The clock stays the largest counter seen, for any operation.  The       *)
(* premise covers the clock nextId has just advanced to a new id.          *)
LEMMA ApplyKeepsClock ==
  ASSUME NEW d, IsDoc(d), NEW op \in Op,
         \/ ClockIsLargestSeen(d)
         \/ /\ op.type = "insert" /\ op.id \notin DOMAIN d.nodes
            /\ op.id.counter = d.counter
            /\ \A id \in DOMAIN d.nodes : id.counter <= d.counter
  PROVE  ClockIsLargestSeen(Apply(d, op))
<1> DEFINE e == Apply(d, op)
<1>1. d.counter \in Nat /\ \A id \in DOMAIN d.nodes : id.counter \in Nat
  BY IdsAreRecords DEF IsDoc
<1>2. CASE op.type = "insert"
  <2>1. op \in InsertOp /\ e = ApplyInsert(d, op) /\ op.id.counter \in Nat
    BY <1>2, OpsAreRecords, IdsAreRecords DEF Apply
  <2>2. \A id \in DOMAIN d.nodes : id.counter <= d.counter
    BY DEF ClockIsLargestSeen
  <2> HIDE DEF e
  <2>3. /\ e.counter = IF op.id.counter > d.counter THEN op.id.counter ELSE d.counter
        /\ DOMAIN e.nodes = DOMAIN d.nodes \cup {op.id}
    <3>1. CASE op.id \in DOMAIN d.nodes
      BY <2>1, <3>1, InsertAgain
    <3>2. CASE op.id \notin DOMAIN d.nodes
      <4>1. /\ e.counter = IF op.id.counter > d.counter THEN op.id.counter ELSE d.counter
            /\ e.nodes = [id \in DOMAIN d.nodes \cup {op.id} |->
                            IF id = op.id
                            THEN [parent |-> op.parent, deleted |-> op.id \in d.tombstones]
                            ELSE d.nodes[id]]
        BY <2>1, <3>2, InsertNew, Zenon
      <4> QED BY <4>1
    <3> QED BY <3>1, <3>2
  <2>4. \A id \in DOMAIN e.nodes : id.counter <= e.counter
    BY <1>1, <2>1, <2>2, <2>3
  <2>5. e.counter \in {0} \cup {id.counter : id \in DOMAIN e.nodes}
    <3>1. CASE op.id.counter >= d.counter
      <4>1. e.counter = op.id.counter
        BY <1>1, <2>1, <2>3, <3>1
      <4> QED BY <2>3, <4>1
    <3>2. CASE op.id.counter < d.counter
      <4>1. e.counter = d.counter
        BY <1>1, <2>1, <2>3, <3>2
      <4>2. ClockIsLargestSeen(d)
        BY <1>1, <2>1, <3>2
      <4> QED BY <2>3, <4>1, <4>2 DEF ClockIsLargestSeen
    <3> QED BY <1>1, <2>1, <3>1, <3>2
  <2> QED BY <2>4, <2>5 DEF ClockIsLargestSeen, e
<1>3. CASE op.type # "insert"
  <2>1. op \in DeleteOp /\ e = ApplyDelete(d, op)
    BY <1>3, OpsAreRecords DEF Apply
  <2>2. e.counter = d.counter /\ DOMAIN e.nodes = DOMAIN d.nodes
    BY <2>1, DeleteEffect
  <2>3. ClockIsLargestSeen(d)
    BY <1>3
  <2> QED BY <2>2, <2>3 DEF ClockIsLargestSeen
<1> QED BY <1>2, <1>3

(* Two documents that mirror the same operations are the same document.    *)
LEMMA SameOpsSameDocument ==
  ASSUME NEW d, NEW e, NEW ops, IsDoc(d), IsDoc(e),
         Mirrors(d, ops), Mirrors(e, ops), BucketsSorted(d), BucketsSorted(e),
         ClockIsLargestSeen(d), ClockIsLargestSeen(e)
  PROVE  d = e
<1>1. /\ DOMAIN d.nodes = DOMAIN e.nodes /\ d.tombstones = e.tombstones
      /\ DOMAIN d.children = DOMAIN e.children
  BY DEF Mirrors
<1>2. \A id \in DOMAIN d.nodes : d.nodes[id] = e.nodes[id]
  <2> TAKE id \in DOMAIN d.nodes
  <2>1. PICK op \in Inserts(ops) : op.id = id
    BY DEF Mirrors, InsertedIds
  <2>2. d.nodes[id].parent = e.nodes[id].parent
    BY <2>1 DEF Mirrors
  <2>3. d.nodes[id].deleted <=> e.nodes[id].deleted
    BY <1>1 DEF Mirrors
  <2>4. /\ d.nodes[id] \in [parent : Id \cup {ROOT}, deleted : BOOLEAN]
        /\ e.nodes[id] \in [parent : Id \cup {ROOT}, deleted : BOOLEAN]
    BY <1>1 DEF IsDoc
  <2> QED BY <2>2, <2>3, <2>4
<1>3. d.nodes = e.nodes
  BY <1>1, <1>2 DEF IsDoc
<1>4. \A p \in DOMAIN d.children : d.children[p] = e.children[p]
  <2> TAKE p \in DOMAIN d.children
  <2>1. d.children[p] \in Seq(Id) /\ e.children[p] \in Seq(Id)
    BY <1>1 DEF IsDoc
  <2>2. /\ Descending(d.children[p]) /\ Descending(e.children[p])
        /\ Range(d.children[p]) = Range(e.children[p])
    <3>1. {id \in DOMAIN d.nodes : d.nodes[id].parent = p}
            = {id \in DOMAIN e.nodes : e.nodes[id].parent = p}
      BY <1>3
    <3>2. /\ Descending(d.children[p])
          /\ Range(d.children[p]) = {id \in DOMAIN d.nodes : d.nodes[id].parent = p}
      BY DEF BucketsSorted
    <3>3. /\ Descending(e.children[p])
          /\ Range(e.children[p]) = {id \in DOMAIN e.nodes : e.nodes[id].parent = p}
      BY <1>1 DEF BucketsSorted
    <3> QED BY <3>1, <3>2, <3>3
  <2> QED BY <2>1, <2>2, SortedListIsUnique
<1>5. d.children = e.children
  BY <1>1, <1>4 DEF IsDoc
<1>6. d.counter = e.counter
  <2>1. d.counter \in Nat /\ e.counter \in Nat /\ \A id \in DOMAIN d.nodes : id.counter \in Nat
    BY IdsAreRecords DEF IsDoc
  <2>2. d.counter <= e.counter
    BY <1>1, <2>1 DEF ClockIsLargestSeen
  <2>3. e.counter <= d.counter
    BY <1>1, <2>1 DEF ClockIsLargestSeen
  <2> QED BY <2>1, <2>2, <2>3
<1> QED BY <1>1, <1>3, <1>5, <1>6 DEF IsDoc
-----------------------------------------------------------------------------
(* A document and its operations *)

(* No two inserts share an id. *)
UniqueIds(ops) == \A a, b \in Inserts(ops) : a.id = b.id => a = b

(* A document as the operations make it. *)
Sound(d, ops) ==
  IsDoc(d) /\ BucketsSorted(d) /\ ClockIsLargestSeen(d) /\ Mirrors(d, ops)

(* One operation more. *)
LEMMA ApplySound ==
  ASSUME NEW ops \in SUBSET Op, NEW op \in Op, NEW d, Sound(d, ops), UniqueIds(ops \cup {op})
  PROVE  /\ Sound(Apply(d, op), ops \cup {op})
         /\ Apply(d, op).counter >= d.counter
<1>1. op.type = "insert" => \A o \in Inserts(ops) : o.id = op.id => o = op
  BY DEF UniqueIds, Inserts
<1> QED BY <1>1, ApplyIsDoc, ApplyMirrors, ApplyKeepsClock, ApplyClock DEF Sound

(* Fewer operations share no id either. *)
LEMMA SubsetUnique ==
  ASSUME NEW ops, NEW more, ops \subseteq more, UniqueIds(more)
  PROVE  UniqueIds(ops)
BY DEF UniqueIds, Inserts

-----------------------------------------------------------------------------
(* Lists by the order of their elements *)

(* One list after another. *)
LEMMA ConcatPrecedes ==
  ASSUME NEW S, NEW s \in Seq(S), NEW t \in Seq(S), NEW x, NEW y
  PROVE  Precedes(s \o t, x, y)
           <=> \/ Precedes(s, x, y) \/ Precedes(t, x, y)
               \/ x \in ToSet(s) /\ y \in ToSet(t)
<1> DEFINE u == s \o t
<1>1. /\ Len(s) \in Nat /\ Len(t) \in Nat /\ Len(u) = Len(s) + Len(t)
      /\ DOMAIN s = 1 .. Len(s) /\ DOMAIN t = 1 .. Len(t)
      /\ \A i \in 1 .. Len(s) : u[i] = s[i]
      /\ \A i \in 1 .. Len(t) : u[Len(s) + i] = t[i]
  BY ConcatProperties
<1> HIDE DEF u
<1>2. ASSUME Precedes(u, x, y)
      PROVE  \/ Precedes(s, x, y) \/ Precedes(t, x, y)
             \/ x \in ToSet(s) /\ y \in ToSet(t)
  <2>1. PICK i, j \in 1 .. Len(u) : i < j /\ u[i] = x /\ u[j] = y
    BY <1>2 DEF Precedes
  <2>2. CASE j <= Len(s)
    <3>1. i \in 1 .. Len(s) /\ j \in 1 .. Len(s)
      BY <1>1, <2>1, <2>2
    <3> QED BY <1>1, <2>1, <3>1 DEF Precedes
  <2>3. CASE i > Len(s)
    <3>1. /\ i - Len(s) \in 1 .. Len(t) /\ j - Len(s) \in 1 .. Len(t) /\ i - Len(s) < j - Len(s)
          /\ Len(s) + (i - Len(s)) = i /\ Len(s) + (j - Len(s)) = j
      BY <1>1, <2>1, <2>3
    <3>2. t[i - Len(s)] = x /\ t[j - Len(s)] = y
      BY <1>1, <2>1, <3>1
    <3> QED BY <3>1, <3>2 DEF Precedes
  <2>4. CASE i <= Len(s) /\ j > Len(s)
    <3>1. i \in 1 .. Len(s) /\ j - Len(s) \in 1 .. Len(t) /\ Len(s) + (j - Len(s)) = j
      BY <1>1, <2>1, <2>4
    <3>2. s[i] = x /\ t[j - Len(s)] = y
      BY <1>1, <2>1, <3>1
    <3> QED BY <1>1, <3>1, <3>2 DEF ToSet
  <2> QED BY <1>1, <2>1, <2>2, <2>3, <2>4
<1>3. ASSUME Precedes(s, x, y) PROVE Precedes(u, x, y)
  <2>1. PICK i, j \in 1 .. Len(s) : i < j /\ s[i] = x /\ s[j] = y
    BY <1>3 DEF Precedes
  <2>2. i \in 1 .. Len(u) /\ j \in 1 .. Len(u)
    BY <1>1
  <2> QED BY <1>1, <2>1, <2>2 DEF Precedes
<1>4. ASSUME Precedes(t, x, y) PROVE Precedes(u, x, y)
  <2>1. PICK i, j \in 1 .. Len(t) : i < j /\ t[i] = x /\ t[j] = y
    BY <1>4 DEF Precedes
  <2>2. Len(s) + i \in 1 .. Len(u) /\ Len(s) + j \in 1 .. Len(u) /\ Len(s) + i < Len(s) + j
    BY <1>1, <2>1
  <2>3. u[Len(s) + i] = x /\ u[Len(s) + j] = y
    BY <1>1, <2>1
  <2> QED BY <2>2, <2>3 DEF Precedes
<1>5. ASSUME x \in ToSet(s), y \in ToSet(t) PROVE Precedes(u, x, y)
  <2>1. PICK i \in 1 .. Len(s), j \in 1 .. Len(t) : s[i] = x /\ t[j] = y
    BY <1>1, <1>5 DEF ToSet
  <2>2. i \in 1 .. Len(u) /\ Len(s) + j \in 1 .. Len(u) /\ i < Len(s) + j
    BY <1>1
  <2>3. u[i] = x /\ u[Len(s) + j] = y
    BY <1>1, <2>1
  <2> QED BY <2>2, <2>3 DEF Precedes
<1> QED BY <1>2, <1>3, <1>4, <1>5 DEF u

(* What stands before something is in the list. *)
LEMMA PrecedesMembers ==
  ASSUME NEW S, NEW s \in Seq(S), NEW x, NEW y, Precedes(s, x, y)
  PROVE  x \in ToSet(s) /\ y \in ToSet(s)
BY LenProperties DEF Precedes, ToSet

(* Without duplicates, what stands before an element does not follow it.   *)
LEMMA PrecedesOneWay ==
  ASSUME NEW S, NEW s \in Seq(S), \A z : ~ Precedes(s, z, z),
         NEW x, NEW y, Precedes(s, x, y), Precedes(s, y, x)
  PROVE  FALSE
<1>1. PICK i, j \in 1 .. Len(s) : i < j /\ s[i] = x /\ s[j] = y
  BY DEF Precedes
<1>2. PICK k, l \in 1 .. Len(s) : k < l /\ s[k] = y /\ s[l] = x
  BY DEF Precedes
<1>3. ~ (i < l)
  BY <1>1, <1>2 DEF Precedes
<1>4. ~ (k < j)
  BY <1>1, <1>2 DEF Precedes
<1> QED BY <1>1, <1>2, <1>3, <1>4, LenProperties

-----------------------------------------------------------------------------
(* A list of lists, flattened *)

(* FlattenSeq appends one list after the other. *)
LEMMA FlattenSteps ==
  ASSUME NEW S, NEW s \in Seq(Seq(S))
  PROVE  \E h : /\ h[0] = <<>> /\ h[Len(s)] = FlattenSeq(s)
                /\ \A i \in 1 .. Len(s) : h[i] = h[i - 1] \o s[i]
<1> DEFINE n == Len(s)
<1>1. n \in Nat /\ DOMAIN s = 1 .. n /\ \A i \in 1 .. n : s[i] \in Seq(S)
  BY LenProperties, ElementOfSeq
<1>2. \A t \in Seq(S) : <<>> \o t = t
  OBVIOUS
<1>3. CASE n = 0
  <2>1. s = <<>>
    BY <1>3, EmptySeq
  <2>2. FlattenSeq(s) = s
    BY <1>3 DEF FlattenSeq
  <2> DEFINE h == [i \in 0 .. 0 |-> <<>>]
  <2>3. h[0] = <<>> /\ h[n] = FlattenSeq(s) /\ \A i \in 1 .. n : h[i] = h[i - 1] \o s[i]
    BY <1>3, <2>1, <2>2
  <2> HIDE DEF h
  <2> QED BY <2>3
<1>4. CASE n # 0
  <2> DEFINE Rec(k, f) == f = [i \in 1 .. k |-> IF i = 1 THEN s[i] ELSE f[i - 1] \o s[i]]
             G == {k \in 0 .. n : \E f : Rec(k, f)}
  <2>1. 0 \in G
    <3>1. Rec(0, [i \in 1 .. 0 |-> <<>>])
      OBVIOUS
    <3>2. \E f : Rec(0, f)
      BY <3>1
    <3> HIDE DEF Rec
    <3> QED BY <1>1, <3>2
  <2>2. ASSUME NEW k \in 1 .. n, k - 1 \in G PROVE k \in G
    <3>1. PICK f : Rec(k - 1, f)
      BY <2>2
    <3> DEFINE new == [i \in 1 .. k |-> IF i = k THEN (IF k = 1 THEN s[k] ELSE f[k - 1] \o s[k])
                                        ELSE f[i]]
    <3>2. ASSUME NEW i \in 1 .. k PROVE new[i] = IF i = 1 THEN s[i] ELSE new[i - 1] \o s[i]
      <4>1. CASE i = k
        <5>1. k # 1 => k - 1 \in 1 .. k /\ k - 1 # k
          BY <1>1
        <5> QED BY <4>1, <5>1
      <4>2. CASE i # k
        <5>1. i \in 1 .. (k - 1) /\ (i # 1 => i - 1 \in 1 .. k /\ i - 1 # k)
          BY <1>1, <4>2
        <5>2. f[i] = IF i = 1 THEN s[i] ELSE f[i - 1] \o s[i]
          BY <3>1, <5>1
        <5> QED BY <4>2, <5>1, <5>2
      <4> QED BY <4>1, <4>2
    <3>3. Rec(k, new)
      BY <3>2
    <3> HIDE DEF new, Rec
    <3> QED BY <1>1, <3>3
  <2>3. n \in G
    <3> HIDE DEF G
    <3>1. \A i \in 0 .. n : i \in G
      BY <1>1, <2>1, <2>2, Interval
    <3> QED BY <1>1, <3>1
  <2>4. PICK f : Rec(n, f) /\ FlattenSeq(s) = f[n]
    <3>1. FlattenSeq(s) = (CHOOSE f : Rec(n, f))[n]
      BY <1>4 DEF FlattenSeq
    <3>2. \E f : Rec(n, f)
      BY <2>3
    <3> HIDE DEF Rec
    <3> QED BY <3>1, <3>2
  <2> DEFINE h == [i \in 0 .. n |-> IF i = 0 THEN <<>> ELSE f[i]]
  <2>5. ASSUME NEW i \in 1 .. n PROVE h[i] = h[i - 1] \o s[i]
    <3>1. f[i] = IF i = 1 THEN s[i] ELSE f[i - 1] \o s[i]
      BY <2>4
    <3>2. i - 1 \in 0 .. n /\ i \in 0 .. n /\ i # 0 /\ (i # 1 => i - 1 # 0)
      BY <1>1
    <3>3. s[i] \in Seq(S) /\ <<>> \o s[i] = s[i]
      BY <1>1, <1>2
    <3>4. h[i] = f[i]
      BY <3>2
    <3>5. CASE i = 1
      <4>1. h[i - 1] = <<>>
        BY <3>2, <3>5
      <4> QED BY <3>1, <3>3, <3>4, <3>5, <4>1
    <3>6. CASE i # 1
      <4>1. h[i - 1] = f[i - 1]
        BY <3>2, <3>6
      <4> QED BY <3>1, <3>4, <3>6, <4>1
    <3> QED BY <3>5, <3>6
  <2>6. h[0] = <<>> /\ h[n] = FlattenSeq(s)
    BY <1>1, <1>4, <2>4
  <2> HIDE DEF h, n
  <2>7. h[0] = <<>> /\ h[n] = FlattenSeq(s) /\ \A i \in 1 .. n : h[i] = h[i - 1] \o s[i]
    BY <2>5, <2>6
  <2> QED BY <2>7 DEF n
<1> QED BY <1>3, <1>4

(* The elements of all, those of an earlier list before those of a later. *)
LEMMA FlattenElements ==
  ASSUME NEW S, NEW s \in Seq(Seq(S))
  PROVE  /\ FlattenSeq(s) \in Seq(S)
         /\ \A x : x \in ToSet(FlattenSeq(s)) <=> \E i \in 1 .. Len(s) : x \in ToSet(s[i])
         /\ \A x, y : Precedes(FlattenSeq(s), x, y)
              <=> \/ \E i \in 1 .. Len(s) : Precedes(s[i], x, y)
                  \/ \E i, j \in 1 .. Len(s) : i < j /\ x \in ToSet(s[i]) /\ y \in ToSet(s[j])
<1> DEFINE n == Len(s)
<1>1. n \in Nat /\ \A i \in 1 .. n : s[i] \in Seq(S)
  BY LenProperties, ElementOfSeq
<1>2. PICK h : /\ h[0] = <<>> /\ h[n] = FlattenSeq(s)
               /\ \A i \in 1 .. n : h[i] = h[i - 1] \o s[i]
  BY FlattenSteps
<1> HIDE DEF n
<1> DEFINE Has(k, x) == \E i \in 1 .. k : x \in ToSet(s[i])
           Ord(k, x, y) == \/ \E i \in 1 .. k : Precedes(s[i], x, y)
                           \/ \E i, j \in 1 .. k : i < j /\ x \in ToSet(s[i]) /\ y \in ToSet(s[j])
           Good(k) == /\ h[k] \in Seq(S)
                      /\ \A x : x \in ToSet(h[k]) <=> Has(k, x)
                      /\ \A x, y : Precedes(h[k], x, y) <=> Ord(k, x, y)
           G == {k \in 0 .. n : Good(k)}
<1>3. 0 \in G
  <2>1. <<>> \in Seq(S) /\ ToSet(<<>>) = {} /\ Len(<<>>) = 0
    BY EmptySeq DEF ToSet
  <2>2. \A x, y : ~ Precedes(<<>>, x, y)
    BY <2>1 DEF Precedes
  <2>3. \A x, y : ~ Has(0, x) /\ ~ Ord(0, x, y)
    OBVIOUS
  <2> HIDE DEF Has, Ord
  <2>4. Good(0)
    BY <1>2, <2>1, <2>2, <2>3
  <2> HIDE DEF Good
  <2> QED BY <1>1, <2>4
<1>4. ASSUME NEW k \in 1 .. n, k - 1 \in G PROVE k \in G
  <2>1. Good(k - 1) /\ s[k] \in Seq(S) /\ h[k] = h[k - 1] \o s[k] /\ k \in 0 .. n
    <3> HIDE DEF Good
    <3>1. k \in 0 .. n
      BY <1>1
    <3> QED BY <1>1, <1>2, <1>4, <3>1
  <2>2. \A i : i \in 1 .. k <=> i \in 1 .. (k - 1) \/ i = k
    BY <1>1
  <2>3. \A i \in 1 .. (k - 1) : i < k
    BY <1>1
  <2>4. \A i, j \in 1 .. k : i < j => i \in 1 .. (k - 1)
    BY <1>1
  <2>5. \A x : Has(k, x) <=> Has(k - 1, x) \/ x \in ToSet(s[k])
    BY <2>2
  <2>6. ASSUME NEW x, NEW y
        PROVE  Ord(k, x, y) <=> \/ Ord(k - 1, x, y) \/ Precedes(s[k], x, y)
                                \/ Has(k - 1, x) /\ y \in ToSet(s[k])
    <3>1. ASSUME Ord(k, x, y)
          PROVE  \/ Ord(k - 1, x, y) \/ Precedes(s[k], x, y)
                 \/ Has(k - 1, x) /\ y \in ToSet(s[k])
      <4>1. CASE \E i \in 1 .. k : Precedes(s[i], x, y)
        BY <2>2, <4>1
      <4>2. CASE \E i, j \in 1 .. k : i < j /\ x \in ToSet(s[i]) /\ y \in ToSet(s[j])
        <5>1. PICK i, j \in 1 .. k : i < j /\ x \in ToSet(s[i]) /\ y \in ToSet(s[j])
          BY <4>2
        <5>2. i \in 1 .. (k - 1)
          BY <2>4, <5>1
        <5> QED BY <2>2, <5>1, <5>2
      <4> QED BY <3>1, <4>1, <4>2
    <3>2. ASSUME Ord(k - 1, x, y) PROVE Ord(k, x, y)
      BY <2>2, <3>2
    <3>3. ASSUME Precedes(s[k], x, y) PROVE Ord(k, x, y)
      BY <2>2, <3>3
    <3>4. ASSUME Has(k - 1, x), y \in ToSet(s[k]) PROVE Ord(k, x, y)
      BY <2>2, <2>3, <3>4
    <3> HIDE DEF Has, Ord
    <3> QED BY <3>1, <3>2, <3>3, <3>4
  <2> HIDE DEF Has, Ord
  <2>7. h[k] \in Seq(S) /\ ToSet(h[k]) = ToSet(h[k - 1]) \cup ToSet(s[k])
    BY <2>1, ConcatElements
  <2>8. \A x, y : Precedes(h[k], x, y)
           <=> \/ Precedes(h[k - 1], x, y) \/ Precedes(s[k], x, y)
               \/ x \in ToSet(h[k - 1]) /\ y \in ToSet(s[k])
    BY <2>1, ConcatPrecedes
  <2>9. Good(k)
    BY <2>1, <2>5, <2>6, <2>7, <2>8
  <2> HIDE DEF Good
  <2> QED BY <2>1, <2>9
<1>5. Good(n)
  <2> HIDE DEF Good
  <2>1. 0 \in G /\ \A k \in 1 .. n : k - 1 \in G => k \in G
    BY <1>3, <1>4
  <2> HIDE DEF G
  <2>2. \A i \in 0 .. n : i \in G
    BY <1>1, <2>1, Interval
  <2> QED BY <1>1, <2>2 DEF G
<1>6. h[n] = FlattenSeq(s)
  BY <1>2
<1> QED BY <1>5, <1>6 DEF n


-----------------------------------------------------------------------------
(* The walk of a document *)

(* A document whose elements are younger than the ones they were typed     *)
(* after, and no younger than its clock.                                   *)
Tree(d) ==
  /\ IsDoc(d) /\ BucketsSorted(d)
  /\ \A id \in DOMAIN d.nodes :
       id.counter <= d.counter /\ id.counter > d.nodes[id].parent.counter

Children(d, p) == {id \in DOMAIN d.nodes : d.nodes[id].parent = p}

(* A bucket, or the empty one of an element that has none.                 *)
LEMMA KidsAreChildren ==
  ASSUME NEW d, Tree(d), NEW p
  PROVE  /\ Kids(d.children, p) \in Seq(Id) /\ Descending(Kids(d.children, p))
         /\ ToSet(Kids(d.children, p)) = Children(d, p)
<1>1. IsDoc(d) /\ BucketsSorted(d)
  BY DEF Tree
<1>2. CASE p \in DOMAIN d.children
  <2>1. Kids(d.children, p) = d.children[p]
    BY <1>2 DEF Kids
  <2>2. d.children[p] \in Seq(Id)
    BY <1>1, <1>2 DEF IsDoc
  <2>3. Descending(d.children[p]) /\ Range(d.children[p]) = Children(d, p)
    BY <1>1, <1>2 DEF BucketsSorted, Children
  <2>4. Range(d.children[p]) = ToSet(d.children[p])
    BY DEF Range, ToSet
  <2> QED BY <2>1, <2>2, <2>3, <2>4
<1>3. CASE p \notin DOMAIN d.children
  <2>1. Kids(d.children, p) = <<>>
    BY <1>3 DEF Kids
  <2>2. Children(d, p) = {}
    BY <1>1, <1>3 DEF BucketsSorted, Children
  <2>3. <<>> \in Seq(Id) /\ Descending(<<>>) /\ ToSet(<<>>) = {}
    BY EmptySeq DEF Descending, ToSet
  <2> QED BY <2>1, <2>2, <2>3
<1> QED BY <1>2, <1>3

(* The walk below p, given the walks below its children.                   *)
Below(d, f, p) ==
  FlattenSeq([i \in 1 .. Len(Kids(d.children, p)) |->
                <<Kids(d.children, p)[i]>> \o f[Kids(d.children, p)[i]]])

Places(d) == {ROOT} \cup DOMAIN d.nodes

IsWalk(d, f) == f = [p \in Places(d) |-> Below(d, f, p)]

(* Nothing else matters to it.                                             *)
LEMMA BelowNeedsChildren ==
  ASSUME NEW d, NEW p, NEW f, NEW g, Tree(d), \A x \in Children(d, p) : f[x] = g[x]
  PROVE  Below(d, f, p) = Below(d, g, p)
<1> DEFINE k == Kids(d.children, p)
<1>1. k \in Seq(Id) /\ ToSet(k) = Children(d, p)
  BY KidsAreChildren
<1> HIDE DEF k
<1>2. \A i \in 1 .. Len(k) : k[i] \in Children(d, p)
  BY <1>1 DEF ToSet
<1>3. [i \in 1 .. Len(k) |-> <<k[i]>> \o f[k[i]]] = [i \in 1 .. Len(k) |-> <<k[i]>> \o g[k[i]]]
  BY <1>2
<1> QED BY <1>3 DEF Below, k

(* The recursion is well founded: children are younger than their parent.  *)
LEMMA WalkExists ==
  ASSUME NEW d, Tree(d)
  PROVE  \E f : IsWalk(d, f)
<1> DEFINE n == d.counter
           Level(k) == {q \in Places(d) : q.counter + k >= n}
           Part(k, f) == f = [q \in Level(k) |-> Below(d, f, q)]
           G == {k \in 0 .. n : \E f : Part(k, f)}
<1>1. /\ n \in Nat /\ \A q \in Places(d) : q.counter \in Nat
      /\ \A q \in Places(d) : \A x \in Children(d, q) :
           x \in Places(d) /\ x.counter > q.counter /\ x.counter <= n
  <2>1. IsDoc(d)
    BY DEF Tree
  <2>2. n \in Nat /\ DOMAIN d.nodes \subseteq Id
    BY <2>1 DEF IsDoc
  <2>3. ROOT.counter = 0 /\ \A q \in Id : q.counter \in Nat
    BY IdsAreRecords DEF ROOT
  <2> HIDE DEF n
  <2> QED BY <2>2, <2>3 DEF Places, Children, Tree, n
<1> HIDE DEF n
<1>2. 0 \in G
  <2> DEFINE none == [q \in {} |-> <<>>]
             f == [q \in Level(0) |-> Below(d, none, q)]
  <2>1. ASSUME NEW q \in Level(0) PROVE Below(d, none, q) = Below(d, f, q)
    <3>1. Children(d, q) = {}
      <4>1. q \in Places(d) /\ q.counter >= n
        BY <1>1
      <4> QED BY <4>1, <1>1 DEF Children
    <3> HIDE DEF f, none
    <3> QED BY <3>1, BelowNeedsChildren
  <2>2. Part(0, f)
    <3> HIDE DEF Level, none
    <3> QED BY <2>1
  <2>3. \E g : Part(0, g)
    BY <2>2
  <2> HIDE DEF Part
  <2> QED BY <1>1, <2>3
<1>3. ASSUME NEW k \in 1 .. n, k - 1 \in G PROVE k \in G
  <2>1. PICK f : Part(k - 1, f)
    BY <1>3
  <2> DEFINE g == [q \in Level(k) |-> Below(d, f, q)]
  <2>2. ASSUME NEW q \in Level(k) PROVE Below(d, f, q) = Below(d, g, q)
    <3>1. \A x \in Children(d, q) : x \in Level(k - 1) /\ x \in Level(k)
      <4> TAKE x \in Children(d, q)
      <4>1. /\ q \in Places(d) /\ q.counter + k >= n /\ q.counter \in Nat /\ k \in Nat
            /\ x \in Places(d) /\ x.counter > q.counter /\ x.counter \in Nat
        BY <1>1
      <4>2. x.counter + (k - 1) >= n /\ x.counter + k >= n
        BY <1>1, <4>1
      <4> QED BY <4>1, <4>2
    <3> HIDE DEF Level
    <3>2. \A x \in Children(d, q) : f[x] = Below(d, f, x) /\ g[x] = Below(d, f, x)
      <4>1. \A x \in Level(k - 1) : f[x] = Below(d, f, x)
        BY <2>1
      <4> QED BY <3>1, <4>1
    <3> HIDE DEF g
    <3> QED BY <3>2, BelowNeedsChildren
  <2>3. Part(k, g)
    <3> HIDE DEF Level
    <3> QED BY <2>2
  <2>4. \E h : Part(k, h)
    BY <2>3
  <2> HIDE DEF Part
  <2> QED BY <1>1, <2>4
<1>4. n \in G
  <2>1. 0 \in G /\ \A k \in 1 .. n : k - 1 \in G => k \in G
    BY <1>2, <1>3
  <2> HIDE DEF G
  <2>2. \A i \in 0 .. n : i \in G
    BY <1>1, <2>1, Interval
  <2> QED BY <1>1, <2>2
<1>5. PICK f : Part(n, f)
  BY <1>4
<1>6. Level(n) = Places(d)
  BY <1>1
<1>7. IsWalk(d, f)
  <2> HIDE DEF Level
  <2> QED BY <1>5, <1>6 DEF IsWalk
<1> QED BY <1>7

(* So the document order is that of a walk.                                *)
LEMMA OrderedIsAWalk ==
  ASSUME NEW d, Tree(d)
  PROVE  \E f : IsWalk(d, f) /\ Ordered(d) = f[ROOT]
<1>1. Ordered(d) = (CHOOSE f : IsWalk(d, f))[ROOT]
  BY DEF Ordered, IsWalk, Below, Places
<1>2. IsWalk(d, CHOOSE f : IsWalk(d, f))
  BY WalkExists
<1> QED BY <1>1, <1>2

(* An element and what the walk lists below it.                            *)
Subtree(f, a) == {a} \cup ToSet(f[a])

(* One level of a walk: the subtrees of the children, the younger child's  *)
(* first, each headed by the child itself.                                 *)
LEMMA WalkOrder ==
  ASSUME NEW d, Tree(d), NEW f, IsWalk(d, f), NEW p \in Places(d),
         \A a \in Children(d, p) : f[a] \in Seq(Id)
  PROVE  /\ f[p] \in Seq(Id)
         /\ \A x : x \in ToSet(f[p]) <=> \E a \in Children(d, p) : x \in Subtree(f, a)
         /\ \A x, y : Precedes(f[p], x, y)
              <=> \/ \E a \in Children(d, p) :
                       (x = a /\ y \in ToSet(f[a])) \/ Precedes(f[a], x, y)
                  \/ \E a, b \in Children(d, p) :
                       After(a, b) /\ x \in Subtree(f, a) /\ y \in Subtree(f, b)
<1> DEFINE k == Kids(d.children, p)
           s == [i \in 1 .. Len(k) |-> <<k[i]>> \o f[k[i]]]
<1>1. k \in Seq(Id) /\ Descending(k) /\ ToSet(k) = Children(d, p)
  BY KidsAreChildren
<1>2. f[p] = FlattenSeq(s)
  BY DEF IsWalk, Below
<1> HIDE DEF k
<1>3. Len(k) \in Nat /\ DOMAIN k = 1 .. Len(k) /\ \A i \in 1 .. Len(k) : k[i] \in Id
  BY <1>1, LenProperties, ElementOfSeq
<1>4. /\ \A i \in 1 .. Len(k) : k[i] \in Children(d, p) /\ f[k[i]] \in Seq(Id)
      /\ \A a \in Children(d, p) : \E i \in 1 .. Len(k) : k[i] = a
  BY <1>1, <1>3 DEF ToSet
<1>5. ASSUME NEW i \in 1 .. Len(k)
      PROVE  /\ s[i] \in Seq(Id) /\ ToSet(s[i]) = Subtree(f, k[i])
             /\ \A x, y : Precedes(s[i], x, y)
                  <=> (x = k[i] /\ y \in ToSet(f[k[i]])) \/ Precedes(f[k[i]], x, y)
  <2>1. s[i] = <<k[i]>> \o f[k[i]]
    OBVIOUS
  <2>2. k[i] \in Id /\ f[k[i]] \in Seq(Id) /\ <<k[i]>> \in Seq(Id)
    BY <1>3, <1>4
  <2>3. ToSet(<<k[i]>>) = {k[i]} /\ \A x, y : ~ Precedes(<<k[i]>>, x, y)
    <3>1. Len(<<k[i]>>) = 1 /\ DOMAIN <<k[i]>> = {1} /\ <<k[i]>>[1] = k[i]
      OBVIOUS
    <3>2. ToSet(<<k[i]>>) = {k[i]}
      BY <3>1 DEF ToSet
    <3>3. \A m, n \in 1 .. 1 : ~ (m < n)
      OBVIOUS
    <3> QED BY <3>1, <3>2, <3>3 DEF Precedes
  <2> HIDE DEF s
  <2> DEFINE head == <<k[i]>>
             rest == f[k[i]]
  <2>4. head \in Seq(Id) /\ rest \in Seq(Id) /\ s[i] = head \o rest
    BY <2>1, <2>2
  <2>5. ToSet(head) = {k[i]} /\ \A x, y : ~ Precedes(head, x, y)
    BY <2>3
  <2> HIDE DEF head, rest
  <2>6. s[i] \in Seq(Id) /\ ToSet(s[i]) = {k[i]} \cup ToSet(rest)
    BY <2>4, <2>5, ConcatElements
  <2>7. ASSUME NEW x, NEW y
        PROVE  Precedes(s[i], x, y) <=> (x = k[i] /\ y \in ToSet(rest)) \/ Precedes(rest, x, y)
    <3>1. Precedes(s[i], x, y)
            <=> \/ Precedes(head, x, y) \/ Precedes(rest, x, y)
                \/ x \in ToSet(head) /\ y \in ToSet(rest)
      BY <2>4, ConcatPrecedes
    <3> QED BY <3>1, <2>5
  <2> QED BY <2>6, <2>7 DEF Subtree, rest
<1>6. s \in Seq(Seq(Id)) /\ Len(s) = Len(k)
  <2>1. \A i \in 1 .. Len(k) : s[i] \in Seq(Id)
    BY <1>5
  <2>2. DOMAIN s = 1 .. Len(k)
    OBVIOUS
  <2>3. s = [i \in 1 .. Len(k) |-> s[i]]
    OBVIOUS
  <2> HIDE DEF s
  <2>4. s \in [1 .. Len(k) -> Seq(Id)]
    BY <2>1, <2>3
  <2>5. s \in Seq(Seq(Id))
    BY <2>4, <1>3, SeqDef
  <2> QED BY <2>2, <2>5, <1>3, LenProperties
<1> HIDE DEF s
<1>7. /\ f[p] \in Seq(Id)
      /\ \A x : x \in ToSet(f[p]) <=> \E i \in 1 .. Len(k) : x \in ToSet(s[i])
      /\ \A x, y : Precedes(f[p], x, y)
           <=> \/ \E i \in 1 .. Len(k) : Precedes(s[i], x, y)
               \/ \E i, j \in 1 .. Len(k) : i < j /\ x \in ToSet(s[i]) /\ y \in ToSet(s[j])
  BY <1>2, <1>6, FlattenElements
<1>8. \A i, j \in 1 .. Len(k) : i < j <=> After(k[i], k[j])
  <2> TAKE i, j \in 1 .. Len(k)
  <2>1. i < j => After(k[i], k[j])
    BY <1>1 DEF Descending
  <2>2. j < i => After(k[j], k[i])
    BY <1>1 DEF Descending
  <2>3. After(k[i], k[j]) => i # j /\ ~ (j < i)
    BY <2>2, <1>3, AfterIsStrictOrder
  <2>4. i \in Nat /\ j \in Nat
    BY <1>3
  <2> QED BY <2>1, <2>3, <2>4
<1>9. \A x : x \in ToSet(f[p]) <=> \E a \in Children(d, p) : x \in Subtree(f, a)
  BY <1>4, <1>5, <1>7
<1>10. ASSUME NEW x, NEW y
       PROVE  (\E i \in 1 .. Len(k) : Precedes(s[i], x, y))
                <=> \E a \in Children(d, p) :
                      (x = a /\ y \in ToSet(f[a])) \/ Precedes(f[a], x, y)
  BY <1>4, <1>5
<1>11. ASSUME NEW x, NEW y
       PROVE  (\E i, j \in 1 .. Len(k) : i < j /\ x \in ToSet(s[i]) /\ y \in ToSet(s[j]))
                <=> \E a, b \in Children(d, p) :
                      After(a, b) /\ x \in Subtree(f, a) /\ y \in Subtree(f, b)
  <2>1. (\E i, j \in 1 .. Len(k) : i < j /\ x \in ToSet(s[i]) /\ y \in ToSet(s[j]))
          <=> \E i, j \in 1 .. Len(k) :
                After(k[i], k[j]) /\ x \in Subtree(f, k[i]) /\ y \in Subtree(f, k[j])
    BY <1>5, <1>8
  <2> QED BY <2>1, <1>4
<1> QED BY <1>7, <1>9, <1>10, <1>11

(* What the walk below p is: the descendants of p, all of them, once each. *)
WellWalked(d, f, p) ==
  /\ f[p] \in Seq(Id)
  /\ \A x \in ToSet(f[p]) :
       /\ x \in DOMAIN d.nodes /\ x.counter > p.counter
       /\ d.nodes[x].parent \in Subtree(f, p)
  /\ \A x \in DOMAIN d.nodes : d.nodes[x].parent \in Subtree(f, p) => x \in ToSet(f[p])
  /\ \A x : ~ Precedes(f[p], x, x)

(* Two documents that have an element in common gave it the same parent.   *)
SameParents(d, e) ==
  \A x \in DOMAIN d.nodes \cap DOMAIN e.nodes : d.nodes[x].parent = e.nodes[x].parent

LEMMA TreeCounters ==
  ASSUME NEW d, Tree(d)
  PROVE  /\ \A x \in DOMAIN d.nodes :
              /\ x \in Id /\ x.counter \in Nat /\ x.counter <= d.counter
              /\ d.nodes[x].parent \in IdOrRoot /\ d.nodes[x].parent.counter \in Nat
              /\ x.counter > d.nodes[x].parent.counter
         /\ d.counter \in Nat
<1>1. IsDoc(d)
  BY DEF Tree
<1>2. /\ d.counter \in Nat /\ DOMAIN d.nodes \subseteq Id
      /\ \A x \in DOMAIN d.nodes : d.nodes[x].parent \in Id \cup {ROOT}
  BY <1>1 DEF IsDoc
<1>3. ROOT.counter = 0 /\ \A q \in Id : q.counter \in Nat
  BY IdsAreRecords DEF ROOT
<1> QED BY <1>2, <1>3 DEF Tree, IdOrRoot

(* The subtrees of two children of one element have nothing in common,     *)
(* also when they are those of two documents.                              *)
LEMMA SubtreesMeet ==
  ASSUME NEW d, NEW e, Tree(d), Tree(e), SameParents(d, e), NEW f, NEW g,
         NEW a \in DOMAIN d.nodes, NEW b \in DOMAIN e.nodes,
         WellWalked(d, f, a), WellWalked(e, g, b),
         d.nodes[a].parent = e.nodes[b].parent,
         NEW x, x \in Subtree(f, a), x \in Subtree(g, b)
  PROVE  a = b
<1> SUFFICES ASSUME a # b PROVE FALSE
  OBVIOUS
<1> DEFINE Meet == Subtree(f, a) \cap Subtree(g, b)
           T == {y.counter : y \in Meet}
           p == d.nodes[a].parent
<1>1. Meet \subseteq DOMAIN d.nodes /\ Meet \subseteq DOMAIN e.nodes
  BY DEF WellWalked, Subtree
<1>2. \A y \in Meet : y.counter \in Nat
  BY <1>1, TreeCounters
<1>3. PICK m \in T : \A k \in T : m <= k
  <2>1. T \subseteq Nat /\ x.counter \in T
    BY <1>2
  <2> HIDE DEF T
  <2> QED BY <2>1, LeastNatural
<1>4. PICK y \in Meet : \A z \in Meet : y.counter <= z.counter
  BY <1>3
<1> HIDE DEF T
<1>5. y # a
  <2> SUFFICES ASSUME y = a PROVE FALSE
    OBVIOUS
  <2>1. a \in ToSet(g[b]) /\ a \in DOMAIN e.nodes
    BY <1>1, <1>4 DEF Subtree
  <2>2. e.nodes[a].parent = p
    BY <2>1 DEF SameParents
  <2>3. p \in Subtree(g, b)
    BY <2>1, <2>2 DEF WellWalked
  <2>4. p = b \/ p.counter > b.counter
    BY <2>3 DEF WellWalked, Subtree
  <2>5. b.counter > p.counter /\ b.counter \in Nat /\ p.counter \in Nat
    BY TreeCounters
  <2> QED BY <2>4, <2>5
<1>6. y # b
  <2> SUFFICES ASSUME y = b PROVE FALSE
    OBVIOUS
  <2>1. b \in ToSet(f[a]) /\ b \in DOMAIN d.nodes
    BY <1>1, <1>4 DEF Subtree
  <2>2. d.nodes[b].parent = p
    BY <2>1 DEF SameParents
  <2>3. p \in Subtree(f, a)
    BY <2>1, <2>2 DEF WellWalked
  <2>4. p = a \/ p.counter > a.counter
    BY <2>3 DEF WellWalked, Subtree
  <2>5. a.counter > p.counter /\ a.counter \in Nat /\ p.counter \in Nat
    BY TreeCounters
  <2> QED BY <2>4, <2>5
<1>7. y \in ToSet(f[a]) /\ y \in ToSet(g[b])
  BY <1>4, <1>5, <1>6 DEF Subtree
<1>8. d.nodes[y].parent \in Meet
  BY <1>1, <1>4, <1>7 DEF WellWalked, SameParents
<1>9. /\ y.counter > d.nodes[y].parent.counter /\ y.counter \in Nat
      /\ d.nodes[y].parent.counter \in Nat
  BY <1>1, <1>4, TreeCounters
<1> QED BY <1>4, <1>8, <1>9

(* What holds of an element when it holds of its children holds of all.    *)
LEMMA FromTheLeaves ==
  ASSUME NEW d, Tree(d), NEW G,
         \A p \in Places(d) : Children(d, p) \subseteq G => p \in G
  PROVE  Places(d) \subseteq G
<1> DEFINE T == {d.counter - p.counter : p \in Places(d) \ G}
<1> SUFFICES ASSUME ~ (Places(d) \subseteq G) PROVE FALSE
  OBVIOUS
<1>1. /\ d.counter \in Nat
      /\ \A p \in Places(d) : p.counter \in Nat /\ p.counter <= d.counter
      /\ \A p \in Places(d) : \A x \in Children(d, p) : x \in Places(d) /\ x.counter > p.counter
  <2>1. ROOT.counter = 0
    BY DEF ROOT
  <2> QED BY <2>1, TreeCounters DEF Places, Children
<1>2. T \subseteq Nat /\ T # {}
  BY <1>1
<1>3. PICK m \in T : \A k \in T : m <= k
  <2> HIDE DEF T
  <2> QED BY <1>2, LeastNatural
<1>4. PICK p \in Places(d) \ G : m = d.counter - p.counter
  BY <1>3
<1>5. Children(d, p) \subseteq G
  <2> SUFFICES ASSUME NEW x \in Children(d, p), x \notin G PROVE FALSE
    OBVIOUS
  <2>1. x \in Places(d) /\ x.counter > p.counter
    BY <1>1
  <2>2. d.counter - x.counter \in T
    BY <2>1
  <2>3. m <= d.counter - x.counter
    BY <1>3, <2>2
  <2>4. x.counter \in Nat /\ p.counter \in Nat /\ d.counter \in Nat
    BY <1>1, <2>1
  <2> QED BY <1>4, <2>1, <2>3, <2>4
<1> QED BY <1>4, <1>5

(* Every walk is what it should be.                                        *)
LEMMA WalkIsWell ==
  ASSUME NEW d, Tree(d), NEW f, IsWalk(d, f)
  PROVE  \A p \in Places(d) : WellWalked(d, f, p)
<1> DEFINE G == {p \in Places(d) : WellWalked(d, f, p)}
<1>1. ASSUME NEW p \in Places(d), Children(d, p) \subseteq G PROVE WellWalked(d, f, p)
  <2>1. \A a \in Children(d, p) : /\ a \in DOMAIN d.nodes /\ d.nodes[a].parent = p
                                  /\ WellWalked(d, f, a)
    BY <1>1 DEF Children
  <2>2. \A a \in Children(d, p) : f[a] \in Seq(Id)
    BY <2>1 DEF WellWalked
  <2>3. /\ f[p] \in Seq(Id)
        /\ \A x : x \in ToSet(f[p]) <=> \E a \in Children(d, p) : x \in Subtree(f, a)
        /\ \A x, y : Precedes(f[p], x, y)
             <=> \/ \E a \in Children(d, p) :
                      (x = a /\ y \in ToSet(f[a])) \/ Precedes(f[a], x, y)
                 \/ \E a, b \in Children(d, p) :
                      After(a, b) /\ x \in Subtree(f, a) /\ y \in Subtree(f, b)
    BY <2>2, WalkOrder
  <2>4. ASSUME NEW x \in ToSet(f[p])
        PROVE  /\ x \in DOMAIN d.nodes /\ x.counter > p.counter
               /\ d.nodes[x].parent \in Subtree(f, p)
    <3>1. PICK a \in Children(d, p) : x \in Subtree(f, a)
      BY <2>3
    <3>2. a.counter > p.counter /\ a.counter \in Nat /\ p.counter \in Nat
      BY <2>1, TreeCounters
    <3>3. CASE x = a
      BY <2>1, <3>2, <3>3 DEF Subtree
    <3>4. CASE x \in ToSet(f[a])
      <4>1. /\ x \in DOMAIN d.nodes /\ x.counter > a.counter
            /\ d.nodes[x].parent \in Subtree(f, a)
        BY <2>1, <3>4 DEF WellWalked
      <4>2. x.counter \in Nat
        BY <4>1, TreeCounters
      <4>3. d.nodes[x].parent \in ToSet(f[p])
        BY <2>3, <4>1
      <4> QED BY <3>2, <4>1, <4>2, <4>3 DEF Subtree
    <3> QED BY <3>1, <3>3, <3>4 DEF Subtree
  <2>5. ASSUME NEW x \in DOMAIN d.nodes, d.nodes[x].parent \in Subtree(f, p)
        PROVE  x \in ToSet(f[p])
    <3>1. CASE d.nodes[x].parent = p
      BY <2>3, <3>1 DEF Children, Subtree
    <3>2. CASE d.nodes[x].parent \in ToSet(f[p])
      <4>1. PICK a \in Children(d, p) : d.nodes[x].parent \in Subtree(f, a)
        BY <2>3, <3>2
      <4>2. x \in ToSet(f[a])
        BY <2>1, <4>1 DEF WellWalked
      <4> QED BY <2>3, <4>2 DEF Subtree
    <3> QED BY <2>5, <3>1, <3>2 DEF Subtree
  <2>6. ASSUME NEW x, Precedes(f[p], x, x) PROVE FALSE
    <3>1. CASE \E a \in Children(d, p) : (x = a /\ x \in ToSet(f[a])) \/ Precedes(f[a], x, x)
      <4>1. PICK a \in Children(d, p) : (x = a /\ x \in ToSet(f[a])) \/ Precedes(f[a], x, x)
        BY <3>1
      <4>2. WellWalked(d, f, a) /\ a.counter \in Nat
        BY <2>1, TreeCounters
      <4> QED BY <4>1, <4>2 DEF WellWalked
    <3>2. CASE \E a, b \in Children(d, p) :
                 After(a, b) /\ x \in Subtree(f, a) /\ x \in Subtree(f, b)
      <4>1. PICK a, b \in Children(d, p) :
              After(a, b) /\ x \in Subtree(f, a) /\ x \in Subtree(f, b)
        BY <3>2
      <4>2. SameParents(d, d)
        BY DEF SameParents
      <4>3. a = b
        BY <2>1, <4>1, <4>2, SubtreesMeet
      <4>4. a \in Id
        BY <2>1, TreeCounters
      <4> QED BY <4>1, <4>3, <4>4, AfterIsStrictOrder
    <3> QED BY <2>3, <2>6, <3>1, <3>2
  <2> QED BY <2>3, <2>4, <2>5, <2>6 DEF WellWalked
<1>2. \A p \in Places(d) : Children(d, p) \subseteq G => p \in G
  BY <1>1
<1> HIDE DEF G
<1>3. Places(d) \subseteq G
  BY <1>2, FromTheLeaves
<1> QED BY <1>3 DEF G

(* Two walks put the elements they share in the same order.                *)
LEMMA WalksAgree ==
  ASSUME NEW d, NEW e, Tree(d), Tree(e), SameParents(d, e), NEW f, NEW g,
         IsWalk(d, f), IsWalk(e, g)
  PROVE  \A p \in Places(d) \cap Places(e) :
           \A x, y : /\ Precedes(f[p], x, y)
                     /\ x \in ToSet(g[p]) /\ y \in ToSet(g[p])
                     => Precedes(g[p], x, y)
<1> DEFINE Same(p) == \A x, y : /\ Precedes(f[p], x, y)
                                /\ x \in ToSet(g[p]) /\ y \in ToSet(g[p])
                                => Precedes(g[p], x, y)
           G == {p \in Places(d) : p \in Places(e) => Same(p)}
<1>1. /\ \A p \in Places(d) : WellWalked(d, f, p)
      /\ \A p \in Places(e) : WellWalked(e, g, p)
  BY WalkIsWell
<1>2. ASSUME NEW p \in Places(d), Children(d, p) \subseteq G, p \in Places(e),
             NEW x, NEW y, Precedes(f[p], x, y), x \in ToSet(g[p]), y \in ToSet(g[p])
      PROVE  Precedes(g[p], x, y)
  <2>1. /\ \A a \in Children(d, p) : /\ a \in DOMAIN d.nodes /\ d.nodes[a].parent = p
                                     /\ WellWalked(d, f, a) /\ f[a] \in Seq(Id)
        /\ \A a \in Children(e, p) : /\ a \in DOMAIN e.nodes /\ e.nodes[a].parent = p
                                     /\ WellWalked(e, g, a) /\ g[a] \in Seq(Id)
    BY <1>1 DEF Children, Places, WellWalked
  <2>2. \/ \E a \in Children(d, p) : (x = a /\ y \in ToSet(f[a])) \/ Precedes(f[a], x, y)
        \/ \E a, b \in Children(d, p) :
             After(a, b) /\ x \in Subtree(f, a) /\ y \in Subtree(f, b)
    <3>1. \A a \in Children(d, p) : f[a] \in Seq(Id)
      BY <2>1
    <3>2. \A v, w : Precedes(f[p], v, w)
            <=> \/ \E a \in Children(d, p) :
                     (v = a /\ w \in ToSet(f[a])) \/ Precedes(f[a], v, w)
                \/ \E a, b \in Children(d, p) :
                     After(a, b) /\ v \in Subtree(f, a) /\ w \in Subtree(f, b)
      BY <3>1, WalkOrder
    <3> QED BY <1>2, <3>2
  <2>3. /\ \A z : z \in ToSet(g[p]) <=> \E b \in Children(e, p) : z \in Subtree(g, b)
        /\ \A a \in Children(e, p) : (x = a /\ y \in ToSet(g[a])) \/ Precedes(g[a], x, y)
             => Precedes(g[p], x, y)
        /\ \A a, b \in Children(e, p) :
             After(a, b) /\ x \in Subtree(g, a) /\ y \in Subtree(g, b) => Precedes(g[p], x, y)
    BY <1>2, <2>1, WalkOrder
  <2>4. ASSUME NEW a \in Children(d, p), NEW z \in Subtree(f, a), z \in ToSet(g[p])
        PROVE  a \in Children(e, p) /\ z \in Subtree(g, a)
    <3>1. PICK b \in Children(e, p) : z \in Subtree(g, b)
      BY <2>3, <2>4
    <3>2. a = b
      BY <2>1, <2>4, <3>1, SubtreesMeet
    <3> QED BY <3>1, <3>2
  <2>5. CASE \E a \in Children(d, p) : (x = a /\ y \in ToSet(f[a])) \/ Precedes(f[a], x, y)
    <3>1. PICK a \in Children(d, p) : (x = a /\ y \in ToSet(f[a])) \/ Precedes(f[a], x, y)
      BY <2>5
    <3>2. x \in Subtree(f, a) /\ y \in Subtree(f, a) /\ y \in ToSet(f[a])
      BY <2>1, <3>1, PrecedesMembers DEF Subtree
    <3>3. a \in Children(e, p) /\ x \in Subtree(g, a) /\ y \in Subtree(g, a)
      BY <1>2, <2>4, <3>2
    <3>4. ASSUME NEW z, z \in ToSet(f[a]) PROVE z # a
      <4>1. z.counter > a.counter /\ a.counter \in Nat
        BY <2>1, <3>4, TreeCounters DEF WellWalked
      <4> QED BY <4>1
    <3>5. y \in ToSet(g[a])
      BY <3>2, <3>3, <3>4 DEF Subtree
    <3>6. CASE x = a
      BY <2>3, <3>3, <3>5, <3>6
    <3>7. CASE Precedes(f[a], x, y)
      <4>1. x \in ToSet(f[a])
        BY <2>1, <3>7, PrecedesMembers
      <4>2. x \in ToSet(g[a])
        BY <3>3, <3>4, <4>1 DEF Subtree
      <4>3. a \in G /\ a \in Places(e)
        BY <1>2, <2>1, <3>3 DEF Places
      <4>4. Same(a)
        BY <4>3
      <4>5. Precedes(g[a], x, y)
        BY <3>5, <3>7, <4>2, <4>4
      <4> QED BY <2>3, <3>3, <4>5
    <3> QED BY <3>1, <3>6, <3>7
  <2>6. CASE \E a, b \in Children(d, p) :
               After(a, b) /\ x \in Subtree(f, a) /\ y \in Subtree(f, b)
    <3>1. PICK a, b \in Children(d, p) :
            After(a, b) /\ x \in Subtree(f, a) /\ y \in Subtree(f, b)
      BY <2>6
    <3>2. /\ a \in Children(e, p) /\ x \in Subtree(g, a)
          /\ b \in Children(e, p) /\ y \in Subtree(g, b)
      BY <1>2, <2>4, <3>1
    <3> QED BY <2>3, <3>1, <3>2
  <2> QED BY <2>2, <2>5, <2>6
<1>3. \A p \in Places(d) : Children(d, p) \subseteq G => p \in G
  BY <1>2
<1> HIDE DEF G
<1>4. Places(d) \subseteq G
  BY <1>3, FromTheLeaves
<1>5. \A p \in Places(d) \cap Places(e) : Same(p)
  <2> HIDE DEF Same
  <2> QED BY <1>4 DEF G
<1> QED BY <1>5

(* The length of a list without duplicates.                                *)
LEMMA ListWithoutDuplicates ==
  ASSUME NEW S, NEW s \in Seq(S), \A x : ~ Precedes(s, x, x)
  PROVE  Len(s) = Cardinality(ToSet(s))
<1>1. Len(s) \in Nat /\ DOMAIN s = 1 .. Len(s)
  BY LenProperties
<1>2. \A i, j \in 1 .. Len(s) : s[i] = s[j] => i = j
  <2>1. \A i, j \in 1 .. Len(s) : i < j => s[i] # s[j]
    BY DEF Precedes
  <2> QED BY <1>1, <2>1
<1>3. s \in [1 .. Len(s) -> ToSet(s)] /\ \A x \in ToSet(s) : \E i \in 1 .. Len(s) : s[i] = x
  BY <1>1 DEF ToSet
<1>4. s \in Bijection(1 .. Len(s), ToSet(s))
  BY <1>2, <1>3 DEF Bijection, Injection, Surjection, IsInjective
<1>5. ExistsBijection(1 .. Len(s), ToSet(s))
  BY <1>4 DEF ExistsBijection
<1> QED BY <1>1, <1>5, FS_CountingElements

(* The document order lists elements of the document, each once, and all   *)
(* of them when no parent is missing.                                      *)
LEMMA OrderedLists ==
  ASSUME NEW d, Tree(d)
  PROVE  /\ Ordered(d) \in Seq(Id)
         /\ ToSet(Ordered(d)) \subseteq DOMAIN d.nodes
         /\ \A x : ~ Precedes(Ordered(d), x, x)
         /\ (\A x \in DOMAIN d.nodes : d.nodes[x].parent \in Places(d))
              => ToSet(Ordered(d)) = DOMAIN d.nodes
<1>1. PICK f : IsWalk(d, f) /\ Ordered(d) = f[ROOT]
  BY OrderedIsAWalk
<1>2. WellWalked(d, f, ROOT)
  BY <1>1, WalkIsWell DEF Places
<1>3. ASSUME \A x \in DOMAIN d.nodes : d.nodes[x].parent \in Places(d)
      PROVE  DOMAIN d.nodes \subseteq ToSet(f[ROOT])
  <2> DEFINE Missed == DOMAIN d.nodes \ ToSet(f[ROOT])
             T == {x.counter : x \in Missed}
  <2> SUFFICES ASSUME Missed # {} PROVE FALSE
    OBVIOUS
  <2>1. T \subseteq Nat /\ T # {}
    BY TreeCounters
  <2>2. PICK m \in T : \A k \in T : m <= k
    <3> HIDE DEF T
    <3> QED BY <2>1, LeastNatural
  <2>3. PICK x \in Missed : \A y \in Missed : x.counter <= y.counter
    BY <2>2
  <2>4. /\ x.counter > d.nodes[x].parent.counter /\ x.counter \in Nat
        /\ d.nodes[x].parent.counter \in Nat
    BY <2>3, TreeCounters
  <2>5. d.nodes[x].parent \notin Missed
    BY <2>3, <2>4
  <2>6. d.nodes[x].parent \in Subtree(f, ROOT)
    BY <1>3, <2>3, <2>5 DEF Places, Subtree
  <2> QED BY <1>2, <2>3, <2>6 DEF WellWalked
<1> QED BY <1>1, <1>2, <1>3 DEF WellWalked

(* Two documents put the elements both can place in the same order.        *)
LEMMA OrdersAgree ==
  ASSUME NEW d, NEW e, Tree(d), Tree(e), SameParents(d, e), NEW x, NEW y,
         Precedes(Ordered(d), x, y),
         x \in ToSet(Ordered(e)), y \in ToSet(Ordered(e))
  PROVE  Precedes(Ordered(e), x, y)
<1>1. PICK f : IsWalk(d, f) /\ Ordered(d) = f[ROOT]
  BY OrderedIsAWalk
<1>2. PICK g : IsWalk(e, g) /\ Ordered(e) = g[ROOT]
  BY OrderedIsAWalk
<1>3. ROOT \in Places(d) \cap Places(e)
  BY DEF Places
<1> QED BY <1>1, <1>2, <1>3, WalksAgree

-----------------------------------------------------------------------------
(* Snapshots *)

Node == [id : Id, parent : Id \cup {ROOT}, deleted : BOOLEAN]

(* What merging one node applies. *)
NodeInsert(n) == [type |-> "insert", id |-> n.id, parent |-> n.parent]

NodeOps(n) == {NodeInsert(n)} \cup (IF n.deleted THEN {DeleteOf(n.id)} ELSE {})

LEMMA NodeOpsAreOps ==
  ASSUME NEW n \in Node
  PROVE  NodeInsert(n) \in Op /\ DeleteOf(n.id) \in Op /\ NodeOps(n) \subseteq Op
<1>1. n.id \in Id /\ n.parent \in Id \cup {ROOT} /\ n.deleted \in BOOLEAN
  BY DEF Node
<1>2. NodeInsert(n) \in Op /\ DeleteOf(n.id) \in Op
  BY <1>1 DEF NodeInsert, DeleteOf, Op, InsertOp, DeleteOp
<1> QED BY <1>2 DEF NodeOps

(* One node more. *)
LEMMA MergeNodeSound ==
  ASSUME NEW ops \in SUBSET Op, NEW n \in Node, NEW d, Sound(d, ops),
         UniqueIds(ops \cup NodeOps(n))
  PROVE  Sound(MergeNode(d, n), ops \cup NodeOps(n)) /\ MergeNode(d, n).counter >= d.counter
<1> DEFINE ins == NodeInsert(n)
           del == DeleteOf(n.id)
           e   == Apply(d, ins)
<1>1. ins \in Op /\ del \in Op /\ NodeOps(n) \subseteq Op /\ ins \in NodeOps(n)
  BY NodeOpsAreOps DEF NodeOps
<1>2. ins.type = "insert" /\ del.type = "delete"
  BY DEF NodeInsert, DeleteOf
<1>3. e = ApplyInsert(d, ins)
  BY <1>2 DEF Apply
<1>4. MergeNode(d, n) = IF n.deleted THEN Apply(e, del) ELSE e
  BY <1>2, <1>3 DEF MergeNode, Apply, NodeInsert
<1>5. NodeOps(n) = IF n.deleted THEN {ins, del} ELSE {ins}
  BY DEF NodeOps
<1> HIDE DEF ins, del
<1>6. UniqueIds(ops \cup {ins})
  <2>1. ops \cup {ins} \subseteq ops \cup NodeOps(n)
    BY <1>1
  <2> QED BY <2>1, SubsetUnique
<1>7. Sound(e, ops \cup {ins}) /\ e.counter >= d.counter
  BY <1>1, <1>6, ApplySound
<1>8. CASE n.deleted
  <2>1. (ops \cup {ins}) \cup {del} = ops \cup NodeOps(n) /\ ops \cup {ins} \in SUBSET Op
    BY <1>1, <1>5, <1>8
  <2> HIDE DEF e
  <2>2. Sound(Apply(e, del), (ops \cup {ins}) \cup {del}) /\ Apply(e, del).counter >= e.counter
    BY <1>1, <1>7, <2>1, ApplySound
  <2>3. Sound(MergeNode(d, n), ops \cup NodeOps(n)) /\ MergeNode(d, n).counter >= e.counter
    BY <1>4, <1>8, <2>1, <2>2
  <2>4. e.counter \in Nat /\ d.counter \in Nat /\ MergeNode(d, n).counter \in Nat
    BY <1>7, <2>3 DEF Sound, IsDoc
  <2> QED BY <1>7, <2>3, <2>4
<1>9. CASE ~ n.deleted
  BY <1>4, <1>5, <1>7, <1>9
<1> QED BY <1>8, <1>9

(* mergeSnapshot takes one node after the other. *)
LEMMA MergeSteps ==
  ASSUME NEW d, NEW s, NEW n \in Nat, DOMAIN s = 1 .. n
  PROVE  \E h : /\ h[0] = d /\ h[n] = MergeSnapshot(d, s)
                /\ \A i \in 1 .. n : h[i] = MergeNode(h[i - 1], s[i])
<1> DEFINE Rec(k, it) ==
             it = [t \in SUBSET (1 .. k) |->
                     IF t = {} THEN d ELSE MergeNode(it[t \ {Max(t)}], s[Max(t)])]
           G == {k \in 0 .. n : \E it : Rec(k, it)}
<1>1. 0 \in G
  <2>1. Rec(0, [t \in SUBSET (1 .. 0) |-> d])
    OBVIOUS
  <2> QED BY <2>1
<1>2. ASSUME NEW k \in 1 .. n, k - 1 \in G PROVE k \in G
  <2>1. PICK it : Rec(k - 1, it)
    BY <1>2
  <2> DEFINE new == [t \in SUBSET (1 .. k) |->
                       IF k \in t THEN MergeNode(it[t \ {k}], s[k]) ELSE it[t]]
  <2>2. ASSUME NEW t \in SUBSET (1 .. k)
        PROVE  new[t] = IF t = {} THEN d ELSE MergeNode(new[t \ {Max(t)}], s[Max(t)])
    <3>1. CASE t = {}
      BY <2>1, <3>1
    <3>2. CASE k \in t
      <4>1. Max(t) = k /\ t \ {k} \in SUBSET (1 .. (k - 1))
        BY <3>2, MaxUpTo
      <4>2. t \ {k} \in SUBSET (1 .. k) /\ k \notin t \ {k}
        OBVIOUS
      <4> QED BY <3>2, <4>1, <4>2
    <3>3. CASE t # {} /\ k \notin t
      <4>1. t \in SUBSET (1 .. (k - 1)) /\ k - 1 \in Nat
        BY <3>3
      <4>2. Max(t) \in t /\ t \ {Max(t)} \in SUBSET (1 .. k)
        BY <3>3, MaxUpTo
      <4>3. it[t] = MergeNode(it[t \ {Max(t)}], s[Max(t)])
        BY <2>1, <3>3, <4>1
      <4>4. new[t] = it[t] /\ new[t \ {Max(t)}] = it[t \ {Max(t)}]
        BY <3>3, <4>2
      <4> QED BY <3>3, <4>3, <4>4
    <3> QED BY <3>1, <3>2, <3>3
  <2>3. Rec(k, new)
    BY <2>2
  <2> HIDE DEF new, Rec
  <2> QED BY <2>3
<1>3. n \in G
  <2> HIDE DEF G
  <2> QED BY <1>1, <1>2, Interval
<1>4. PICK it : Rec(n, it) /\ MergeSnapshot(d, s) = it[1 .. n]
  <2>1. MergeSnapshot(d, s) = (CHOOSE it : Rec(n, it))[1 .. n]
    BY DEF MergeSnapshot, FoldLeft, MapThenFoldSet
  <2>2. \E it : Rec(n, it)
    BY <1>3
  <2> HIDE DEF Rec
  <2> QED BY <2>1, <2>2
<1> DEFINE h == [i \in 0 .. n |-> it[1 .. i]]
<1>5. h[0] = d /\ h[n] = MergeSnapshot(d, s)
  <2>1. 1 .. 0 = {} /\ {} \in SUBSET (1 .. n) /\ 0 \in 0 .. n /\ n \in 0 .. n
    OBVIOUS
  <2>2. it[{}] = d
    BY <1>4, <2>1
  <2>3. h[0] = it[1 .. 0] /\ h[n] = it[1 .. n]
    BY <2>1
  <2> QED BY <1>4, <2>1, <2>2, <2>3
<1>6. ASSUME NEW i \in 1 .. n PROVE h[i] = MergeNode(h[i - 1], s[i])
  <2>1. /\ i \in Nat /\ i \in 1 .. i /\ 1 .. i # {} /\ i - 1 \in 0 .. n
        /\ 1 .. i \in SUBSET (1 .. n) /\ 1 .. i \in SUBSET (1 .. i)
    OBVIOUS
  <2>2. (1 .. i) \ {i} = 1 .. (i - 1)
    <3>1. \A x \in 1 .. i : x # i => x \in 1 .. (i - 1)
      OBVIOUS
    <3>2. \A x \in 1 .. (i - 1) : x \in 1 .. i /\ x # i
      OBVIOUS
    <3> QED BY <3>1, <3>2
  <2>4. Max(1 .. i) = i
    <3> DEFINE t == 1 .. i
    <3> HIDE DEF t
    <3>1. Max(t) = i
      BY <2>1, MaxUpTo DEF t
    <3> QED BY <3>1 DEF t
  <2>3. it[1 .. i] = MergeNode(it[1 .. (i - 1)], s[i])
    BY <1>4, <2>1, <2>2, <2>4
  <2> QED BY <2>1, <2>3
<1> HIDE DEF h
<1> QED BY <1>5, <1>6

(* mergeSnapshot, of any list of nodes: what was there and what they say.  *)
LEMMA MergeSound ==
  ASSUME NEW ops \in SUBSET Op, NEW d, Sound(d, ops), NEW s \in Seq(Node),
         UniqueIds(ops \cup SnapshotOps(s))
  PROVE  /\ Sound(MergeSnapshot(d, s), ops \cup SnapshotOps(s))
         /\ MergeSnapshot(d, s).counter >= d.counter
<1> DEFINE n == Len(s)
           First(i) == UNION {NodeOps(s[j]) : j \in 1 .. i}
<1>1. n \in Nat /\ DOMAIN s = 1 .. n /\ \A i \in 1 .. n : s[i] \in Node
  BY LenProperties, ElementOfSeq
<1>2. SnapshotOps(s) = First(n)
  BY <1>1 DEF SnapshotOps, NodeOps, NodeInsert, Range
<1> HIDE DEF n
<1>3. UniqueIds(ops \cup First(n))
  BY <1>2
<1>4. PICK h : /\ h[0] = d /\ h[n] = MergeSnapshot(d, s)
               /\ \A i \in 1 .. n : h[i] = MergeNode(h[i - 1], s[i])
  BY <1>1, MergeSteps
<1> DEFINE G == {i \in 0 .. n : /\ Sound(h[i], ops \cup First(i)) /\ First(i) \subseteq Op
                                /\ h[i].counter >= d.counter}
<1>5. d.counter \in Nat
  BY DEF Sound, IsDoc
<1>6. 0 \in G
  <2>1. First(0) = {}
    OBVIOUS
  <2> HIDE DEF First
  <2>2. Sound(h[0], ops \cup First(0)) /\ First(0) \subseteq Op
    BY <1>4, <2>1
  <2>3. h[0].counter >= d.counter /\ 0 \in 0 .. n
    BY <1>1, <1>4, <1>5
  <2> QED BY <2>2, <2>3
<1>7. ASSUME NEW i \in 1 .. n, i - 1 \in G PROVE i \in G
  <2>1. First(i) = First(i - 1) \cup NodeOps(s[i])
    <3>1. \A j \in 1 .. i : j \in 1 .. (i - 1) \/ j = i
      BY <1>1
    <3>2. i \in 1 .. i /\ \A j \in 1 .. (i - 1) : j \in 1 .. i
      BY <1>1
    <3> QED BY <3>1, <3>2
  <2>2. First(i) \subseteq First(n)
    <3>1. 1 .. i \subseteq 1 .. n
      BY <1>1
    <3> QED BY <3>1
  <2> HIDE DEF First
  <2>3. Sound(h[i - 1], ops \cup First(i - 1)) /\ First(i - 1) \subseteq Op
        /\ h[i - 1].counter >= d.counter
    BY <1>7
  <2>4. s[i] \in Node /\ NodeOps(s[i]) \subseteq Op
    BY <1>1, NodeOpsAreOps
  <2>5. (ops \cup First(i - 1)) \cup NodeOps(s[i]) = ops \cup First(i)
        /\ ops \cup First(i - 1) \in SUBSET Op /\ First(i) \subseteq Op
    BY <2>1, <2>3, <2>4
  <2>6. UniqueIds(ops \cup First(i))
    <3>1. ops \cup First(i) \subseteq ops \cup First(n)
      BY <2>2
    <3> QED BY <1>3, <3>1, SubsetUnique
  <2>7. /\ Sound(MergeNode(h[i - 1], s[i]), ops \cup First(i))
        /\ MergeNode(h[i - 1], s[i]).counter >= h[i - 1].counter
    BY <2>3, <2>4, <2>5, <2>6, MergeNodeSound
  <2>8. Sound(h[i], ops \cup First(i)) /\ h[i].counter >= h[i - 1].counter
    BY <1>4, <2>7
  <2>9. h[i].counter \in Nat /\ h[i - 1].counter \in Nat
    BY <2>3, <2>8 DEF Sound, IsDoc
  <2>10. h[i].counter >= d.counter /\ i \in 0 .. n
    BY <1>1, <1>5, <2>3, <2>8, <2>9
  <2> QED BY <2>5, <2>8, <2>10
<1>8. n \in G
  <2> HIDE DEF G
  <2>1. \A i \in 0 .. n : i \in G
    BY <1>1, <1>6, <1>7, Interval
  <2> QED BY <1>1, <2>1
<1> HIDE DEF First
<1> QED BY <1>2, <1>4, <1>8

(* The sorted list lists the same nodes.                                   *)
LEMMA SortedNodes ==
  ASSUME NEW s \in Seq(Node), \A i, j \in 1 .. Len(s) : s[i].id = s[j].id => i = j
  PROVE  SortedById(s) \in Seq(Node) /\ Range(SortedById(s)) = Range(s)
<1> DEFINE n == Len(s)
           N == Range(s)
           t == SortedById(s)
           Older(a) == {m \in N : After(a.id, m.id)}
           rank == [a \in N |-> Cardinality(Older(a))]
<1>1. n \in Nat /\ DOMAIN s = 1 .. n /\ \A i \in 1 .. n : s[i] \in Node
  BY LenProperties, ElementOfSeq
<1>2. N = ToSet(s) /\ N = {s[i] : i \in 1 .. n} /\ N \subseteq Node
  BY <1>1 DEF Range, ToSet
<1>3. IsFiniteSet(N) /\ Cardinality(N) = n
  <2>1. \A x : ~ Precedes(s, x, x)
    BY <1>1 DEF Precedes
  <2>2. n = Cardinality(N)
    BY <1>2, <2>1, ListWithoutDuplicates
  <2>3. s \in Surjection(1 .. n, N)
    BY <1>1, <1>2 DEF Surjection
  <2>4. IsFiniteSet(1 .. n)
    BY <1>1, FS_Interval
  <2>5. IsFiniteSet(N)
    BY <2>3, <2>4, FS_Surjection
  <2> QED BY <2>2, <2>5
<1>4. \A a, b \in N : a.id \in Id /\ (a.id = b.id => a = b)
  BY <1>1, <1>2 DEF Node
<1>5. t = [i \in 1 .. n |-> CHOOSE a \in N : Cardinality(Older(a)) = i - 1]
  BY DEF SortedById
<1> HIDE DEF n, N, t
<1>6. \A a \in N : IsFiniteSet(Older(a)) /\ Cardinality(Older(a)) \in 0 .. (n - 1)
  <2> TAKE a \in N
  <2>1. Older(a) \in SUBSET N /\ a \notin Older(a)
    BY <1>4, AfterIsStrictOrder
  <2> HIDE DEF Older
  <2>2. /\ IsFiniteSet(Older(a)) /\ Cardinality(Older(a)) <= Cardinality(N)
        /\ Cardinality(N) = Cardinality(Older(a)) => N = Older(a)
    BY <1>3, <2>1, FS_Subset
  <2>3. Cardinality(Older(a)) \in Nat
    BY <2>2, FS_CardinalityType
  <2>4. Cardinality(Older(a)) # n
    BY <1>3, <2>1, <2>2
  <2> DEFINE c == Cardinality(Older(a))
  <2>5. c \in Nat /\ c <= n /\ c # n
    BY <1>3, <2>2, <2>3, <2>4
  <2> HIDE DEF c
  <2>6. c \in 0 .. (n - 1)
    BY <1>1, <2>5
  <2> QED BY <2>2, <2>6 DEF c
<1>7. ASSUME NEW a \in N, NEW b \in N, After(a.id, b.id)
      PROVE  Cardinality(Older(a)) # Cardinality(Older(b))
  <2>1. b \in Older(a) /\ b \notin Older(b) /\ Older(b) \in SUBSET Older(a)
    BY <1>4, <1>7, AfterIsStrictOrder
  <2>2. IsFiniteSet(Older(a))
    BY <1>6
  <2> HIDE DEF Older
  <2>3. Cardinality(Older(a)) = Cardinality(Older(b)) => Older(a) = Older(b)
    BY <2>1, <2>2, FS_Subset
  <2> QED BY <2>1, <2>3
<1>8. \A a, b \in N : Cardinality(Older(a)) = Cardinality(Older(b)) => a = b
  <2> SUFFICES ASSUME NEW a \in N, NEW b \in N, a # b
               PROVE  Cardinality(Older(a)) # Cardinality(Older(b))
    OBVIOUS
  <2>1. After(a.id, b.id) \/ After(b.id, a.id)
    BY <1>4, AfterIsStrictOrder
  <2> HIDE DEF Older
  <2> QED BY <2>1, <1>7
<1> HIDE DEF Older
<1>9. \A k \in 0 .. (n - 1) : \E a \in N : Cardinality(Older(a)) = k
  <2>1. rank \in Injection(N, 0 .. (n - 1))
    BY <1>6, <1>8 DEF Injection, IsInjective
  <2>2. IsFiniteSet(0 .. (n - 1)) /\ Cardinality(0 .. (n - 1)) = n
    <3>1. 0 \in Int /\ n - 1 \in Int
      BY <1>1
    <3>2. /\ IsFiniteSet(0 .. (n - 1))
          /\ Cardinality(0 .. (n - 1)) = IF 0 > n - 1 THEN 0 ELSE n - 1 - 0 + 1
      BY <3>1, FS_Interval
    <3>3. (IF 0 > n - 1 THEN 0 ELSE n - 1 - 0 + 1) = n
      BY <1>1
    <3> QED BY <3>2, <3>3
  <2> DEFINE C == 0 .. (n - 1)
  <2>3. rank \in Injection(N, C) /\ IsFiniteSet(C) /\ Cardinality(N) = Cardinality(C)
    BY <1>3, <2>1, <2>2
  <2> HIDE DEF rank, C
  <2>4. rank \in Surjection(N, C)
    BY <2>3, FS_Injection
  <2>5. \A k \in C : \E a \in N : rank[a] = k
    BY <2>4 DEF Surjection
  <2> QED BY <2>5 DEF rank, C
<1>10. \A i \in 1 .. n : t[i] \in N /\ Cardinality(Older(t[i])) = i - 1
  <2> TAKE i \in 1 .. n
  <2>1. i - 1 \in 0 .. (n - 1)
    BY <1>1
  <2>2. \E a \in N : Cardinality(Older(a)) = i - 1
    BY <1>9, <2>1
  <2>3. t[i] = CHOOSE a \in N : Cardinality(Older(a)) = i - 1
    BY <1>5
  <2> QED BY <2>2, <2>3
<1>11. \A a \in N : \E i \in 1 .. n : t[i] = a
  <2> TAKE a \in N
  <2> DEFINE i == Cardinality(Older(a)) + 1
  <2>1. i \in 1 .. n /\ i - 1 = Cardinality(Older(a))
    BY <1>1, <1>6
  <2>2. t[i] \in N /\ Cardinality(Older(t[i])) = Cardinality(Older(a))
    BY <1>10, <2>1
  <2>3. t[i] = a
    BY <1>8, <2>2
  <2> QED BY <2>1, <2>3
<1>12. DOMAIN t = 1 .. n
  BY <1>5
<1>13. t \in Seq(Node)
  <2>1. t \in [1 .. n -> Node]
    BY <1>2, <1>5, <1>10, <1>12
  <2> QED BY <1>1, <2>1, SeqDef
<1>14. Range(t) = N
  BY <1>10, <1>11, <1>12 DEF Range
<1> QED BY <1>13, <1>14 DEF t, N

(* Nothing refers to an element that is not there.                         *)
Whole(ops) ==
  /\ \A op \in Inserts(ops) : op.parent \in {ROOT} \cup InsertedIds(ops)
  /\ DeletedIds(ops) \subseteq InsertedIds(ops)

(* The snapshot of a document holds operations of its own; with no parent  *)
(* missing, all of them.                                                   *)
LEMMA SnapshotHolds ==
  ASSUME NEW d, Tree(d), NEW ops \in SUBSET Op, Mirrors(d, ops)
  PROVE  /\ Snapshot(d) \in Seq(Node) /\ SnapshotOps(Snapshot(d)) \subseteq ops
         /\ Whole(ops) => SnapshotOps(Snapshot(d)) = ops
         /\ \A i, j \in 1 .. Len(Snapshot(d)) : Snapshot(d)[i].id = Snapshot(d)[j].id => i = j
<1> DEFINE list == Ordered(d)
           n == Len(list)
           snap == Snapshot(d)
<1>1. Whole(ops) => \A x \in DOMAIN d.nodes : d.nodes[x].parent \in Places(d)
  <2> SUFFICES ASSUME Whole(ops) PROVE \A x \in DOMAIN d.nodes : d.nodes[x].parent \in Places(d)
    OBVIOUS
  <2> TAKE x \in DOMAIN d.nodes
  <2>1. PICK op \in Inserts(ops) : op.id = x
    BY DEF Mirrors, InsertedIds
  <2> QED BY <2>1 DEF Mirrors, Whole, Places
<1>2. /\ list \in Seq(Id) /\ \A x : ~ Precedes(list, x, x)
      /\ ToSet(list) \subseteq DOMAIN d.nodes
      /\ Whole(ops) => ToSet(list) = DOMAIN d.nodes
  BY <1>1, OrderedLists
<1>3. snap = [i \in 1 .. n |-> [id      |-> list[i],
                                parent  |-> d.nodes[list[i]].parent,
                                deleted |-> d.nodes[list[i]].deleted]]
  BY DEF Snapshot
<1> HIDE DEF list, snap
<1>4. n \in Nat /\ DOMAIN list = 1 .. n
  BY <1>2, LenProperties
<1> HIDE DEF n
<1>5. /\ \A i \in 1 .. n : list[i] \in DOMAIN d.nodes
      /\ Whole(ops) => \A x \in DOMAIN d.nodes : \E i \in 1 .. n : list[i] = x
  BY <1>2, <1>4 DEF ToSet
<1>6. \A i, j \in 1 .. n : list[i] = list[j] => i = j
  <2>1. \A i, j \in 1 .. n : i < j => list[i] # list[j]
    BY <1>2 DEF Precedes, n
  <2> QED BY <1>4, <2>1
<1>7. \A x \in DOMAIN d.nodes :
        /\ x \in Id /\ d.nodes[x].parent \in Id \cup {ROOT} /\ d.nodes[x].deleted \in BOOLEAN
  BY DEF Tree, IsDoc
<1>8. DOMAIN snap = 1 .. n /\ \A i \in 1 .. n :
        /\ snap[i] \in Node /\ snap[i].id = list[i]
        /\ snap[i].parent = d.nodes[list[i]].parent
        /\ snap[i].deleted = d.nodes[list[i]].deleted
  BY <1>3, <1>5, <1>7 DEF Node
<1>9. snap \in Seq(Node) /\ Len(snap) = n
  <2>1. snap \in [1 .. n -> Node]
    BY <1>3, <1>8
  <2>2. snap \in Seq(Node)
    BY <1>4, <2>1, SeqDef
  <2> QED BY <1>4, <1>8, <2>2, LenProperties
<1>10. \A i, j \in 1 .. Len(snap) : snap[i].id = snap[j].id => i = j
  BY <1>6, <1>8, <1>9
<1>11. SnapshotOps(snap) = {NodeInsert(snap[i]) : i \in 1 .. n}
         \cup {DeleteOf(snap[i].id) : i \in {j \in 1 .. n : snap[j].deleted}}
  BY <1>8 DEF SnapshotOps, NodeInsert, Range
<1>12. \A i \in 1 .. n : /\ NodeInsert(snap[i]) \in ops
                         /\ snap[i].deleted => DeleteOf(snap[i].id) \in ops
  <2> TAKE i \in 1 .. n
  <2>1. PICK op \in Inserts(ops) : op.id = list[i]
    BY <1>5 DEF Mirrors, InsertedIds
  <2>2. op \in InsertOp /\ op \in ops
    BY <2>1, OpsAreRecords DEF Inserts
  <2>3. op = [type |-> "insert", id |-> op.id, parent |-> op.parent]
    BY <2>2 DEF InsertOp
  <2>4. NodeInsert(snap[i]) = op
    BY <1>8, <2>1, <2>3 DEF NodeInsert, Mirrors
  <2>5. ASSUME snap[i].deleted PROVE DeleteOf(snap[i].id) \in ops
    <3>1. list[i] \in DeletedIds(ops)
      BY <1>5, <1>8, <2>5 DEF Mirrors
    <3>2. PICK del \in ops : del.type = "delete" /\ del.id = list[i]
      BY <3>1 DEF DeletedIds
    <3>3. del \in DeleteOp
      BY <3>2, OpsAreRecords
    <3>4. del = [type |-> "delete", id |-> del.id]
      BY <3>3 DEF DeleteOp
    <3> QED BY <1>8, <3>2, <3>4 DEF DeleteOf
  <2> QED BY <2>2, <2>4, <2>5
<1>13. ASSUME Whole(ops), NEW op \in ops
       PROVE  \E i \in 1 .. n : \/ op = NodeInsert(snap[i])
                                \/ snap[i].deleted /\ op = DeleteOf(snap[i].id)
  <2>1. CASE op.type = "insert"
    <3>1. op \in InsertOp /\ op \in Inserts(ops)
      BY <2>1, OpsAreRecords DEF Inserts
    <3>2. op = [type |-> "insert", id |-> op.id, parent |-> op.parent]
      BY <3>1 DEF InsertOp
    <3>3. op.id \in DOMAIN d.nodes /\ d.nodes[op.id].parent = op.parent
      BY <3>1 DEF Mirrors, InsertedIds
    <3>4. PICK i \in 1 .. n : list[i] = op.id
      BY <1>5, <1>13, <3>3
    <3>5. op = NodeInsert(snap[i])
      BY <1>8, <3>2, <3>3, <3>4 DEF NodeInsert
    <3> QED BY <3>5
  <2>2. CASE op.type # "insert"
    <3>1. op \in DeleteOp
      BY <2>2, OpsAreRecords
    <3>2. op = [type |-> "delete", id |-> op.id]
      BY <3>1 DEF DeleteOp
    <3>3. op.id \in DeletedIds(ops)
      BY <3>2 DEF DeletedIds
    <3>4. op.id \in DOMAIN d.nodes /\ d.nodes[op.id].deleted
      BY <1>13, <3>3 DEF Mirrors, Whole
    <3>5. PICK i \in 1 .. n : list[i] = op.id
      BY <1>5, <1>13, <3>4
    <3>6. snap[i].deleted /\ op = DeleteOf(snap[i].id)
      BY <1>8, <3>2, <3>4, <3>5 DEF DeleteOf
    <3> QED BY <3>6
  <2> QED BY <2>1, <2>2
<1>14. SnapshotOps(snap) \subseteq ops /\ (Whole(ops) => SnapshotOps(snap) = ops)
  <2>1. SnapshotOps(snap) \subseteq ops
    BY <1>11, <1>12
  <2>2. ASSUME Whole(ops) PROVE ops \subseteq SnapshotOps(snap)
    BY <1>11, <1>13, <2>2
  <2> QED BY <2>1, <2>2
<1> QED BY <1>9, <1>10, <1>14 DEF snap

(* The document of no operation.                                           *)
LEMMA EmptySound == Sound(NewDoc, {})
<1>1. /\ DOMAIN NewDoc.nodes = {} /\ NewDoc.tombstones = {}
      /\ DOMAIN NewDoc.children = {ROOT} /\ NewDoc.counter = 0
  BY DEF NewDoc
<1>2. Inserts({}) = {} /\ InsertedIds({}) = {} /\ DeletedIds({}) = {}
  BY DEF Inserts, InsertedIds, DeletedIds
<1>3. Mirrors(NewDoc, {})
  BY <1>1, <1>2 DEF Mirrors
<1>4. ClockIsLargestSeen(NewDoc)
  BY <1>1 DEF ClockIsLargestSeen
<1> QED BY <1>3, <1>4, EmptyDocument DEF Sound

(* fromSnapshot reads back the document the snapshot was taken of.         *)
LEMMA RestoreGivesTheDocument ==
  ASSUME NEW d, Tree(d), NEW ops \in SUBSET Op, Sound(d, ops), UniqueIds(ops), Whole(ops)
  PROVE  FromSnapshot(Snapshot(d)) = d
<1> DEFINE snap == Snapshot(d)
           list == SortedById(snap)
           e    == MergeSnapshot(NewDoc, list)
<1>1. /\ snap \in Seq(Node) /\ SnapshotOps(snap) = ops
      /\ \A i, j \in 1 .. Len(snap) : snap[i].id = snap[j].id => i = j
  BY SnapshotHolds DEF Sound
<1> HIDE DEF snap
<1>2. list \in Seq(Node) /\ Range(list) = Range(snap)
  BY <1>1, SortedNodes
<1> HIDE DEF list
<1>3. SnapshotOps(list) = ops /\ {} \cup ops = ops
  BY <1>1, <1>2 DEF SnapshotOps
<1>4. Sound(e, ops)
  <2>1. {} \in SUBSET Op /\ UniqueIds({} \cup SnapshotOps(list))
    BY <1>3
  <2>2. Sound(e, {} \cup SnapshotOps(list))
    BY <1>2, <2>1, EmptySound, MergeSound
  <2> QED BY <1>3, <2>2
<1> HIDE DEF e
<1>5. e = d
  BY <1>4, SameOpsSameDocument DEF Sound
<1> QED BY <1>5 DEF e, list, snap, FromSnapshot
=============================================================================
