---------------------------- MODULE RelayProofs -----------------------------
(***************************************************************************)
(* Relay for every set of replicas, every number of edits, of broken       *)
(* sockets and of compactions. What is false of the code is in the         *)
(* premises: a causal log (the run relay_lost), confirmed deletes, no      *)
(* reconnect behind a compaction (both in the README).                     *)
(*                                                                         *)
(* The argument.  A document stands for the operations it holds (Held):    *)
(* its own and some of the log (Documents).  The store is the log with a   *)
(* prefix folded into a snapshot, all of that prefix while the log is      *)
(* causal (IsStoreOf).  A socket is the rest of the log: what waits in     *)
(* down[r] of a joined replica brings all of the log beyond head[r]        *)
(* (Flow), and a document is made of the replica's own edits and of the    *)
(* log up to its head (Knows).  Both hold while no room may have missed    *)
(* what was folded (Intact): nothing is compacted, or the log is causal    *)
(* and no room comes back with a head that a compaction has passed.  An    *)
(* edit in the outbox is on its way up, or its echo, or the welcome that   *)
(* resends it, is on its way down (Pending).                               *)
(***************************************************************************)
EXTENDS Relay, RGALemmas

(* The operations a message of the server carries, in a snapshot or not. *)
Entry == [seq : Nat, op : Op]

Snap == [version : Nat, nodes : Seq(Node)]

OpsOf(entries) == {entries[i].op : i \in DOMAIN entries}

Carried(msg) ==
  IF msg.type = "welcome" THEN SnapshotOps(msg.snapshot.nodes) \cup OpsOf(msg.ops)
  ELSE {msg.op}

ClientMsg == [type : {"join"}, since : Nat] \cup [type : {"op"}, op : Op]

ServerMsg ==
  [type : {"welcome"}, snapshot : Snap, ops : Seq(Entry), head : Nat]
    \cup [type : {"stored"}, seq : Nat, op : Op]

-----------------------------------------------------------------------------
(* Folds, step by step *)

(* The documents on the way: h[i] has the first i operations applied. *)
OneByOne(h, d, s, n) ==
  /\ h[0] = d /\ h[n] = IntegrateDoc(d, s)
  /\ \A i \in 1 .. n : h[i] = Apply(h[i - 1], s[i].op)

(* integrate applies one operation after the other. *)
LEMMA IntegrateSteps ==
  ASSUME NEW d, NEW s, NEW n \in Nat, DOMAIN s = 1 .. n
  PROVE  \E h : OneByOne(h, d, s, n)
<1> DEFINE Rec(k, it) ==
             it = [t \in SUBSET (1 .. k) |->
                     IF t = {} THEN d ELSE ApplyStored(it[t \ {Max(t)}], s[Max(t)])]
           G == {k \in 0 .. n : \E it : Rec(k, it)}
<1>1. 0 \in G
  <2>1. Rec(0, [t \in SUBSET (1 .. 0) |-> d])
    OBVIOUS
  <2> QED BY <2>1
<1>2. ASSUME NEW k \in 1 .. n, k - 1 \in G PROVE k \in G
  <2>1. PICK it : Rec(k - 1, it)
    BY <1>2
  <2> DEFINE new == [t \in SUBSET (1 .. k) |->
                       IF k \in t THEN ApplyStored(it[t \ {k}], s[k]) ELSE it[t]]
  <2>2. ASSUME NEW t \in SUBSET (1 .. k)
        PROVE  new[t] = IF t = {} THEN d ELSE ApplyStored(new[t \ {Max(t)}], s[Max(t)])
    <3>1. CASE t = {}
      BY <2>1, <3>1
    <3>2. CASE k \in t
      <4>1. Max(t) = k /\ t \ {k} \in SUBSET (1 .. (k - 1))
        BY <3>2, MaxUpTo
      <4>2. t \ {k} \in SUBSET (1 .. k) /\ k \notin t \ {k}
        OBVIOUS
      <4> QED BY <3>2, <4>1, <4>2
    <3>3. CASE t # {} /\ k \notin t
      <4>1. t \in SUBSET (1 .. (k - 1)) /\ k - 1 \in Nat
        BY <3>3
      <4>2. Max(t) \in t /\ t \ {Max(t)} \in SUBSET (1 .. k)
        BY <3>3, MaxUpTo
      <4>3. it[t] = ApplyStored(it[t \ {Max(t)}], s[Max(t)])
        BY <2>1, <3>3, <4>1
      <4>4. new[t] = it[t] /\ new[t \ {Max(t)}] = it[t \ {Max(t)}]
        BY <3>3, <4>2
      <4> QED BY <3>3, <4>3, <4>4
    <3> QED BY <3>1, <3>2, <3>3
  <2>3. Rec(k, new)
    BY <2>2
  <2> HIDE DEF new, Rec
  <2> QED BY <2>3
<1>3. n \in G
  <2> HIDE DEF G
  <2> QED BY <1>1, <1>2, Interval
<1>4. PICK it : Rec(n, it) /\ IntegrateDoc(d, s) = it[1 .. n]
  <2>1. IntegrateDoc(d, s) = (CHOOSE it : Rec(n, it))[1 .. n]
    BY DEF IntegrateDoc, FoldLeft, MapThenFoldSet
  <2>2. \E it : Rec(n, it)
    BY <1>3
  <2> HIDE DEF Rec
  <2> QED BY <2>1, <2>2
<1> DEFINE h == [i \in 0 .. n |-> it[1 .. i]]
<1>5. h[0] = d /\ h[n] = IntegrateDoc(d, s)
  BY <1>4
<1>6. ASSUME NEW i \in 1 .. n PROVE h[i] = Apply(h[i - 1], s[i].op)
  <2>1. /\ i \in Nat /\ i \in 1 .. i /\ 1 .. i # {} /\ i - 1 \in 0 .. n
        /\ 1 .. i \in SUBSET (1 .. n) /\ 1 .. i \in SUBSET (1 .. i)
    OBVIOUS
  <2>2. (1 .. i) \ {i} = 1 .. (i - 1)
    <3>1. \A x \in 1 .. i : x # i => x \in 1 .. (i - 1)
      OBVIOUS
    <3>2. \A x \in 1 .. (i - 1) : x \in 1 .. i /\ x # i
      OBVIOUS
    <3> QED BY <3>1, <3>2
  <2>4. Max(1 .. i) = i
    <3> DEFINE t == 1 .. i
    <3> HIDE DEF t
    <3>1. Max(t) = i
      BY <2>1, MaxUpTo DEF t
    <3> QED BY <3>1 DEF t
  <2>3. it[1 .. i] = ApplyStored(it[1 .. (i - 1)], s[i])
    BY <1>4, <2>1, <2>2, <2>4
  <2> QED BY <2>1, <2>3 DEF ApplyStored
<1> HIDE DEF h
<1>7. OneByOne(h, d, s, n)
  BY <1>5, <1>6 DEF OneByOne
<1> QED BY <1>7

(* A document after the operations of a list, not stored ones. *)
Made(d, ops) == FoldLeft(Apply, d, ops)

(* A list of one. *)
LEMMA IntegrateOne ==
  ASSUME NEW d, NEW s, NEW n \in Nat, DOMAIN s = 1 .. n
  PROVE  n = 1 => IntegrateDoc(d, s) = Apply(d, s[1].op)
<1>1. PICK h : OneByOne(h, d, s, n)
  BY IntegrateSteps
<1>2. n = 1 => 1 \in 1 .. n /\ 1 - 1 = 0
  OBVIOUS
<1> QED BY <1>1, <1>2 DEF OneByOne

MadeOneByOne(h, d, ops, n) ==
  /\ h[0] = d /\ h[n] = Made(d, ops)
  /\ \A i \in 1 .. n : h[i] = Apply(h[i - 1], ops[i])

(* The whole history, one operation after the other. *)
LEMMA HistorySteps ==
  ASSUME NEW d, NEW s, NEW n \in Nat, DOMAIN s = 1 .. n
  PROVE  \E h : MadeOneByOne(h, d, s, n)
<1> DEFINE Rec(k, it) ==
             it = [t \in SUBSET (1 .. k) |->
                     IF t = {} THEN d ELSE Apply(it[t \ {Max(t)}], s[Max(t)])]
           total == Made(d, s)
           G == {k \in 0 .. n : \E it : Rec(k, it)}
<1>1. 0 \in G
  <2>1. Rec(0, [t \in SUBSET (1 .. 0) |-> d])
    OBVIOUS
  <2> QED BY <2>1
<1>2. ASSUME NEW k \in 1 .. n, k - 1 \in G PROVE k \in G
  <2>1. PICK it : Rec(k - 1, it)
    BY <1>2
  <2> DEFINE new == [t \in SUBSET (1 .. k) |->
                       IF k \in t THEN Apply(it[t \ {k}], s[k]) ELSE it[t]]
  <2>2. ASSUME NEW t \in SUBSET (1 .. k)
        PROVE  new[t] = IF t = {} THEN d ELSE Apply(new[t \ {Max(t)}], s[Max(t)])
    <3>1. CASE t = {}
      BY <2>1, <3>1
    <3>2. CASE k \in t
      <4>1. Max(t) = k /\ t \ {k} \in SUBSET (1 .. (k - 1))
        BY <3>2, MaxUpTo
      <4>2. t \ {k} \in SUBSET (1 .. k) /\ k \notin t \ {k}
        OBVIOUS
      <4> QED BY <3>2, <4>1, <4>2
    <3>3. CASE t # {} /\ k \notin t
      <4>1. t \in SUBSET (1 .. (k - 1)) /\ k - 1 \in Nat
        BY <3>3
      <4>2. Max(t) \in t /\ t \ {Max(t)} \in SUBSET (1 .. k)
        BY <3>3, MaxUpTo
      <4>3. it[t] = Apply(it[t \ {Max(t)}], s[Max(t)])
        BY <2>1, <3>3, <4>1
      <4>4. new[t] = it[t] /\ new[t \ {Max(t)}] = it[t \ {Max(t)}]
        BY <3>3, <4>2
      <4> QED BY <3>3, <4>3, <4>4
    <3> QED BY <3>1, <3>2, <3>3
  <2>3. Rec(k, new)
    BY <2>2
  <2> HIDE DEF new, Rec
  <2> QED BY <2>3
<1>3. n \in G
  <2> HIDE DEF G
  <2> QED BY <1>1, <1>2, Interval
<1>4. PICK it : Rec(n, it) /\ total = it[1 .. n]
  <2>1. total = (CHOOSE it : Rec(n, it))[1 .. n]
    BY DEF FoldLeft, MapThenFoldSet, Made
  <2>2. \E it : Rec(n, it)
    BY <1>3
  <2> HIDE DEF Rec, total
  <2> QED BY <2>1, <2>2
<1> DEFINE h == [i \in 0 .. n |-> it[1 .. i]]
<1> HIDE DEF total
<1>7. it[1 .. 0] = d
  <2>1. 1 .. 0 = {} /\ {} \in SUBSET (1 .. n)
    OBVIOUS
  <2> QED BY <1>4, <2>1
<1>5. h[0] = d /\ h[n] = total
  <2>1. total = it[1 .. n]
    BY <1>4
  <2> HIDE DEF Rec
  <2> QED BY <1>7, <2>1
<1>6. ASSUME NEW i \in 1 .. n PROVE h[i] = Apply(h[i - 1], s[i])
  <2>1. /\ i \in Nat /\ i \in 1 .. i /\ 1 .. i # {} /\ i - 1 \in 0 .. n
        /\ 1 .. i \in SUBSET (1 .. n) /\ 1 .. i \in SUBSET (1 .. i)
    OBVIOUS
  <2>2. (1 .. i) \ {i} = 1 .. (i - 1)
    <3>1. \A x \in 1 .. i : x # i => x \in 1 .. (i - 1)
      OBVIOUS
    <3>2. \A x \in 1 .. (i - 1) : x \in 1 .. i /\ x # i
      OBVIOUS
    <3> QED BY <3>1, <3>2
  <2>4. Max(1 .. i) = i
    <3> DEFINE t == 1 .. i
    <3> HIDE DEF t
    <3>1. Max(t) = i
      BY <2>1, MaxUpTo DEF t
    <3> QED BY <3>1 DEF t
  <2>3. it[1 .. i] = Apply(it[1 .. (i - 1)], s[i])
    BY <1>4, <2>1, <2>2, <2>4
  <2> QED BY <2>1, <2>3
<1> HIDE DEF h
<1>8. MadeOneByOne(h, d, s, n)
  BY <1>5, <1>6 DEF MadeOneByOne, total
<1> QED BY <1>8

(* An element more: at the end, if it is in the set. *)
Keep(kept, x, set) == IF x \in set THEN Append(kept, x) ELSE kept

(* Kept looks at one element after the other. *)
LEMMA KeptSteps ==
  ASSUME NEW set, NEW s, NEW n \in Nat, DOMAIN s = 1 .. n
  PROVE  \E h : /\ h[0] = <<>> /\ h[n] = Kept(s, set)
                /\ \A i \in 1 .. n : h[i] = Keep(h[i - 1], s[i], set)
<1> DEFINE Rec(k, it) ==
             it = [t \in SUBSET (1 .. k) |->
                     IF t = {} THEN <<>> ELSE Keep(it[t \ {Max(t)}], s[Max(t)], set)]
           G == {k \in 0 .. n : \E it : Rec(k, it)}
<1>1. 0 \in G
  <2>1. Rec(0, [t \in SUBSET (1 .. 0) |-> <<>>])
    OBVIOUS
  <2> QED BY <2>1
<1>2. ASSUME NEW k \in 1 .. n, k - 1 \in G PROVE k \in G
  <2>1. PICK it : Rec(k - 1, it)
    BY <1>2
  <2> DEFINE new == [t \in SUBSET (1 .. k) |->
                       IF k \in t THEN Keep(it[t \ {k}], s[k], set) ELSE it[t]]
  <2>2. ASSUME NEW t \in SUBSET (1 .. k)
        PROVE  new[t] = IF t = {} THEN <<>> ELSE Keep(new[t \ {Max(t)}], s[Max(t)], set)
    <3>1. CASE t = {}
      BY <2>1, <3>1
    <3>2. CASE k \in t
      <4>1. Max(t) = k /\ t \ {k} \in SUBSET (1 .. (k - 1))
        BY <3>2, MaxUpTo
      <4>2. t \ {k} \in SUBSET (1 .. k) /\ k \notin t \ {k}
        OBVIOUS
      <4> QED BY <3>2, <4>1, <4>2
    <3>3. CASE t # {} /\ k \notin t
      <4>1. t \in SUBSET (1 .. (k - 1)) /\ k - 1 \in Nat
        BY <3>3
      <4>2. Max(t) \in t /\ t \ {Max(t)} \in SUBSET (1 .. k)
        BY <3>3, MaxUpTo
      <4>3. it[t] = Keep(it[t \ {Max(t)}], s[Max(t)], set)
        BY <2>1, <3>3, <4>1
      <4>4. new[t] = it[t] /\ new[t \ {Max(t)}] = it[t \ {Max(t)}]
        BY <3>3, <4>2
      <4> QED BY <3>3, <4>3, <4>4
    <3> QED BY <3>1, <3>2, <3>3
  <2>3. Rec(k, new)
    BY <2>2
  <2> HIDE DEF new, Rec
  <2> QED BY <2>3
<1>3. n \in G
  <2> HIDE DEF G
  <2> QED BY <1>1, <1>2, Interval
<1>4. PICK it : Rec(n, it) /\ Kept(s, set) = it[1 .. n]
  <2>1. Kept(s, set) = (CHOOSE it : Rec(n, it))[1 .. n]
    BY DEF Kept, Keep, FoldLeft, MapThenFoldSet
  <2>2. \E it : Rec(n, it)
    BY <1>3
  <2> HIDE DEF Rec
  <2> QED BY <2>1, <2>2
<1> DEFINE h == [i \in 0 .. n |-> it[1 .. i]]
<1>5. h[0] = <<>> /\ h[n] = Kept(s, set)
  BY <1>4
<1>6. ASSUME NEW i \in 1 .. n PROVE h[i] = Keep(h[i - 1], s[i], set)
  <2>1. /\ i \in Nat /\ i \in 1 .. i /\ 1 .. i # {} /\ i - 1 \in 0 .. n
        /\ 1 .. i \in SUBSET (1 .. n) /\ 1 .. i \in SUBSET (1 .. i)
    OBVIOUS
  <2>2. (1 .. i) \ {i} = 1 .. (i - 1)
    <3>1. \A x \in 1 .. i : x # i => x \in 1 .. (i - 1)
      OBVIOUS
    <3>2. \A x \in 1 .. (i - 1) : x \in 1 .. i /\ x # i
      OBVIOUS
    <3> QED BY <3>1, <3>2
  <2>4. Max(1 .. i) = i
    <3> DEFINE t == 1 .. i
    <3> HIDE DEF t
    <3>1. Max(t) = i
      BY <2>1, MaxUpTo DEF t
    <3> QED BY <3>1 DEF t
  <2>3. it[1 .. i] = Keep(it[1 .. (i - 1)], s[i], set)
    BY <1>4, <2>1, <2>2, <2>4
  <2> QED BY <2>1, <2>3 
<1> HIDE DEF h
<1> QED BY <1>5, <1>6

(* What is on its way is received one message after the other. *)
LEMMA ReceivesSteps ==
  ASSUME NEW d, NEW s, NEW n \in Nat, DOMAIN s = 1 .. n
  PROVE  \E h : /\ h[0] = d /\ h[n] = Arrived(d, s)
                /\ \A i \in 1 .. n : h[i] = Receives(h[i - 1], s[i])
<1> DEFINE Rec(k, it) ==
             it = [t \in SUBSET (1 .. k) |->
                     IF t = {} THEN d ELSE Receives(it[t \ {Max(t)}], s[Max(t)])]
           G == {k \in 0 .. n : \E it : Rec(k, it)}
<1>1. 0 \in G
  <2>1. Rec(0, [t \in SUBSET (1 .. 0) |-> d])
    OBVIOUS
  <2> QED BY <2>1
<1>2. ASSUME NEW k \in 1 .. n, k - 1 \in G PROVE k \in G
  <2>1. PICK it : Rec(k - 1, it)
    BY <1>2
  <2> DEFINE new == [t \in SUBSET (1 .. k) |->
                       IF k \in t THEN Receives(it[t \ {k}], s[k]) ELSE it[t]]
  <2>2. ASSUME NEW t \in SUBSET (1 .. k)
        PROVE  new[t] = IF t = {} THEN d ELSE Receives(new[t \ {Max(t)}], s[Max(t)])
    <3>1. CASE t = {}
      BY <2>1, <3>1
    <3>2. CASE k \in t
      <4>1. Max(t) = k /\ t \ {k} \in SUBSET (1 .. (k - 1))
        BY <3>2, MaxUpTo
      <4>2. t \ {k} \in SUBSET (1 .. k) /\ k \notin t \ {k}
        OBVIOUS
      <4> QED BY <3>2, <4>1, <4>2
    <3>3. CASE t # {} /\ k \notin t
      <4>1. t \in SUBSET (1 .. (k - 1)) /\ k - 1 \in Nat
        BY <3>3
      <4>2. Max(t) \in t /\ t \ {Max(t)} \in SUBSET (1 .. k)
        BY <3>3, MaxUpTo
      <4>3. it[t] = Receives(it[t \ {Max(t)}], s[Max(t)])
        BY <2>1, <3>3, <4>1
      <4>4. new[t] = it[t] /\ new[t \ {Max(t)}] = it[t \ {Max(t)}]
        BY <3>3, <4>2
      <4> QED BY <3>3, <4>3, <4>4
    <3> QED BY <3>1, <3>2, <3>3
  <2>3. Rec(k, new)
    BY <2>2
  <2> HIDE DEF new, Rec
  <2> QED BY <2>3
<1>3. n \in G
  <2> HIDE DEF G
  <2> QED BY <1>1, <1>2, Interval
<1>4. PICK it : Rec(n, it) /\ Arrived(d, s) = it[1 .. n]
  <2>1. Arrived(d, s) = (CHOOSE it : Rec(n, it))[1 .. n]
    BY DEF Arrived, FoldLeft, MapThenFoldSet
  <2>2. \E it : Rec(n, it)
    BY <1>3
  <2> HIDE DEF Rec
  <2> QED BY <2>1, <2>2
<1> DEFINE h == [i \in 0 .. n |-> it[1 .. i]]
<1>5. h[0] = d /\ h[n] = Arrived(d, s)
  BY <1>4
<1>6. ASSUME NEW i \in 1 .. n PROVE h[i] = Receives(h[i - 1], s[i])
  <2>1. /\ i \in Nat /\ i \in 1 .. i /\ 1 .. i # {} /\ i - 1 \in 0 .. n
        /\ 1 .. i \in SUBSET (1 .. n) /\ 1 .. i \in SUBSET (1 .. i)
    OBVIOUS
  <2>2. (1 .. i) \ {i} = 1 .. (i - 1)
    <3>1. \A x \in 1 .. i : x # i => x \in 1 .. (i - 1)
      OBVIOUS
    <3>2. \A x \in 1 .. (i - 1) : x \in 1 .. i /\ x # i
      OBVIOUS
    <3> QED BY <3>1, <3>2
  <2>4. Max(1 .. i) = i
    <3> DEFINE t == 1 .. i
    <3> HIDE DEF t
    <3>1. Max(t) = i
      BY <2>1, MaxUpTo DEF t
    <3> QED BY <3>1 DEF t
  <2>3. it[1 .. i] = Receives(it[1 .. (i - 1)], s[i])
    BY <1>4, <2>1, <2>2, <2>4
  <2> QED BY <2>1, <2>3
<1> HIDE DEF h
<1> QED BY <1>5, <1>6

(* Kept has the elements of the list that are in the set. *)
LEMMA KeptElements ==
  ASSUME NEW T, NEW s \in Seq(T), NEW set
  PROVE  Kept(s, set) \in Seq(T) /\ ToSet(Kept(s, set)) = ToSet(s) \cap set
<1> DEFINE n == Len(s)
<1>1. n \in Nat /\ DOMAIN s = 1 .. n /\ \A i \in 1 .. n : s[i] \in T
  BY LenProperties, ElementOfSeq
<1> HIDE DEF n
<1>2. PICK h : /\ h[0] = <<>> /\ h[n] = Kept(s, set)
               /\ \A i \in 1 .. n : h[i] = Keep(h[i - 1], s[i], set)
  BY <1>1, KeptSteps
<1> DEFINE G == {i \in 0 .. n : h[i] \in Seq(T) /\ ToSet(h[i]) = {s[j] : j \in 1 .. i} \cap set}
<1>3. 0 \in G
  <2>1. <<>> \in Seq(T) /\ ToSet(<<>>) = {}
    BY EmptySeq DEF ToSet
  <2>2. {s[j] : j \in 1 .. 0} \cap set = {}
    OBVIOUS
  <2>3. h[0] \in Seq(T) /\ ToSet(h[0]) = {s[j] : j \in 1 .. 0} \cap set /\ 0 \in 0 .. n
    BY <1>1, <1>2, <2>1, <2>2
  <2> QED BY <2>3
<1>4. ASSUME NEW i \in 1 .. n, i - 1 \in G PROVE i \in G
  <2>1. /\ h[i - 1] \in Seq(T) /\ ToSet(h[i - 1]) = {s[j] : j \in 1 .. (i - 1)} \cap set
        /\ s[i] \in T /\ h[i] = Keep(h[i - 1], s[i], set) /\ i \in 0 .. n
    BY <1>1, <1>2, <1>4
  <2>2. {s[j] : j \in 1 .. i} = {s[j] : j \in 1 .. (i - 1)} \cup {s[i]}
    <3>1. \A j \in 1 .. i : j \in 1 .. (i - 1) \/ j = i
      BY <1>1
    <3>2. i \in 1 .. i /\ \A j \in 1 .. (i - 1) : j \in 1 .. i
      BY <1>1
    <3> QED BY <3>1, <3>2
  <2>3. CASE s[i] \in set
    <3>1. h[i] = Append(h[i - 1], s[i])
      BY <2>1, <2>3 DEF Keep
    <3>2. h[i] \in Seq(T) /\ ToSet(h[i]) = ToSet(h[i - 1]) \cup {s[i]}
      BY <2>1, <3>1, AppendElements
    <3> QED BY <2>1, <2>2, <2>3, <3>2
  <2>4. CASE s[i] \notin set
    <3>1. h[i] = h[i - 1]
      BY <2>1, <2>4 DEF Keep
    <3> QED BY <2>1, <2>2, <2>4, <3>1
  <2> QED BY <2>3, <2>4
<1>5. n \in G
  <2> HIDE DEF G
  <2>1. \A i \in 0 .. n : i \in G
    BY <1>1, <1>3, <1>4, Interval
  <2> QED BY <1>1, <2>1
<1>6. ToSet(s) = {s[j] : j \in 1 .. n}
  BY <1>1 DEF ToSet
<1> QED BY <1>2, <1>5, <1>6

(* Of consecutive operations, those above a number are the rest. *)
LEMMA RestOfNumbered ==
  ASSUME NEW T, NEW ops \in Seq(T), NEW cut, NEW a \in 0 .. Len(ops),
         \A i \in 1 .. Len(ops) : ops[i].seq > cut <=> i > a
  PROVE  LET rest == NumberedAbove(ops, cut) IN
         /\ rest \in Seq(T) /\ Len(rest) = Len(ops) - a
         /\ \A k \in 1 .. (Len(ops) - a) : rest[k] = ops[a + k]
<1> DEFINE n   == Len(ops)
           set == {o \in Range(ops) : o.seq > cut}
<1>1. n \in Nat /\ DOMAIN ops = 1 .. n /\ \A i \in 1 .. n : ops[i] \in T
  BY LenProperties, ElementOfSeq
<1>2. \A i \in 1 .. n : ops[i] \in set <=> i > a
  BY <1>1 DEF Range
<1> HIDE DEF n, set
<1>3. PICK h : /\ h[0] = <<>> /\ h[n] = Kept(ops, set)
               /\ \A i \in 1 .. n : h[i] = Keep(h[i - 1], ops[i], set)
  BY <1>1, KeptSteps
<1> DEFINE G == {i \in 0 .. n : /\ h[i] \in Seq(T) /\ Len(h[i]) = IF i <= a THEN 0 ELSE i - a
                                /\ \A k \in 1 .. Len(h[i]) : h[i][k] = ops[a + k]}
<1>4. a \in 0 .. n
  BY DEF n
<1>5. 0 \in G
  <2>1. h[0] \in Seq(T) /\ Len(h[0]) = 0
    BY <1>3, EmptySeq
  <2>2. 0 \in 0 .. n /\ 0 <= a /\ \A k \in 1 .. Len(h[0]) : h[0][k] = ops[a + k]
    BY <1>1, <1>4, <2>1
  <2> QED BY <2>1, <2>2
<1>6. ASSUME NEW i \in 1 .. n, i - 1 \in G PROVE i \in G
  <2> DEFINE g == h[i - 1]
  <2>1. /\ g \in Seq(T) /\ Len(g) = IF i - 1 <= a THEN 0 ELSE i - 1 - a
        /\ \A k \in 1 .. Len(g) : g[k] = ops[a + k]
        /\ ops[i] \in T /\ h[i] = Keep(g, ops[i], set) /\ i \in 0 .. n
    BY <1>1, <1>3, <1>6
  <2> HIDE DEF g
  <2>2. CASE i > a
    <3>1. h[i] = Append(g, ops[i])
      BY <1>2, <2>1, <2>2 DEF Keep
    <3>2. Len(g) = i - 1 - a
      BY <1>4, <2>1, <2>2
    <3>3. /\ h[i] \in Seq(T) /\ Len(h[i]) = i - a
          /\ \A k \in 1 .. (i - 1 - a) : h[i][k] = g[k] /\ h[i][i - a] = ops[i]
      BY <1>4, <2>1, <2>2, <3>1, <3>2, AppendProperties
    <3>4. \A k \in 1 .. (i - a) : h[i][k] = ops[a + k]
      <4> TAKE k \in 1 .. (i - a)
      <4>1. CASE k = i - a
        <5>1. a + k = i /\ h[i][i - a] = ops[i]
          BY <1>4, <2>1, <2>2, <3>1, <3>2, <4>1, AppendProperties
        <5> QED BY <4>1, <5>1
      <4>2. CASE k # i - a
        <5>1. k \in 1 .. (i - 1 - a)
          BY <1>4, <2>2, <4>2
        <5> QED BY <2>1, <3>2, <3>3, <5>1
      <4> QED BY <4>1, <4>2
    <3>5. Len(h[i]) = IF i <= a THEN 0 ELSE i - a
      BY <1>4, <2>2, <3>3
    <3>6. \A k \in 1 .. Len(h[i]) : h[i][k] = ops[a + k]
      BY <3>3, <3>4
    <3> QED BY <2>1, <3>3, <3>5, <3>6
  <2>3. CASE ~ (i > a)
    <3>1. h[i] = g
      BY <1>2, <2>1, <2>3 DEF Keep
    <3>2. Len(g) = 0 /\ i <= a
      BY <1>4, <2>1, <2>3
    <3> QED BY <2>1, <3>1, <3>2
  <2> QED BY <2>2, <2>3
<1>7. n \in G
  <2> HIDE DEF G
  <2>1. \A i \in 0 .. n : i \in G
    BY <1>1, <1>5, <1>6, Interval
  <2> QED BY <1>1, <2>1
<1>8. h[n] = NumberedAbove(ops, cut)
  BY <1>3 DEF NumberedAbove, set
<1>9. Len(h[n]) = n - a
  <2>1. Len(h[n]) = IF n <= a THEN 0 ELSE n - a
    BY <1>7
  <2> DEFINE l == Len(h[n])
  <2>2. l = IF n <= a THEN 0 ELSE n - a
    BY <2>1
  <2> HIDE DEF l
  <2>3. l = n - a
    BY <1>1, <1>4, <2>2
  <2> QED BY <2>3 DEF l
<1>10. /\ h[n] \in Seq(T) /\ Len(h[n]) = n - a
       /\ \A k \in 1 .. (n - a) : h[n][k] = ops[a + k]
  <2>1. h[n] \in Seq(T) /\ \A k \in 1 .. Len(h[n]) : h[n][k] = ops[a + k]
    BY <1>7
  <2> QED BY <1>9, <2>1
<1> HIDE DEF G
<1> QED BY <1>8, <1>10 DEF n

-----------------------------------------------------------------------------
(* Documents *)

(* integrate: the document of what was there and of what has come. *)
LEMMA IntegrateSound ==
  ASSUME NEW ops \in SUBSET Op, NEW d, Sound(d, ops), NEW n \in Nat, NEW entries,
         DOMAIN entries = 1 .. n, \A i \in 1 .. n : entries[i].op \in Op,
         UniqueIds(ops \cup OpsOf(entries))
  PROVE  /\ OpsOf(entries) \subseteq Op
         /\ Sound(IntegrateDoc(d, entries), ops \cup OpsOf(entries))
         /\ IntegrateDoc(d, entries).counter >= d.counter
<1>1. n \in Nat /\ DOMAIN entries = 1 .. n /\ \A i \in 1 .. n : entries[i].op \in Op
  OBVIOUS
<1>2. PICK h : /\ h[0] = d /\ h[n] = IntegrateDoc(d, entries)
               /\ \A i \in 1 .. n : h[i] = Apply(h[i - 1], entries[i].op)
  <2>1. PICK h : OneByOne(h, d, entries, n)
    BY IntegrateSteps
  <2> QED BY <2>1 DEF OneByOne
<1> DEFINE First(i) == {entries[j].op : j \in 1 .. i}
           G == {i \in 0 .. n : Sound(h[i], ops \cup First(i)) /\ h[i].counter >= d.counter}
<1>3. d.counter \in Nat
  BY DEF Sound, IsDoc
<1>4. 0 \in G
  <2>1. First(0) = {} /\ ops \cup {} = ops
    OBVIOUS
  <2>2. Sound(h[0], ops \cup First(0)) /\ h[0].counter >= d.counter /\ 0 \in 0 .. n
    <3> HIDE DEF First
    <3>1. ops \cup First(0) = ops /\ h[0] = d
      BY <1>2, <2>1
    <3>2. Sound(h[0], ops \cup First(0))
      BY <3>1
    <3>3. h[0].counter >= d.counter
      BY <1>3, <3>1
    <3>4. 0 \in 0 .. n
      BY <1>1
    <3> QED BY <3>2, <3>3, <3>4
  <2> HIDE DEF First
  <2> QED BY <2>2
<1>5. ASSUME NEW i \in 1 .. n, i - 1 \in G PROVE i \in G
  <2>1. First(i) = First(i - 1) \cup {entries[i].op}
    <3>1. \A j \in 1 .. i : j \in 1 .. (i - 1) \/ j = i
      BY <1>1
    <3>2. i \in 1 .. i /\ \A j \in 1 .. (i - 1) : j \in 1 .. i
      BY <1>1
    <3> QED BY <3>1, <3>2
  <2>2. First(i - 1) \in SUBSET Op /\ First(i) \subseteq OpsOf(entries)
    BY <1>1 DEF OpsOf
  <2> HIDE DEF First
  <2>3. Sound(h[i - 1], ops \cup First(i - 1)) /\ h[i - 1].counter >= d.counter
    BY <1>5
  <2>4. UniqueIds((ops \cup First(i - 1)) \cup {entries[i].op})
    BY <2>1, <2>2, SubsetUnique
  <2>5. /\ Sound(Apply(h[i - 1], entries[i].op), (ops \cup First(i - 1)) \cup {entries[i].op})
        /\ Apply(h[i - 1], entries[i].op).counter >= h[i - 1].counter
    BY <1>1, <2>2, <2>3, <2>4, ApplySound
  <2>6. (ops \cup First(i - 1)) \cup {entries[i].op} = ops \cup First(i)
    BY <2>1
  <2>7. Sound(h[i], ops \cup First(i)) /\ h[i].counter >= h[i - 1].counter
    BY <1>2, <2>5, <2>6
  <2>8. h[i].counter \in Nat /\ h[i - 1].counter \in Nat
    BY <2>3, <2>7 DEF Sound, IsDoc
  <2>9. h[i].counter >= d.counter /\ i \in 0 .. n
    BY <1>1, <1>3, <2>3, <2>7, <2>8
  <2> QED BY <2>7, <2>9
<1>6. n \in G
  <2> HIDE DEF G
  <2>1. \A i \in 0 .. n : i \in G
    BY <1>1, <1>4, <1>5, Interval
  <2> QED BY <1>1, <2>1
<1>7. First(n) = OpsOf(entries) /\ OpsOf(entries) \subseteq Op
  BY <1>1 DEF OpsOf
<1> HIDE DEF First
<1> QED BY <1>2, <1>6, <1>7

(* A snapshot stands for operations. *)
LEMMA SnapshotOpsAreOps == \A s \in Seq(Node) : SnapshotOps(s) \subseteq Op
<1> SUFFICES ASSUME NEW s \in Seq(Node) PROVE SnapshotOps(s) \subseteq Op
  OBVIOUS
<1>1. \A n \in Range(s) : n \in Node
  BY LenProperties, ElementOfSeq DEF Range
<1>2. \A n \in Range(s) : NodeInsert(n) \in Op /\ DeleteOf(n.id) \in Op
  BY <1>1, NodeOpsAreOps
<1> QED BY <1>2 DEF SnapshotOps, NodeInsert

(* A message that has come: the document of what it carries besides. *)
LEMMA ReceivesSound ==
  ASSUME NEW ops \in SUBSET Op, NEW d, Sound(d, ops), NEW msg \in ServerMsg,
         UniqueIds(ops \cup Carried(msg))
  PROVE  /\ Carried(msg) \subseteq Op
         /\ Sound(Receives(d, msg), ops \cup Carried(msg))
         /\ Receives(d, msg).counter >= d.counter
<1>1. CASE msg.type = "welcome"
  <2> DEFINE entries == msg.ops
             nodes   == msg.snapshot.nodes
             folded  == SnapshotOps(nodes)
             e       == MergeSnapshot(d, nodes)
  <2>1. entries \in Seq(Entry) /\ nodes \in Seq(Node)
    BY <1>1 DEF ServerMsg, Snap
  <2>2. Receives(d, msg) = IntegrateDoc(e, entries) /\ Carried(msg) = folded \cup OpsOf(entries)
    BY <1>1 DEF Receives, Carried
  <2>3. /\ Len(entries) \in Nat /\ DOMAIN entries = 1 .. Len(entries)
        /\ \A i \in 1 .. Len(entries) : entries[i].op \in Op
    <3> HIDE DEF entries
    <3>1. \A x \in Entry : x.op \in Op
      BY DEF Entry
    <3> QED BY <2>1, <3>1, LenProperties, ElementOfSeq
  <2> DEFINE n == Len(entries)
  <2>4. /\ n \in Nat /\ DOMAIN entries = 1 .. n /\ (\A i \in 1 .. n : entries[i].op \in Op)
        /\ UniqueIds(ops \cup (folded \cup OpsOf(entries)))
    BY <2>2, <2>3
  <2> HIDE DEF n, entries, nodes
  <2>5. folded \subseteq Op
    BY <2>1, SnapshotOpsAreOps
  <2>6. Sound(e, ops \cup folded) /\ e.counter >= d.counter
    <3>1. UniqueIds(ops \cup folded)
      BY <2>4, SubsetUnique
    <3> QED BY <2>1, <3>1, MergeSound
  <2> HIDE DEF folded, e
  <2>7. (ops \cup folded) \cup OpsOf(entries) = ops \cup (folded \cup OpsOf(entries))
    OBVIOUS
  <2>8. ops \cup folded \in SUBSET Op
    BY <2>5
  <2>9. /\ OpsOf(entries) \subseteq Op
        /\ Sound(IntegrateDoc(e, entries), (ops \cup folded) \cup OpsOf(entries))
        /\ IntegrateDoc(e, entries).counter >= e.counter
    BY <2>4, <2>6, <2>7, <2>8, IntegrateSound
  <2>10. d.counter \in Nat /\ e.counter \in Nat /\ IntegrateDoc(e, entries).counter \in Nat
    BY <2>6, <2>9 DEF Sound, IsDoc
  <2> QED BY <2>2, <2>5, <2>6, <2>7, <2>9, <2>10
<1>2. CASE msg.type # "welcome"
  <2>1. msg.op \in Op
    BY <1>2 DEF ServerMsg
  <2>2. Receives(d, msg) = Apply(d, msg.op) /\ Carried(msg) = {msg.op}
    BY <1>2 DEF Receives, Carried
  <2> QED BY <2>1, <2>2, ApplySound
<1> QED BY <1>1, <1>2

(* When everything on its way has come. *)
LEMMA ArrivedSound ==
  ASSUME NEW ops \in SUBSET Op, NEW d, Sound(d, ops), NEW msgs \in Seq(ServerMsg),
         UniqueIds(ops \cup UNION {Carried(msgs[i]) : i \in DOMAIN msgs})
  PROVE  Sound(Arrived(d, msgs), ops \cup UNION {Carried(msgs[i]) : i \in DOMAIN msgs})
<1> DEFINE n == Len(msgs)
           all == UNION {Carried(msgs[i]) : i \in DOMAIN msgs}
<1>1. n \in Nat /\ DOMAIN msgs = 1 .. n /\ \A i \in 1 .. n : msgs[i] \in ServerMsg
  BY LenProperties, ElementOfSeq
<1>2. UniqueIds(ops \cup all)
  OBVIOUS
<1> HIDE DEF n, all
<1>3. PICK h : /\ h[0] = d /\ h[n] = Arrived(d, msgs)
               /\ \A i \in 1 .. n : h[i] = Receives(h[i - 1], msgs[i])
  <2>1. n \in Nat /\ DOMAIN msgs = 1 .. n
    BY <1>1
  <2> QED BY <2>1, ReceivesSteps
<1> DEFINE First(i) == UNION {Carried(msgs[j]) : j \in 1 .. i}
           G == {i \in 0 .. n : Sound(h[i], ops \cup First(i)) /\ First(i) \subseteq Op}
<1>4. 0 \in G
  <2>1. First(0) = {} /\ ops \cup {} = ops
    OBVIOUS
  <2>2. Sound(h[0], ops \cup First(0)) /\ First(0) \subseteq Op /\ 0 \in 0 .. n
    <3> HIDE DEF First
    <3>1. ops \cup First(0) = ops /\ h[0] = d
      BY <1>3, <2>1
    <3>2. Sound(h[0], ops \cup First(0))
      BY <3>1
    <3>3. First(0) \subseteq Op
      BY <2>1
    <3>4. 0 \in 0 .. n
      BY <1>1
    <3> QED BY <3>2, <3>3, <3>4
  <2> HIDE DEF First
  <2> QED BY <2>2
<1>5. ASSUME NEW i \in 1 .. n, i - 1 \in G PROVE i \in G
  <2>1. First(i) = First(i - 1) \cup Carried(msgs[i])
    <3>1. \A j \in 1 .. i : j \in 1 .. (i - 1) \/ j = i
      BY <1>1
    <3>2. i \in 1 .. i /\ \A j \in 1 .. (i - 1) : j \in 1 .. i
      BY <1>1
    <3> QED BY <3>1, <3>2
  <2>2. First(i) \subseteq all
    BY <1>1 DEF all
  <2> HIDE DEF First
  <2>3. Sound(h[i - 1], ops \cup First(i - 1)) /\ First(i - 1) \subseteq Op
    BY <1>5
  <2>4. UniqueIds((ops \cup First(i - 1)) \cup Carried(msgs[i]))
    <3>1. (ops \cup First(i - 1)) \cup Carried(msgs[i]) \subseteq ops \cup all
      BY <2>1, <2>2
    <3> QED BY <1>2, <3>1, SubsetUnique
  <2>5. ops \cup First(i - 1) \in SUBSET Op /\ msgs[i] \in ServerMsg
    BY <1>1, <2>3
  <2>6. /\ Carried(msgs[i]) \subseteq Op
        /\ Sound(Receives(h[i - 1], msgs[i]), (ops \cup First(i - 1)) \cup Carried(msgs[i]))
    BY <2>3, <2>4, <2>5, ReceivesSound
  <2>7. (ops \cup First(i - 1)) \cup Carried(msgs[i]) = ops \cup First(i)
    BY <2>1
  <2>8. Sound(h[i], ops \cup First(i))
    BY <1>3, <2>6, <2>7
  <2>9. First(i) \subseteq Op /\ i \in 0 .. n
    BY <1>1, <2>1, <2>3, <2>6
  <2> QED BY <2>8, <2>9
<1>6. n \in G
  <2> HIDE DEF G
  <2>1. \A i \in 0 .. n : i \in G
    BY <1>1, <1>4, <1>5, Interval
  <2> QED BY <1>1, <2>1
<1>7. First(n) = all
  BY <1>1 DEF all
<1> HIDE DEF First
<1>8. Sound(Arrived(d, msgs), ops \cup all)
  BY <1>3, <1>6, <1>7
<1> QED BY <1>8 DEF all
-----------------------------------------------------------------------------
(* The outbox and the head *)

(* A set key keeps the other entries. *)
LEMMA PutElements ==
  ASSUME NEW box \in Seq(Op), NEW op \in Op
  PROVE  /\ Put(box, op) \in Seq(Op)
         /\ ToSet(Put(box, op)) \subseteq ToSet(box) \cup {op}
         /\ op \in ToSet(Put(box, op))
         /\ \A x \in ToSet(box) : x.id # op.id => x \in ToSet(Put(box, op))
<1>1. CASE \E i \in DOMAIN box : box[i].id = op.id
  <2> DEFINE new == [i \in DOMAIN box |-> IF box[i].id = op.id THEN op ELSE box[i]]
  <2>1. Put(box, op) = new
    BY <1>1 DEF Put
  <2>2. DOMAIN box = 1 .. Len(box) /\ Len(box) \in Nat /\ \A i \in 1 .. Len(box) : box[i] \in Op
    BY LenProperties, ElementOfSeq
  <2>3. new \in Seq(Op)
    BY <2>2, IsASeq
  <2>4. DOMAIN new = DOMAIN box /\ \A i \in DOMAIN box : new[i] = IF box[i].id = op.id THEN op ELSE box[i]
    OBVIOUS
  <2> HIDE DEF new
  <2>5. ToSet(new) \subseteq ToSet(box) \cup {op}
    BY <2>4 DEF ToSet
  <2>6. op \in ToSet(new)
    BY <1>1, <2>4 DEF ToSet
  <2>7. \A x \in ToSet(box) : x.id # op.id => x \in ToSet(new)
    BY <2>4 DEF ToSet
  <2> QED BY <2>1, <2>3, <2>5, <2>6, <2>7
<1>2. CASE ~ \E i \in DOMAIN box : box[i].id = op.id
  <2>1. Put(box, op) = Append(box, op)
    BY <1>2 DEF Put
  <2> QED BY <2>1, AppendElements
<1> QED BY <1>1, <1>2

(* What has come in leaves the outbox, and nothing else does. *)
LEMMA IntegrateOutboxElements ==
  ASSUME NEW box \in Seq(Op), NEW entries
  PROVE  /\ IntegrateOutbox(box, entries) \in Seq(Op)
         /\ \A op : op \in ToSet(IntegrateOutbox(box, entries))
                   <=> /\ op \in ToSet(box)
                       /\ \A i \in DOMAIN entries : entries[i].op.id # op.id
<1> DEFINE set == {op \in Range(box) : \A i \in DOMAIN entries : entries[i].op.id # op.id}
<1>1. IntegrateOutbox(box, entries) = Kept(box, set)
  BY DEF IntegrateOutbox
<1>2. ToSet(box) = Range(box)
  BY DEF ToSet, Range
<1>3. \A op : op \in ToSet(box) \cap set
            <=> op \in ToSet(box) /\ \A i \in DOMAIN entries : entries[i].op.id # op.id
  BY <1>2
<1> HIDE DEF set
<1> QED BY <1>1, <1>3, KeptElements

(* The head is the latest number it was or has seen. *)
LEMMA HighestBounds ==
  ASSUME NEW h \in Nat, NEW n \in Nat, NEW entries, DOMAIN entries = 1 .. n,
         NEW to \in Nat, h <= to, \A k \in 1 .. n : entries[k].seq \in 0 .. to
  PROVE  /\ Highest(h, entries) \in h .. to
         /\ \A k \in 1 .. n : entries[k].seq <= Highest(h, entries)
<1> DEFINE set == {h} \cup {entries[i].seq : i \in DOMAIN entries}
<1>1. \A x \in set : x \in Nat /\ x <= to
  OBVIOUS
<1>2. h \in set /\ \A k \in 1 .. n : entries[k].seq \in set
  OBVIOUS
<1>3. Highest(h, entries) = Max(set)
  BY DEF Highest
<1> HIDE DEF set
<1>4. set \in SUBSET Nat /\ set # {}
  BY <1>1, <1>2
<1>5. Max(set) \in set /\ \A x \in set : x <= Max(set)
  BY <1>1, <1>4, MaxIsGreatest
<1>6. PICK m : m = Max(set)
  OBVIOUS
<1>7. m \in Nat /\ m <= to /\ h <= m /\ \A k \in 1 .. n : entries[k].seq <= m
  BY <1>1, <1>2, <1>5, <1>6
<1> QED BY <1>3, <1>6, <1>7

(* The number of every entry is seen. *)
LEMMA HighestIsNatural ==
  ASSUME NEW h \in Nat, NEW entries \in Seq(Entry)
  PROVE  Highest(h, entries) \in Nat
<1> DEFINE n == Len(entries)
           seqs == {entries[k].seq : k \in 1 .. n} \cup {h}
<1>1. n \in Nat /\ DOMAIN entries = 1 .. n /\ \A k \in 1 .. n : entries[k].seq \in Nat
  <2>1. \A x \in Entry : x.seq \in Nat
    BY DEF Entry
  <2> QED BY <2>1, LenProperties, ElementOfSeq
<1> HIDE DEF n
<1> DEFINE G == {i \in 0 .. n : \E to \in Nat : h <= to /\ \A k \in 1 .. i : entries[k].seq <= to}
<1>2. 0 \in G
  BY <1>1
<1>3. ASSUME NEW i \in 1 .. n, i - 1 \in G PROVE i \in G
  <2>1. PICK to \in Nat : h <= to /\ \A k \in 1 .. (i - 1) : entries[k].seq <= to
    BY <1>3
  <2> DEFINE more == IF entries[i].seq > to THEN entries[i].seq ELSE to
  <2>2. more \in Nat /\ to <= more /\ entries[i].seq <= more
    BY <1>1
  <2> HIDE DEF more
  <2>3. h <= more /\ \A k \in 1 .. i : entries[k].seq <= more
    <3>1. \A k \in 1 .. i : k = i \/ k \in 1 .. (i - 1)
      BY <1>1
    <3>2. \A k \in 1 .. (i - 1) : k \in 1 .. n
      BY <1>1
    <3> QED BY <1>1, <2>1, <2>2, <3>1, <3>2
  <2> QED BY <1>1, <2>2, <2>3
<1>4. n \in G
  <2> HIDE DEF G
  <2>1. \A i \in 0 .. n : i \in G
    BY <1>1, <1>2, <1>3, Interval
  <2> QED BY <1>1, <2>1
<1>5. PICK to \in Nat : h <= to /\ \A k \in 1 .. n : entries[k].seq <= to
  BY <1>4
<1>6. Highest(h, entries) \in h .. to
  <2>1. \A k \in 1 .. n : entries[k].seq \in 0 .. to
    BY <1>1, <1>5
  <2> QED BY <1>1, <1>5, <2>1, HighestBounds
<1> QED BY <1>6

-----------------------------------------------------------------------------
(* The socket as the rest of the log *)

(* The operations of the first n places of a log, and the entries above v. *)
UpTo(log, n) == {log[s] : s \in 1 .. n}

Above(log, v) == [i \in 1 .. Len(log) - v |-> StoredOp(v + i, log[v + i])]

(* A message takes a room from one place in the log to a later one: it     *)
(* carries at least what is between, and nothing from after it.            *)
Brings(from, msg, to, log) ==
  IF msg.type = "welcome"
  THEN /\ msg.head = to /\ from <= to
       /\ \E v \in from .. to :
            /\ to = v + Len(msg.ops)
            /\ \A k \in 1 .. Len(msg.ops) : msg.ops[k] = StoredOp(v + k, log[v + k])
            /\ SnapshotOps(msg.snapshot.nodes) \subseteq UpTo(log, v)
            /\ \A s \in (from + 1) .. v : log[s] \in SnapshotOps(msg.snapshot.nodes)
  ELSE to = from + 1 /\ msg.type = "stored" /\ msg.seq = to /\ msg.op = log[to]

(* Messages take it from one place to the end of the log. *)
Continues(from, msgs, log) ==
  \E at \in [0 .. Len(msgs) -> 0 .. Len(log)] :
    /\ at[0] = from /\ at[Len(msgs)] = Len(log)
    /\ \A i \in 1 .. Len(msgs) : Brings(at[i - 1], msgs[i], at[i], log)

(* The log: its places are its operations. *)
LEMMA LogPlaces ==
  ASSUME NEW log \in Seq(Op)
  PROVE  /\ Len(log) \in Nat /\ DOMAIN log = 1 .. Len(log)
         /\ \A s \in 1 .. Len(log) : log[s] \in Op
         /\ UpTo(log, Len(log)) = ToSet(log)
         /\ \A n \in 0 .. Len(log) : UpTo(log, n) \subseteq ToSet(log)
<1>1. Len(log) \in Nat /\ DOMAIN log = 1 .. Len(log) /\ \A s \in 1 .. Len(log) : log[s] \in Op
  BY LenProperties, ElementOfSeq
<1>2. UpTo(log, Len(log)) = ToSet(log)
  BY <1>1 DEF UpTo, ToSet
<1>3. ASSUME NEW n \in 0 .. Len(log) PROVE UpTo(log, n) \subseteq ToSet(log)
  <2>1. \A s \in 1 .. n : s \in 1 .. Len(log)
    BY <1>1
  <2> QED BY <1>1, <2>1 DEF UpTo, ToSet
<1> QED BY <1>1, <1>2, <1>3

(* More of the log. *)
LEMMA UpToMore ==
  ASSUME NEW log, NEW n \in Nat, NEW m \in Nat, n <= m
  PROVE  /\ UpTo(log, n) \subseteq UpTo(log, m)
         /\ \A s \in 1 .. n : log[s] \in UpTo(log, n)
         /\ UpTo(log, m) = UpTo(log, n) \cup {log[s] : s \in (n + 1) .. m}
<1>1. \A s \in 1 .. n : s \in 1 .. m
  OBVIOUS
<1>2. \A s \in 1 .. m : s \in 1 .. n \/ s \in (n + 1) .. m
  OBVIOUS
<1>3. \A s \in (n + 1) .. m : s \in 1 .. m
  OBVIOUS
<1> QED BY <1>1, <1>2, <1>3 DEF UpTo

(* A longer log begins like the old one. *)
LEMMA UpToAppend ==
  ASSUME NEW log \in Seq(Op), NEW op \in Op, NEW n \in 0 .. Len(log)
  PROVE  UpTo(Append(log, op), n) = UpTo(log, n)
<1>1. Len(log) \in Nat /\ DOMAIN log = 1 .. Len(log)
  BY LenProperties
<1>2. \A s \in 1 .. n : s \in DOMAIN log
  BY <1>1
<1>3. \A s \in 1 .. n : Append(log, op)[s] = log[s]
  BY <1>2, AppendElements
<1> QED BY <1>3 DEF UpTo

(* The parts of an entry. *)
LEMMA StoredOpFields == \A n, op : StoredOp(n, op).seq = n /\ StoredOp(n, op).op = op
BY DEF StoredOp

(* What is above a place of the log. *)
LEMMA AboveEntries ==
  ASSUME NEW log \in Seq(Op), NEW v \in 0 .. Len(log)
  PROVE  /\ Above(log, v) \in Seq(Entry) /\ Len(Above(log, v)) = Len(log) - v
         /\ DOMAIN Above(log, v) = 1 .. (Len(log) - v) /\ Len(log) - v \in Nat
         /\ \A i \in 1 .. (Len(log) - v) :
              /\ v + i \in 1 .. Len(log)
              /\ Above(log, v)[i] = StoredOp(v + i, log[v + i])
              /\ Above(log, v)[i].seq = v + i /\ Above(log, v)[i].op = log[v + i]
         /\ OpsOf(Above(log, v)) = {log[s] : s \in (v + 1) .. Len(log)}
<1> DEFINE n == Len(log)
           l == n - v
           e == Above(log, v)
<1>1. n \in Nat /\ DOMAIN log = 1 .. n /\ \A s \in 1 .. n : log[s] \in Op
  BY LogPlaces
<1>2. v \in 0 .. n /\ e = [i \in 1 .. l |-> StoredOp(v + i, log[v + i])]
  BY DEF Above
<1> HIDE DEF n, e
<1>3. l \in Nat
  BY <1>1, <1>2
<1>4. \A i \in 1 .. l : v + i \in 1 .. n
  BY <1>1, <1>2
<1>5. \A i \in 1 .. l : StoredOp(v + i, log[v + i]) \in Entry
  BY <1>1, <1>4 DEF StoredOp, Entry
<1>6. \A i \in 1 .. l : e[i] = StoredOp(v + i, log[v + i])
  BY <1>2
<1>7. \A i \in 1 .. l : e[i].seq = v + i /\ e[i].op = log[v + i]
  BY <1>6, StoredOpFields
<1>8. DOMAIN e = 1 .. l
  BY <1>2
<1>9. e \in Seq(Entry)
  <2> HIDE DEF l
  <2> QED BY <1>2, <1>3, <1>5, IsASeq
<1>10. Len(e) = l
  <2> HIDE DEF l
  <2> QED BY <1>3, <1>8, <1>9, LenProperties
<1>11. OpsOf(e) = {log[s] : s \in (v + 1) .. n}
  <2>1. \A i \in 1 .. l : v + i \in (v + 1) .. n
    BY <1>1, <1>2
  <2>2. \A s \in (v + 1) .. n : s - v \in 1 .. l /\ v + (s - v) = s
    BY <1>1, <1>2
  <2> HIDE DEF l
  <2>3. \A s \in (v + 1) .. n : \E i \in 1 .. l : e[i].op = log[s]
    BY <1>7, <2>2
  <2>4. OpsOf(e) \subseteq {log[s] : s \in (v + 1) .. n}
    BY <1>7, <1>8, <2>1 DEF OpsOf
  <2>5. {log[s] : s \in (v + 1) .. n} \subseteq OpsOf(e)
    BY <1>8, <2>3 DEF OpsOf
  <2> QED BY <2>4, <2>5
<1> QED BY <1>3, <1>4, <1>6, <1>7, <1>8, <1>9, <1>10, <1>11 DEF n, e

(* A message is received. *)
LEMMA TailContinues ==
  ASSUME NEW log \in Seq(Op), NEW msgs \in Seq(ServerMsg), msgs # <<>>,
         NEW from, Continues(from, msgs, log)
  PROVE  \E to \in 0 .. Len(log) :
           Brings(from, Head(msgs), to, log) /\ Continues(to, Tail(msgs), log)
<1> DEFINE n == Len(msgs)
           m == Len(log)
<1>1. /\ n \in Nat /\ n # 0 /\ Len(Tail(msgs)) = n - 1 /\ Head(msgs) = msgs[1]
      /\ \A i \in 1 .. (n - 1) : Tail(msgs)[i] = msgs[i + 1]
  BY TailElements, LenProperties, EmptySeq
<1>2. PICK at \in [0 .. n -> 0 .. m] :
        /\ at[0] = from /\ at[n] = m
        /\ \A i \in 1 .. n : Brings(at[i - 1], msgs[i], at[i], log)
  BY DEF Continues
<1> HIDE DEF n, m
<1> DEFINE new == [i \in 0 .. (n - 1) |-> at[i + 1]]
<1>3. new \in [0 .. (n - 1) -> 0 .. m] /\ new[0] = at[1] /\ new[n - 1] = m
  BY <1>1, <1>2
<1>4. ASSUME NEW i \in 1 .. (n - 1) PROVE Brings(new[i - 1], Tail(msgs)[i], new[i], log)
  <2>1. /\ i + 1 \in 1 .. n /\ i - 1 \in 0 .. (n - 1) /\ i \in 0 .. (n - 1)
        /\ (i + 1) - 1 = i /\ (i - 1) + 1 = i
    BY <1>1
  <2>2. Brings(at[i], msgs[i + 1], at[i + 1], log)
    BY <1>2, <2>1
  <2>3. new[i - 1] = at[i] /\ new[i] = at[i + 1] /\ Tail(msgs)[i] = msgs[i + 1]
    BY <1>1, <2>1
  <2> QED BY <2>2, <2>3
<1>5. at[1] \in 0 .. m /\ Brings(from, Head(msgs), at[1], log)
  <2>1. 1 \in 1 .. n /\ 1 - 1 = 0
    BY <1>1
  <2>2. Brings(at[1 - 1], msgs[1], at[1], log)
    BY <1>2, <2>1
  <2> QED BY <1>1, <1>2, <2>1, <2>2
<1> HIDE DEF new
<1>6. Continues(at[1], Tail(msgs), log)
  BY <1>1, <1>3, <1>4 DEF Continues, m
<1> QED BY <1>5, <1>6 DEF m

(* A message brings what is on its stretch of the log. *)
LEMMA BringsCarries ==
  ASSUME NEW log \in Seq(Op), NEW msg \in ServerMsg,
         NEW from \in 0 .. Len(log), NEW to \in 0 .. Len(log), Brings(from, msg, to, log)
  PROVE  /\ from <= to /\ Carried(msg) \subseteq UpTo(log, to)
         /\ \A s \in (from + 1) .. to : log[s] \in Carried(msg)
<1> DEFINE m == Len(log)
<1>1. m \in Nat /\ from \in 0 .. m /\ to \in 0 .. m
  BY LogPlaces
<1> HIDE DEF m
<1>2. CASE msg.type = "welcome"
  <2> DEFINE entries == msg.ops
             folded  == SnapshotOps(msg.snapshot.nodes)
             l       == Len(entries)
  <2>1. entries \in Seq(Entry)
    BY <1>2 DEF ServerMsg
  <2>2. PICK v \in from .. to :
          /\ to = v + l
          /\ \A k \in 1 .. l : entries[k] = StoredOp(v + k, log[v + k])
          /\ folded \subseteq UpTo(log, v)
          /\ \A s \in (from + 1) .. v : log[s] \in folded
    BY <1>2 DEF Brings
  <2>3. Carried(msg) = folded \cup OpsOf(entries) /\ from <= to
    BY <1>2 DEF Carried, Brings
  <2> HIDE DEF entries, folded
  <2>4. l \in Nat /\ DOMAIN entries = 1 .. l
    BY <2>1, LenProperties
  <2> HIDE DEF l
  <2>5. \A k \in 1 .. l : entries[k].op = log[v + k]
    BY <2>2, StoredOpFields
  <2>6. \A k \in 1 .. l : v + k \in 1 .. to
    BY <1>1, <2>2, <2>4
  <2>7. OpsOf(entries) \subseteq UpTo(log, to)
    BY <2>4, <2>5, <2>6 DEF OpsOf, UpTo
  <2>8. UpTo(log, v) \subseteq UpTo(log, to)
    BY <1>1, <2>2, <2>4, UpToMore
  <2>9. ASSUME NEW s \in (from + 1) .. to PROVE log[s] \in folded \cup OpsOf(entries)
    <3>1. CASE s <= v
      <4>1. s \in (from + 1) .. v
        BY <1>1, <2>2, <3>1
      <4> QED BY <2>2, <4>1
    <3>2. CASE ~ (s <= v)
      <4>1. s - v \in 1 .. l /\ v + (s - v) = s
        BY <1>1, <2>2, <2>4, <3>2
      <4>2. entries[s - v].op = log[s]
        BY <2>5, <4>1
      <4> QED BY <2>4, <4>1, <4>2 DEF OpsOf
    <3> QED BY <3>1, <3>2
  <2> QED BY <2>2, <2>3, <2>7, <2>8, <2>9
<1>3. CASE msg.type # "welcome"
  <2>1. to = from + 1 /\ msg.op = log[to] /\ Carried(msg) = {msg.op}
    BY <1>3 DEF Brings, Carried
  <2>2. to \in 1 .. to /\ from <= to /\ \A s \in (from + 1) .. to : s = to
    BY <1>1, <2>1
  <2> QED BY <2>1, <2>2 DEF UpTo
<1> QED BY <1>2, <1>3

(* An operation more in the log changes nothing of it. *)
LEMMA AppendBrings ==
  ASSUME NEW log \in Seq(Op), NEW op \in Op, NEW msg \in ServerMsg,
         NEW from \in 0 .. Len(log), NEW to \in 0 .. Len(log), Brings(from, msg, to, log)
  PROVE  Brings(from, msg, to, Append(log, op))
<1> DEFINE m   == Len(log)
           all == Append(log, op)
<1>1. m \in Nat /\ from \in 0 .. m /\ to \in 0 .. m /\ DOMAIN log = 1 .. m
  BY LogPlaces
<1>2. \A i \in 1 .. m : all[i] = log[i]
  BY <1>1, AppendElements
<1>3. \A n \in 0 .. m : UpTo(all, n) = UpTo(log, n)
  BY UpToAppend
<1> HIDE DEF m, all
<1>4. CASE msg.type = "welcome"
  <2> DEFINE entries == msg.ops
             folded  == SnapshotOps(msg.snapshot.nodes)
             l       == Len(entries)
  <2>1. entries \in Seq(Entry)
    BY <1>4 DEF ServerMsg
  <2>2. PICK v \in from .. to :
          /\ to = v + l
          /\ \A k \in 1 .. l : entries[k] = StoredOp(v + k, log[v + k])
          /\ folded \subseteq UpTo(log, v)
          /\ \A s \in (from + 1) .. v : log[s] \in folded
    BY <1>4 DEF Brings
  <2>3. l \in Nat
    BY <2>1, LenProperties
  <2>4. msg.head = to /\ from <= to
    BY <1>4 DEF Brings
  <2> HIDE DEF entries, l, folded
  <2>5. \A k \in 1 .. l : v + k \in 1 .. m
    BY <1>1, <2>2, <2>3
  <2>6. \A s \in (from + 1) .. v : s \in 1 .. m
    BY <1>1, <2>2, <2>3
  <2>7. v \in 0 .. m
    BY <1>1, <2>2
  <2>8. /\ \A k \in 1 .. l : entries[k] = StoredOp(v + k, all[v + k])
        /\ folded \subseteq UpTo(all, v)
        /\ \A s \in (from + 1) .. v : all[s] \in folded
    BY <1>2, <1>3, <2>2, <2>5, <2>6, <2>7
  <2>9. Brings(from, msg, to, all)
    BY <1>4, <2>2, <2>4, <2>8 DEF Brings, entries, l, folded
  <2> QED BY <2>9 DEF all
<1>5. CASE msg.type # "welcome"
  <2>1. to = from + 1 /\ msg.type = "stored" /\ msg.seq = to /\ msg.op = log[to]
    BY <1>5 DEF Brings
  <2>2. to \in 1 .. m
    BY <1>1, <2>1
  <2>3. Brings(from, msg, to, all)
    BY <1>2, <1>5, <2>1, <2>2 DEF Brings
  <2> QED BY <2>3 DEF all
<1> QED BY <1>4, <1>5

(* An operation is appended and sent. *)
LEMMA AppendContinues ==
  ASSUME NEW log \in Seq(Op), NEW op \in Op, NEW msgs \in Seq(ServerMsg),
         NEW from, Continues(from, msgs, log)
  PROVE  LET msg == StoredMsg(StoredOp(Len(log) + 1, op)) IN
         Continues(from, Append(msgs, msg), Append(log, op))
<1> DEFINE n    == Len(msgs)
           m    == Len(log)
           msg  == StoredMsg(StoredOp(m + 1, op))
           more == Append(msgs, msg)
           all  == Append(log, op)
<1>1. /\ n \in Nat /\ m \in Nat /\ DOMAIN msgs = 1 .. n /\ DOMAIN log = 1 .. m
      /\ \A i \in 1 .. n : msgs[i] \in ServerMsg
  BY LenProperties, ElementOfSeq
<1>2. /\ msg.type = "stored" /\ msg.seq = m + 1 /\ msg.op = op
      /\ msg \in ServerMsg
  BY <1>1 DEF StoredMsg, StoredOp, ServerMsg
<1>3. PICK at \in [0 .. n -> 0 .. m] :
        /\ at[0] = from /\ at[n] = m
        /\ \A i \in 1 .. n : Brings(at[i - 1], msgs[i], at[i], log)
  BY DEF Continues
<1> HIDE DEF n, msg
<1>4. /\ Len(more) = n + 1 /\ more[n + 1] = msg
      /\ \A i \in 1 .. n : more[i] = msgs[i]
  BY <1>1, <1>2, AppendElements DEF n
<1>5. Len(all) = m + 1 /\ all[m + 1] = op
  BY <1>1, AppendElements
<1>6. ASSUME NEW i \in 1 .. n PROVE Brings(at[i - 1], msgs[i], at[i], all)
  <2>1. i - 1 \in 0 .. n /\ i \in 0 .. n
    BY <1>1
  <2>2. at[i - 1] \in 0 .. m /\ at[i] \in 0 .. m /\ Brings(at[i - 1], msgs[i], at[i], log)
    BY <1>3, <2>1
  <2> DEFINE a == at[i - 1]
             b == at[i]
             x == msgs[i]
  <2>3. a \in 0 .. m /\ b \in 0 .. m /\ Brings(a, x, b, log) /\ x \in ServerMsg
    BY <1>1, <2>2
  <2> HIDE DEF a, b, x
  <2>4. Brings(a, x, b, all)
    BY <2>3, AppendBrings
  <2> QED BY <2>4 DEF a, b, x
<1> HIDE DEF m, more, all
<1> DEFINE new == [i \in 0 .. (n + 1) |-> IF i = n + 1 THEN m + 1 ELSE at[i]]
<1>7. /\ new \in [0 .. (n + 1) -> 0 .. (m + 1)] /\ new[0] = from /\ new[n + 1] = m + 1
      /\ new[n] = m /\ \A i \in 0 .. n : new[i] = at[i]
  BY <1>1, <1>3
<1> HIDE DEF new
<1>8. ASSUME NEW i \in 1 .. n PROVE Brings(new[i - 1], more[i], new[i], all)
  <2>1. i - 1 \in 0 .. n /\ i \in 0 .. n
    BY <1>1
  <2>2. new[i - 1] = at[i - 1] /\ new[i] = at[i] /\ more[i] = msgs[i]
    BY <1>4, <1>7, <2>1
  <2> QED BY <1>6, <2>2
<1>9. Brings(new[n], more[n + 1], new[n + 1], all)
  BY <1>2, <1>4, <1>5, <1>7 DEF Brings
<1>10. ASSUME NEW i \in 1 .. (n + 1) PROVE Brings(new[i - 1], more[i], new[i], all)
  <2>1. CASE i = n + 1
    <3>1. (n + 1) - 1 = n
      BY <1>1
    <3> QED BY <1>9, <2>1, <3>1
  <2>2. CASE i # n + 1
    <3>1. i \in 1 .. n
      BY <1>1, <2>2
    <3> QED BY <1>8, <3>1
  <2> QED BY <2>1, <2>2
<1>11. Continues(from, more, all)
  BY <1>4, <1>5, <1>7, <1>10 DEF Continues
<1> QED BY <1>11 DEF more, all, msg, m

(* Together they bring the rest of the log, and nothing else. *)
LEMMA ContinuesCarries ==
  ASSUME NEW log \in Seq(Op), NEW msgs \in Seq(ServerMsg),
         NEW from \in Nat, Continues(from, msgs, log)
  PROVE  LET all == UNION {Carried(msgs[i]) : i \in DOMAIN msgs} IN
         /\ from <= Len(log)
         /\ all \subseteq ToSet(log)
         /\ \A s \in 1 .. Len(log) : s <= from \/ log[s] \in all
<1> DEFINE n == Len(msgs)
           m == Len(log)
           all == UNION {Carried(msgs[i]) : i \in DOMAIN msgs}
<1>1. /\ n \in Nat /\ m \in Nat /\ DOMAIN msgs = 1 .. n /\ DOMAIN log = 1 .. m
      /\ \A i \in 1 .. n : msgs[i] \in ServerMsg
  BY LenProperties, ElementOfSeq
<1>2. PICK at \in [0 .. n -> 0 .. m] :
        /\ at[0] = from /\ at[n] = m
        /\ \A i \in 1 .. n : Brings(at[i - 1], msgs[i], at[i], log)
  BY DEF Continues
<1>3. ASSUME NEW i \in 1 .. n
      PROVE  /\ at[i - 1] \in 0 .. m /\ at[i] \in 0 .. m
             /\ Carried(msgs[i]) \subseteq ToSet(log)
             /\ \A s \in (at[i - 1] + 1) .. at[i] : log[s] \in Carried(msgs[i])
  <2> DEFINE a == at[i - 1]
             b == at[i]
             x == msgs[i]
  <2>1. a \in 0 .. m /\ b \in 0 .. m /\ x \in ServerMsg /\ Brings(a, x, b, log)
    <3>1. i - 1 \in 0 .. n /\ i \in 0 .. n
      BY <1>1
    <3> QED BY <1>1, <1>2, <3>1
  <2> HIDE DEF a, b, x
  <2>2. Carried(x) \subseteq UpTo(log, b) /\ \A s \in (a + 1) .. b : log[s] \in Carried(x)
    BY <2>1, BringsCarries
  <2>3. UpTo(log, b) \subseteq ToSet(log)
    BY <2>1, LogPlaces
  <2> QED BY <2>1, <2>2, <2>3 DEF a, b, x
<1> HIDE DEF n, m
<1>4. all \subseteq ToSet(log)
  BY <1>1, <1>3
<1> DEFINE G == {i \in 0 .. n : \A s \in 1 .. at[i] : s <= from \/ log[s] \in all}
<1>5. 0 \in G
  BY <1>1, <1>2
<1>6. ASSUME NEW i \in 1 .. n, i - 1 \in G PROVE i \in G
  <2>1. \A s \in 1 .. at[i - 1] : s <= from \/ log[s] \in all
    BY <1>6
  <2>2. i \in 0 .. n
    BY <1>1
  <2>3. at[i - 1] \in 0 .. m /\ at[i] \in 0 .. m
    BY <1>3
  <2>4. \A s \in (at[i - 1] + 1) .. at[i] : log[s] \in all
    BY <1>1, <1>3
  <2> HIDE DEF all
  <2>5. \A s \in 1 .. at[i] : s \in 1 .. at[i - 1] \/ s \in (at[i - 1] + 1) .. at[i]
    BY <1>1, <2>3
  <2>6. \A s \in 1 .. at[i] : s <= from \/ log[s] \in all
    BY <2>1, <2>4, <2>5
  <2> QED BY <2>2, <2>6
<1>7. n \in G
  <2> HIDE DEF G
  <2>1. \A i \in 0 .. n : i \in G
    BY <1>1, <1>5, <1>6, Interval
  <2> QED BY <1>1, <2>1
<1>8. from <= m
  BY <1>1, <1>2
<1> HIDE DEF all
<1>9. \A s \in 1 .. m : s <= from \/ log[s] \in all
  BY <1>2, <1>7
<1> QED BY <1>4, <1>8, <1>9 DEF all, m

(* A welcome to a room that hears nothing yet is the rest of the log. *)
LEMMA WelcomeContinues ==
  ASSUME NEW log \in Seq(Op), NEW from \in 0 .. Len(log), NEW msg,
         Brings(from, msg, Len(log), log)
  PROVE  Continues(from, <<msg>>, log)
<1> DEFINE m  == Len(log)
           at == [i \in 0 .. 1 |-> IF i = 0 THEN from ELSE m]
<1>1. m \in Nat
  BY LenProperties
<1>2. Brings(from, msg, m, log) /\ from \in 0 .. m
  OBVIOUS
<1> HIDE DEF m
<1>3. at \in [0 .. 1 -> 0 .. m] /\ at[0] = from /\ at[1] = m
  BY <1>1, <1>2
<1> HIDE DEF at
<1>4. \A i \in 1 .. 1 : Brings(at[i - 1], <<msg>>[i], at[i], log)
  <2> TAKE i \in 1 .. 1
  <2>1. i = 1 /\ i - 1 = 0 /\ <<msg>>[1] = msg
    OBVIOUS
  <2> QED BY <1>2, <1>3, <2>1
<1>5. Len(<<msg>>) = 1
  OBVIOUS
<1> QED BY <1>3, <1>4, <1>5 DEF Continues, m

-----------------------------------------------------------------------------
(* The operations a document stands for *)

Held(d) ==
  {[type |-> "insert", id |-> x, parent |-> d.nodes[x].parent] : x \in DOMAIN d.nodes}
    \cup {DeleteOf(x) : x \in d.tombstones}

(* A document stands for the operations it mirrors. *)
LEMMA HeldIsOps ==
  ASSUME NEW ops \in SUBSET Op, NEW d, Mirrors(d, ops)
  PROVE  Held(d) = ops
<1>1. ASSUME NEW op \in ops, op.type = "insert"
      PROVE  /\ op.id \in DOMAIN d.nodes /\ d.nodes[op.id].parent = op.parent
             /\ op = [type |-> "insert", id |-> op.id, parent |-> op.parent]
  <2>1. op \in InsertOp
    BY <1>1, OpsAreRecords
  <2> QED BY <1>1, <2>1 DEF Mirrors, InsertedIds, Inserts, InsertOp
<1>2. ASSUME NEW op \in ops, op.type # "insert"
      PROVE  op.id \in d.tombstones /\ op = DeleteOf(op.id)
  <2>1. op \in DeleteOp /\ op.type = "delete"
    BY <1>2, OpsAreRecords
  <2> QED BY <1>2, <2>1 DEF Mirrors, DeletedIds, DeleteOp, DeleteOf
<1>3. ASSUME NEW op \in ops PROVE op \in Held(d)
  BY <1>1, <1>2 DEF Held
<1>4. ASSUME NEW x \in DOMAIN d.nodes
      PROVE  [type |-> "insert", id |-> x, parent |-> d.nodes[x].parent] \in ops
  <2>1. PICK op \in ops : op.type = "insert" /\ op.id = x
    BY DEF Mirrors, InsertedIds, Inserts
  <2> QED BY <1>1, <2>1
<1>5. ASSUME NEW x \in d.tombstones PROVE DeleteOf(x) \in ops
  <2>1. PICK op \in ops : op.type = "delete" /\ op.id = x
    BY DEF Mirrors, DeletedIds
  <2> QED BY <1>2, <2>1
<1> QED BY <1>3, <1>4, <1>5 DEF Held

(* They are well formed. *)
LEMMA HeldAreOps == ASSUME NEW d, IsDoc(d) PROVE Held(d) \in SUBSET Op
<1>1. ASSUME NEW x \in DOMAIN d.nodes
      PROVE  [type |-> "insert", id |-> x, parent |-> d.nodes[x].parent] \in Op
  <2>1. x \in Id /\ d.nodes[x].parent \in Id \cup {ROOT}
    BY DEF IsDoc
  <2> QED BY <2>1 DEF Op, InsertOp
<1>2. ASSUME NEW x \in d.tombstones PROVE DeleteOf(x) \in Op
  <2>1. x \in Id
    BY DEF IsDoc
  <2> QED BY <2>1 DEF DeleteOf, Op, DeleteOp
<1> QED BY <1>1, <1>2 DEF Held

-----------------------------------------------------------------------------
(* The store *)

(* A store that has folded the first v places of the log. *)
Folded(log, v, snapshot) ==
  [ops |-> Above(log, v), seq |-> Len(log), snapshot |-> snapshot]

(* An append numbers what it adds. *)
LEMMA AppendFolded ==
  ASSUME NEW log \in Seq(Op), NEW op \in Op, NEW v \in 0 .. Len(log), NEW snap
  PROVE  /\ Append1(Folded(log, v, snap), op) = Folded(Append(log, op), v, snap)
         /\ Last(Append1(Folded(log, v, snap), op).ops) = StoredOp(Len(log) + 1, op)
<1> DEFINE m    == Len(log)
           n    == m - v
           ops  == Above(log, v)
           o    == StoredOp(m + 1, op)
           all  == Append(log, op)
           more == Above(all, v)
           new  == Append(ops, o)
<1>1. m \in Nat /\ DOMAIN log = 1 .. m /\ v \in 0 .. m /\ v + n = m
  BY LenProperties
<1>2. all \in Seq(Op) /\ Len(all) = m + 1 /\ all[m + 1] = op /\ \A i \in 1 .. m : all[i] = log[i]
  BY <1>1, AppendElements
<1>3. /\ ops \in Seq(Entry) /\ Len(ops) = n /\ n \in Nat /\ DOMAIN ops = 1 .. n
      /\ \A i \in 1 .. n : v + i \in 1 .. m /\ ops[i] = StoredOp(v + i, log[v + i])
  BY AboveEntries
<1>4. /\ more \in Seq(Entry) /\ Len(more) = n + 1
      /\ \A i \in 1 .. (n + 1) : more[i] = StoredOp(v + i, all[v + i])
  <2>1. v \in 0 .. Len(all) /\ Len(all) - v = n + 1
    BY <1>1, <1>2
  <2> HIDE DEF all, n
  <2>2. /\ Above(all, v) \in Seq(Entry) /\ Len(Above(all, v)) = Len(all) - v
        /\ \A i \in 1 .. (Len(all) - v) : Above(all, v)[i] = StoredOp(v + i, all[v + i])
    BY <1>2, <2>1, AboveEntries
  <2> QED BY <2>1, <2>2
<1>5. o \in Entry
  BY <1>1 DEF StoredOp, Entry
<1> HIDE DEF o, ops, n
<1>6. /\ new \in Seq(Entry) /\ Len(new) = n + 1 /\ new[n + 1] = o
      /\ \A i \in 1 .. n : new[i] = ops[i]
  <2>1. /\ new \in Seq(Entry) /\ Len(new) = Len(ops) + 1 /\ new[Len(ops) + 1] = o
        /\ \A i \in DOMAIN ops : new[i] = ops[i]
    BY <1>3, <1>5, AppendElements
  <2> QED BY <1>3, <2>1
<1>7. \A i \in 1 .. (n + 1) : new[i] = more[i]
  <2> TAKE i \in 1 .. (n + 1)
  <2>1. CASE i = n + 1
    <3>1. v + i = m + 1
      BY <1>1, <1>3, <2>1
    <3> QED BY <1>2, <1>3, <1>4, <1>6, <2>1, <3>1 DEF o
  <2>2. CASE i # n + 1
    <3>1. i \in 1 .. n
      BY <1>3, <2>2
    <3> QED BY <1>2, <1>3, <1>4, <1>6, <3>1
  <2> QED BY <2>1, <2>2
<1> HIDE DEF new, more, n, all
<1>8. new = more
  BY <1>4, <1>6, <1>7, SeqEqual
<1>9. Append1(Folded(log, v, snap), op) = [ops |-> new, seq |-> m + 1, snapshot |-> snap]
  BY DEF Append1, Folded, new, ops, o
<1>10. Folded(all, v, snap) = [ops |-> more, seq |-> m + 1, snapshot |-> snap]
  BY <1>2 DEF Folded, more
<1>11. Last(new) = o
  BY <1>6 DEF Last
<1> QED BY <1>8, <1>9, <1>10, <1>11 DEF all, o

(* What the store gives out of its operations. *)
LEMMA SinceFolded ==
  ASSUME NEW log \in Seq(Op), NEW v \in 0 .. Len(log), NEW s, s.ops = Above(log, v)
  PROVE  /\ \A h \in v .. Len(log) : Since(s, h) = Above(log, h)
         /\ \A h : /\ Since(s, h) \in Seq(Entry)
                   /\ OpsOf(Since(s, h)) \subseteq {log[i] : i \in (v + 1) .. Len(log)}
<1> DEFINE m   == Len(log)
           n   == m - v
           ops == Above(log, v)
<1>1. /\ ops \in Seq(Entry) /\ Len(ops) = n /\ n \in Nat /\ DOMAIN ops = 1 .. n
      /\ \A i \in 1 .. n : /\ v + i \in 1 .. m /\ ops[i] = StoredOp(v + i, log[v + i])
                           /\ ops[i].seq = v + i
      /\ OpsOf(ops) = {log[i] : i \in (v + 1) .. m}
  BY AboveEntries
<1>2. m \in Nat /\ n \in Nat /\ v \in 0 .. m /\ v + n = m
  BY LenProperties
<1>3. \A h : Since(s, h) = NumberedAbove(ops, h)
  BY DEF Since
<1> HIDE DEF ops, n
<1>4. ASSUME NEW h \in v .. m PROVE Since(s, h) = Above(log, h)
  <2> DEFINE a == h - v
             rest == NumberedAbove(ops, h)
             want == Above(log, h)
  <2>1. a \in 0 .. n /\ v + a = h /\ n - a = m - h
    <3> HIDE DEF m
    <3> QED BY <1>2
  <2>2. ASSUME NEW i \in 1 .. n PROVE ops[i].seq > h <=> i > a
    <3>1. ops[i].seq = v + i /\ i \in Int /\ v \in Int /\ a \in Int
      BY <1>1, <1>2, <2>1
    <3> HIDE DEF a
    <3> QED BY <2>1, <3>1
  <2> HIDE DEF a
  <2>3. /\ rest \in Seq(Entry) /\ Len(rest) = n - a
        /\ \A k \in 1 .. (n - a) : rest[k] = ops[a + k]
    <3>1. a \in 0 .. Len(ops)
      BY <1>1, <2>1
    <3>2. \A i \in 1 .. Len(ops) : ops[i].seq > h <=> i > a
      BY <1>1, <2>2
    <3>3. ops \in Seq(Entry)
      BY <1>1
    <3>4. /\ NumberedAbove(ops, h) \in Seq(Entry) /\ Len(NumberedAbove(ops, h)) = Len(ops) - a
          /\ \A k \in 1 .. (Len(ops) - a) : NumberedAbove(ops, h)[k] = ops[a + k]
      BY <3>1, <3>2, <3>3, RestOfNumbered
    <3> QED BY <1>1, <3>4
  <2>4. h \in 0 .. m
    BY <1>2
  <2>5. /\ want \in Seq(Entry) /\ Len(want) = m - h
        /\ \A k \in 1 .. (m - h) : want[k] = StoredOp(h + k, log[h + k])
    BY <2>4, AboveEntries
  <2> HIDE DEF rest, want
  <2>6. \A k \in 1 .. (n - a) : rest[k] = want[k]
    <3> TAKE k \in 1 .. (n - a)
    <3> HIDE DEF a, m
    <3>1. n \in Nat /\ m \in Nat /\ v \in Nat
      BY <1>2
    <3>2. h \in Nat /\ a \in Nat
      BY <2>1, <3>1
    <3>3. k \in Nat /\ 1 <= k /\ k <= n - a
      BY <3>1, <3>2
    <3>4. a + k \in 1 .. n /\ k \in 1 .. (m - h)
      BY <2>1, <3>1, <3>2, <3>3
    <3>5. v + (a + k) = h + k
      BY <2>1, <3>1, <3>2, <3>3
    <3> QED BY <1>1, <2>3, <2>5, <3>4, <3>5
  <2>7. rest = want
    <3>1. Len(rest) = Len(want) /\ \A k \in 1 .. Len(rest) : rest[k] = want[k]
      BY <2>1, <2>3, <2>5, <2>6
    <3> QED BY <2>3, <2>5, <3>1, SeqEqual
  <2> QED BY <1>3, <2>7 DEF rest, want
<1>5. ASSUME NEW h
      PROVE  Since(s, h) \in Seq(Entry) /\ OpsOf(Since(s, h)) \subseteq {log[i] : i \in (v + 1) .. m}
  <2> DEFINE set  == {o \in Range(ops) : o.seq > h}
             kept == Kept(ops, set)
  <2>1. Since(s, h) = kept
    BY <1>3 DEF NumberedAbove
  <2> HIDE DEF set
  <2>2. kept \in Seq(Entry) /\ ToSet(kept) = ToSet(ops) \cap set
    BY <1>1, KeptElements
  <2> HIDE DEF kept
  <2>3. OpsOf(kept) \subseteq OpsOf(ops)
    <3>1. \A i \in DOMAIN kept : \E j \in DOMAIN ops : kept[i] = ops[j]
      BY <2>2 DEF ToSet
    <3> QED BY <3>1 DEF OpsOf
  <2> QED BY <1>1, <2>1, <2>2, <2>3
<1> QED BY <1>4, <1>5

-----------------------------------------------------------------------------
(* Compaction *)

(* In a log: ids are not reused and an element is later than its parent. *)
Orderly(ops) ==
  UniqueIds(ops) /\ \A op \in Inserts(ops) : op.id.counter > op.parent.counter

(* Every operation is of an element that is there. *)
DistinctIds(nodes) ==
  \A i, j \in 1 .. Len(nodes) : nodes[i].id = nodes[j].id => i = j

(* A document of orderly operations is a tree. *)
LEMMA OrderlyTree ==
  ASSUME NEW ops, Orderly(ops), NEW d, Sound(d, ops)
  PROVE  Tree(d)
<1>1. ASSUME NEW x \in DOMAIN d.nodes
      PROVE  x.counter <= d.counter /\ x.counter > d.nodes[x].parent.counter
  <2>1. PICK op \in Inserts(ops) : op.id = x
    BY DEF Sound, Mirrors, InsertedIds
  <2> QED BY <2>1 DEF Sound, Mirrors, ClockIsLargestSeen, Orderly
<1> QED BY <1>1 DEF Tree, Sound

(* The document of what was folded and of what was not. *)
LEMMA FoldSound ==
  ASSUME NEW log \in Seq(Op), NEW v \in 0 .. Len(log), NEW nodes \in Seq(Node),
         DistinctIds(nodes), SnapshotOps(nodes) \subseteq UpTo(log, v), Orderly(ToSet(log))
  PROVE  LET d   == IntegrateDoc(FromSnapshot(nodes), Above(log, v))
             ops == SnapshotOps(nodes) \cup OpsOf(Above(log, v))
         IN  /\ Sound(d, ops) /\ Tree(d) /\ ops \subseteq ToSet(log) /\ ops \in SUBSET Op
             /\ SnapshotOps(nodes) = UpTo(log, v) => ops = ToSet(log)
<1> DEFINE m      == Len(log)
           folded == SnapshotOps(nodes)
           rest   == Above(log, v)
           n      == m - v
           sorted == SortedById(nodes)
           e      == FromSnapshot(nodes)
           d      == IntegrateDoc(e, rest)
           ops    == folded \cup OpsOf(rest)
<1>1. /\ m \in Nat /\ v \in 0 .. m /\ UpTo(log, m) = ToSet(log) /\ UpTo(log, v) \subseteq ToSet(log)
      /\ \A s \in 1 .. m : log[s] \in Op
      /\ DOMAIN log = 1 .. m
  BY LogPlaces
<1>2. /\ DOMAIN rest = 1 .. n /\ n \in Nat
      /\ \A i \in 1 .. n : v + i \in 1 .. m /\ rest[i].op = log[v + i]
      /\ OpsOf(rest) = {log[s] : s \in (v + 1) .. m}
  BY AboveEntries
<1>3. UpTo(log, v) \cup OpsOf(rest) = ToSet(log)
  BY <1>1, <1>2, UpToMore
<1>4. folded \subseteq UpTo(log, v)
  OBVIOUS
<1>5. folded \subseteq Op
  BY SnapshotOpsAreOps
<1>6. ToSet(log) \subseteq Op
  BY <1>1 DEF ToSet
<1>7. sorted \in Seq(Node) /\ Range(sorted) = Range(nodes)
  BY SortedNodes DEF DistinctIds
<1>8. SnapshotOps(sorted) = folded
  BY <1>7 DEF SnapshotOps
<1> HIDE DEF folded, rest, n, m, sorted
<1>9. ops \subseteq ToSet(log) /\ (folded = UpTo(log, v) => ops = ToSet(log))
  BY <1>3, <1>4
<1>10. Orderly(ops)
  <2>1. UniqueIds(ops)
    BY <1>9, SubsetUnique DEF Orderly
  <2>2. Inserts(ops) \subseteq Inserts(ToSet(log))
    BY <1>9 DEF Inserts
  <2> QED BY <2>1, <2>2 DEF Orderly
<1>11. Sound(e, folded)
  <2>1. e = MergeSnapshot(NewDoc, sorted)
    BY DEF FromSnapshot, sorted
  <2>2. {} \cup SnapshotOps(sorted) = folded /\ {} \in SUBSET Op
    BY <1>8
  <2>3. UniqueIds({} \cup SnapshotOps(sorted))
    <3>1. folded \subseteq ops
      OBVIOUS
    <3>2. UniqueIds(folded)
      BY <1>10, <3>1, SubsetUnique DEF Orderly
    <3> QED BY <2>2, <3>2
  <2>4. Sound(MergeSnapshot(NewDoc, sorted), {} \cup SnapshotOps(sorted))
    BY <1>7, <2>2, <2>3, EmptySound, MergeSound
  <2> QED BY <2>1, <2>2, <2>4
<1> HIDE DEF e
<1>12. Sound(d, ops)
  <2>1. \A i \in 1 .. n : rest[i].op \in Op
    BY <1>1, <1>2
  <2>2. UniqueIds(folded \cup OpsOf(rest))
    BY <1>10 DEF Orderly
  <2>3. folded \in SUBSET Op
    BY <1>5
  <2> QED BY <1>2, <1>11, <2>1, <2>2, <2>3, IntegrateSound
<1>13. Tree(d)
  BY <1>10, <1>12, OrderlyTree
<1> HIDE DEF d, ops
<1> QED BY <1>6, <1>9, <1>12, <1>13 DEF d, e, ops, folded, rest

(* Every operation of a log is of an element that is there. *)
CausalLog(log) ==
  \A i \in DOMAIN log :
    \/ Refers(log[i]) = ROOT
    \/ \E j \in 1 .. i - 1 : log[j].type = "insert" /\ log[j].id = Refers(log[i])

(* The DocState of a log: the snapshot folds a prefix, and all of it while *)
(* the log is causal.                                                      *)
IsStoreOf(s, log) ==
  \E v \in 0 .. Len(log), nodes \in Seq(Node) :
    /\ s = Folded(log, v, [version |-> v, nodes |-> nodes])
    /\ MaxCompactions = 0 => v = 0
    /\ DistinctIds(nodes) /\ SnapshotOps(nodes) \subseteq UpTo(log, v)
    /\ CausalLog(log) => SnapshotOps(nodes) = UpTo(log, v)

(* A log was causal before its last operation, too. *)
LEMMA CausalPrefix ==
  ASSUME NEW log \in Seq(Op), NEW op \in Op, CausalLog(Append(log, op))
  PROVE  CausalLog(log)
<1> DEFINE n   == Len(log)
           all == Append(log, op)
<1>1. /\ n \in Nat /\ DOMAIN log = 1 .. n /\ DOMAIN all = DOMAIN log \cup {n + 1}
      /\ \A i \in DOMAIN log : all[i] = log[i]
  BY AppendElements, LenProperties
<1> HIDE DEF all, n
<1>2. SUFFICES ASSUME NEW i \in DOMAIN log, Refers(log[i]) # ROOT
               PROVE  \E j \in 1 .. i - 1 : log[j].type = "insert" /\ log[j].id = Refers(log[i])
  BY DEF CausalLog
<1>3. PICK j \in 1 .. i - 1 : all[j].type = "insert" /\ all[j].id = Refers(all[i])
  BY <1>1, <1>2 DEF CausalLog, all
<1>4. j \in DOMAIN log
  BY <1>1, <1>3
<1> QED BY <1>1, <1>3, <1>4

(* An append is one to the log. *)
LEMMA StoreAppends ==
  ASSUME NEW log \in Seq(Op), NEW op \in Op, NEW s, IsStoreOf(s, log)
  PROVE  /\ IsStoreOf(Append1(s, op), Append(log, op))
         /\ Last(Append1(s, op).ops) = StoredOp(Len(log) + 1, op)
<1> DEFINE all == Append(log, op)
<1>1. PICK v \in 0 .. Len(log), nodes \in Seq(Node) :
        /\ s = Folded(log, v, [version |-> v, nodes |-> nodes])
        /\ MaxCompactions = 0 => v = 0
        /\ DistinctIds(nodes) /\ SnapshotOps(nodes) \subseteq UpTo(log, v)
        /\ CausalLog(log) => SnapshotOps(nodes) = UpTo(log, v)
  BY DEF IsStoreOf
<1> DEFINE snap == [version |-> v, nodes |-> nodes]
<1>2. s = Folded(log, v, snap)
  BY <1>1
<1> HIDE DEF snap
<1>3. /\ Append1(s, op) = Folded(all, v, snap)
      /\ Last(Append1(s, op).ops) = StoredOp(Len(log) + 1, op)
  BY <1>2, AppendFolded
<1>4. v \in 0 .. Len(all) /\ UpTo(all, v) = UpTo(log, v)
  <2>1. Len(all) = Len(log) + 1 /\ Len(log) \in Nat
    BY AppendElements, LenProperties
  <2> QED BY <2>1, UpToAppend
<1>5. CausalLog(all) => CausalLog(log)
  BY CausalPrefix
<1> HIDE DEF all
<1>6. IsStoreOf(Append1(s, op), all)
  BY <1>1, <1>3, <1>4, <1>5 DEF IsStoreOf, snap
<1> QED BY <1>3, <1>6 DEF all

(* The operations of a causal log are whole. *)
LEMMA CausalIsWhole ==
  ASSUME NEW log \in Seq(Op), CausalLog(log)
  PROVE  Whole(ToSet(log))
<1>1. DOMAIN log = 1 .. Len(log) /\ Len(log) \in Nat /\ \A i \in DOMAIN log : log[i] \in Op
  BY LenProperties, ElementOfSeq
<1>2. ASSUME NEW op \in ToSet(log), Refers(op) # ROOT PROVE Refers(op) \in InsertedIds(ToSet(log))
  <2>1. PICK i \in DOMAIN log : op = log[i]
    BY DEF ToSet
  <2>2. PICK j \in 1 .. i - 1 : log[j].type = "insert" /\ log[j].id = Refers(op)
    BY <1>2, <2>1 DEF CausalLog
  <2>3. j \in DOMAIN log
    BY <1>1, <2>1, <2>2
  <2>4. log[j] \in Inserts(ToSet(log))
    BY <2>2, <2>3 DEF Inserts, ToSet
  <2> QED BY <2>2, <2>4 DEF InsertedIds
<1>3. ASSUME NEW op \in Inserts(ToSet(log))
      PROVE  op.parent \in {ROOT} \cup InsertedIds(ToSet(log))
  <2>1. op \in ToSet(log) /\ Refers(op) = op.parent
    BY <1>3 DEF Inserts, Refers
  <2> QED BY <1>2, <2>1
<1>4. ASSUME NEW op \in ToSet(log), op.type = "delete" PROVE op.id \in InsertedIds(ToSet(log))
  <2>1. op \in Op
    BY <1>1 DEF ToSet
  <2>2. Refers(op) = op.id /\ op.id \in Id
    BY <1>4, <2>1, OpsAreRecords DEF Refers
  <2>3. op.id # ROOT
    BY <2>2, IdsAreRecords
  <2> QED BY <1>2, <2>2, <2>3
<1> QED BY <1>3, <1>4 DEF Whole, DeletedIds

(* Compaction folds the whole log. *)
LEMMA StoreCompacts ==
  ASSUME NEW log \in Seq(Op), NEW s, IsStoreOf(s, log), Orderly(ToSet(log)),
         MaxCompactions # 0, Head1(s) - s.snapshot.version >= MinOps
  PROVE  IsStoreOf(Compact(s), log)
<1> DEFINE m == Len(log)
<1>1. PICK v \in 0 .. m, nodes \in Seq(Node) :
        /\ s = Folded(log, v, [version |-> v, nodes |-> nodes])
        /\ MaxCompactions = 0 => v = 0
        /\ DistinctIds(nodes) /\ SnapshotOps(nodes) \subseteq UpTo(log, v)
        /\ CausalLog(log) => SnapshotOps(nodes) = UpTo(log, v)
  BY DEF IsStoreOf
<1> DEFINE ops  == Above(log, v)
           d    == IntegrateDoc(FromSnapshot(nodes), ops)
           held == SnapshotOps(nodes) \cup OpsOf(ops)
           new  == Snapshot(d)
<1>2. /\ s.ops = ops /\ s.seq = m /\ s.snapshot.version = v /\ s.snapshot.nodes = nodes
      /\ m \in Nat /\ v \in 0 .. m
  BY <1>1, LenProperties DEF Folded
<1>3. v < m
  <2>1. MinOps \in Nat \ {0}
    BY RelayAssumption
  <2>2. Head1(s) = m
    BY <1>2 DEF Head1
  <2> QED BY <1>2, <2>1, <2>2
<1>4. /\ Sound(d, held) /\ Tree(d) /\ held \subseteq ToSet(log) /\ held \in SUBSET Op
      /\ SnapshotOps(nodes) = UpTo(log, v) => held = ToSet(log)
  BY <1>1, FoldSound
<1>5. Since(s, v) = ops /\ NumberedAbove(s.ops, m) = Above(log, m)
  <2>1. \A h \in v .. m : Since(s, h) = Above(log, h)
    BY <1>2, SinceFolded
  <2>2. v \in v .. m /\ m \in v .. m
    BY <1>2
  <2> QED BY <2>1, <2>2 DEF Since
<1>6. ops # <<>> /\ Last(ops).seq = m
  <2>1. /\ Len(ops) = m - v /\ \A i \in 1 .. (m - v) : ops[i].seq = v + i
    BY <1>1, AboveEntries
  <2> HIDE DEF ops
  <2>2. m - v \in 1 .. (m - v) /\ v + (m - v) = m /\ Len(ops) # 0
    BY <1>2, <1>3, <2>1
  <2> QED BY <2>1, <2>2 DEF Last
<1>7. /\ new \in Seq(Node) /\ SnapshotOps(new) \subseteq held /\ DistinctIds(new)
      /\ Whole(held) => SnapshotOps(new) = held
  <2> HIDE DEF d, held
  <2>1. Mirrors(d, held)
    BY <1>4 DEF Sound
  <2> QED BY <1>4, <2>1, SnapshotHolds DEF DistinctIds
<1> HIDE DEF ops, held, m
<1>8. Compact(s) = Folded(log, m, [version |-> m, nodes |-> new])
  <2>1. Fold(s.snapshot, ops) = new
    BY <1>2 DEF Fold, new, d, IntegrateDoc
  <2> HIDE DEF new
  <2> QED BY <1>2, <1>5, <1>6, <2>1 DEF Compact, Folded, m
<1> HIDE DEF new
<1>9. UpTo(log, m) = ToSet(log) /\ m \in 0 .. m
  BY <1>2, LogPlaces DEF m
<1>10. CausalLog(log) => SnapshotOps(new) = UpTo(log, m)
  BY <1>1, <1>4, <1>7, <1>9, CausalIsWhole
<1>11. SnapshotOps(new) \subseteq UpTo(log, m)
  BY <1>4, <1>7, <1>9
<1> QED BY <1>7, <1>8, <1>9, <1>10, <1>11 DEF IsStoreOf, m

(* What was folded and what was not make the document of the whole log. *)
LEMMA StoreIsTheLog ==
  ASSUME NEW log \in Seq(Op), NEW s, IsStoreOf(s, log), Orderly(ToSet(log)), CausalLog(log)
  PROVE  Fold(s.snapshot, s.ops) = Snapshot(FoldLeft(Apply, NewDoc, log))
<1> DEFINE m == Len(log)
<1>1. PICK v \in 0 .. m, nodes \in Seq(Node) :
        /\ s = Folded(log, v, [version |-> v, nodes |-> nodes])
        /\ DistinctIds(nodes) /\ SnapshotOps(nodes) = UpTo(log, v)
  BY DEF IsStoreOf
<1> DEFINE d == IntegrateDoc(FromSnapshot(nodes), Above(log, v))
           e == Made(NewDoc, log)
<1>2. Sound(d, ToSet(log))
  <2>1. SnapshotOps(nodes) \subseteq UpTo(log, v)
    BY <1>1
  <2>2. /\ Sound(d, SnapshotOps(nodes) \cup OpsOf(Above(log, v)))
        /\ SnapshotOps(nodes) = UpTo(log, v) =>
             SnapshotOps(nodes) \cup OpsOf(Above(log, v)) = ToSet(log)
    BY <1>1, <2>1, FoldSound
  <2> QED BY <1>1, <2>2
<1>3. Fold(s.snapshot, s.ops) = Snapshot(d)
  BY <1>1 DEF Folded, Fold, IntegrateDoc
<1> HIDE DEF d
<1>4. /\ m \in Nat /\ DOMAIN log = 1 .. m /\ UpTo(log, m) = ToSet(log)
      /\ \A i \in 1 .. m : log[i] \in Op
      /\ \A n \in 0 .. m : UpTo(log, n) \subseteq ToSet(log)
  BY LogPlaces
<1>5. Sound(e, UpTo(log, m))
  <2> HIDE DEF m
  <2>1. PICK h : /\ h[0] = NewDoc /\ h[m] = e
                 /\ \A i \in 1 .. m : h[i] = Apply(h[i - 1], log[i])
    <3> DEFINE list == log
    <3>1. m \in Nat /\ DOMAIN list = 1 .. m
      BY <1>4
    <3> HIDE DEF list
    <3>2. PICK h : MadeOneByOne(h, NewDoc, list, m)
      BY <3>1, HistorySteps
    <3> QED BY <3>2 DEF list, MadeOneByOne
  <2> HIDE DEF e
  <2> DEFINE G == {i \in 0 .. m : Sound(h[i], UpTo(log, i))}
  <2>2. 0 \in G
    <3>1. 1 .. 0 = {}
      OBVIOUS
    <3>2. UpTo(log, 0) = {}
      BY <3>1 DEF UpTo
    <3>3. h[0] = NewDoc
      BY <2>1
    <3>4. Sound(h[0], UpTo(log, 0))
      BY <3>2, <3>3, EmptySound
    <3>5. 0 \in 0 .. m
      BY <1>4
    <3> QED BY <3>4, <3>5
  <2>3. ASSUME NEW i \in 1 .. m, i - 1 \in G PROVE i \in G
    <3>1. i - 1 \in 0 .. m /\ i \in 0 .. m /\ i - 1 \in Nat /\ i \in Nat /\ (i - 1) + 1 = i /\ i - 1 <= i
      BY <1>4
    <3>2. UpTo(log, i) = UpTo(log, i - 1) \cup {log[i]}
      <4>1. UpTo(log, i) = UpTo(log, i - 1) \cup {log[k] : k \in ((i - 1) + 1) .. i}
        BY <3>1, UpToMore
      <4>2. ((i - 1) + 1) .. i = {i}
        BY <3>1
      <4> QED BY <4>1, <4>2
    <3>3. UpTo(log, i) \subseteq ToSet(log) /\ ToSet(log) \subseteq Op
      BY <1>4, <3>1 DEF ToSet
    <3>4. UniqueIds(UpTo(log, i))
      BY <3>3, SubsetUnique DEF Orderly
    <3>5. Sound(h[i - 1], UpTo(log, i - 1)) /\ h[i] = Apply(h[i - 1], log[i])
      BY <2>1, <2>3
    <3>6. log[i] \in Op /\ UpTo(log, i - 1) \in SUBSET Op
      BY <1>4, <3>2, <3>3
    <3>7. Sound(Apply(h[i - 1], log[i]), UpTo(log, i - 1) \cup {log[i]})
      BY <3>2, <3>4, <3>5, <3>6, ApplySound
    <3> QED BY <3>1, <3>2, <3>5, <3>7
  <2>4. \A i \in 0 .. m : i \in G
    <3> HIDE DEF G
    <3> QED BY <1>4, <2>2, <2>3, Interval
  <2>5. m \in 0 .. m
    BY <1>4
  <2> QED BY <2>1, <2>4, <2>5
<1> HIDE DEF e
<1>6. d = e
  BY <1>2, <1>4, <1>5, SameOpsSameDocument DEF Sound
<1> QED BY <1>3, <1>6 DEF e, Made

-----------------------------------------------------------------------------
(* Joining *)

(* A welcome has nothing that was not stored. *)
LEMMA WelcomeSound ==
  ASSUME stored \in Seq(Op), IsStoreOf(store, stored), NEW since \in Nat
  PROVE  /\ Welcome(since) \in ServerMsg /\ Welcome(since).type = "welcome"
         /\ Carried(Welcome(since)) \subseteq ToSet(stored)
<1> DEFINE n == Len(stored)
           w == Welcome(since)
<1>1. PICK v \in 0 .. n, nodes \in Seq(Node) :
        /\ store = Folded(stored, v, [version |-> v, nodes |-> nodes])
        /\ SnapshotOps(nodes) \subseteq UpTo(stored, v)
  BY DEF IsStoreOf
<1>2. /\ n \in Nat /\ UpTo(stored, v) \subseteq ToSet(stored)
      /\ {stored[i] : i \in (v + 1) .. n} \subseteq ToSet(stored)
  <2>1. /\ n \in Nat /\ DOMAIN stored = 1 .. n /\ UpTo(stored, v) \subseteq ToSet(stored)
    BY LogPlaces
  <2>2. \A i \in (v + 1) .. n : i \in 1 .. n
    BY <2>1
  <2> QED BY <2>1, <2>2 DEF ToSet
<1>3. \A h : /\ Since(store, h) \in Seq(Entry)
             /\ OpsOf(Since(store, h)) \subseteq {stored[i] : i \in (v + 1) .. n}
  <2>1. store.ops = Above(stored, v)
    BY <1>1 DEF Folded
  <2> QED BY <2>1, SinceFolded
<1>4. Head1(store) \in Nat
  <2>1. store.seq = n /\ store.snapshot.version = v
    BY <1>1 DEF Folded
  <2> QED BY <1>2, <2>1 DEF Head1
<1>5. store.snapshot \in Snap /\ NoSnapshot \in Snap
  BY <1>1 DEF Folded, Snap, NoSnapshot
<1>6. /\ SnapshotOps(store.snapshot.nodes) \subseteq ToSet(stored)
      /\ SnapshotOps(NoSnapshot.nodes) \subseteq ToSet(stored)
  <2>1. store.snapshot.nodes = nodes /\ NoSnapshot.nodes = <<>>
    BY <1>1 DEF Folded, NoSnapshot
  <2> QED BY <1>1, <1>2, <2>1 DEF SnapshotOps, Range
<1>7. ASSUME NEW snapshot \in Snap, NEW h, SnapshotOps(snapshot.nodes) \subseteq ToSet(stored)
      PROVE  LET msg == WelcomeMsg(snapshot, Since(store, h), Head1(store))
             IN  /\ msg \in ServerMsg /\ msg.type = "welcome"
                 /\ Carried(msg) \subseteq ToSet(stored)
  <2> DEFINE ops == Since(store, h)
             top == Head1(store)
             msg == WelcomeMsg(snapshot, ops, top)
  <2>1. ops \in Seq(Entry) /\ OpsOf(ops) \subseteq ToSet(stored) /\ top \in Nat
    BY <1>2, <1>3, <1>4
  <2> HIDE DEF ops, top
  <2>2. msg \in ServerMsg /\ msg.type = "welcome" /\ msg.snapshot = snapshot /\ msg.ops = ops
    BY <2>1 DEF WelcomeMsg, ServerMsg
  <2> HIDE DEF msg
  <2>3. Carried(msg) \subseteq ToSet(stored)
    BY <1>7, <2>1, <2>2 DEF Carried
  <2> QED BY <2>2, <2>3 DEF msg, ops, top
<1>8. CASE since = 0
  BY <1>5, <1>6, <1>7, <1>8 DEF Welcome
<1>9. CASE since # 0
  BY <1>5, <1>6, <1>7, <1>9 DEF Welcome
<1> QED BY <1>8, <1>9

(* It brings the log from where the room left off, if nothing was folded   *)
(* since, or to a room that has nothing yet, if the snapshot has all that  *)
(* was folded.                                                             *)
LEMMA WelcomeBringsTheRest ==
  ASSUME stored \in Seq(Op), IsStoreOf(store, stored), NEW h \in 0 .. Len(stored),
         MaxCompactions = 0 \/ (h = 0 /\ CausalLog(stored))
  PROVE  Brings(h, Welcome(h), Len(stored), stored)
<1> DEFINE n == Len(stored)
           w == Welcome(h)
<1>1. PICK v \in 0 .. n, nodes \in Seq(Node) :
        /\ store = Folded(stored, v, [version |-> v, nodes |-> nodes])
        /\ MaxCompactions = 0 => v = 0
        /\ SnapshotOps(nodes) \subseteq UpTo(stored, v)
        /\ CausalLog(stored) => SnapshotOps(nodes) = UpTo(stored, v)
  BY DEF IsStoreOf
<1>2. /\ store.ops = Above(stored, v) /\ store.seq = n /\ store.snapshot.version = v
      /\ store.snapshot.nodes = nodes /\ n \in Nat /\ h \in 0 .. n
  BY <1>1, LenProperties DEF Folded
<1>3. \A a \in v .. n : Since(store, a) = Above(stored, a)
  BY <1>2, SinceFolded
<1>4. Head1(store) = n
  BY <1>2 DEF Head1
<1>5. ASSUME NEW a \in h .. n, NEW snapshot,
             w = WelcomeMsg(snapshot, Above(stored, a), n),
             SnapshotOps(snapshot.nodes) \subseteq UpTo(stored, a),
             \A s \in (h + 1) .. a : stored[s] \in SnapshotOps(snapshot.nodes)
      PROVE  Brings(h, w, n, stored)
  <2> DEFINE ops == Above(stored, a)
  <2>1. a \in 0 .. n /\ h <= n
    BY <1>2
  <2>2. Len(ops) = n - a /\ \A k \in 1 .. (n - a) : ops[k] = StoredOp(a + k, stored[a + k])
    BY <2>1, AboveEntries
  <2> HIDE DEF ops, w, n
  <2>3. w.type = "welcome" /\ w.ops = ops /\ w.head = n /\ w.snapshot = snapshot
    BY <1>5 DEF WelcomeMsg, ops
  <2>4. n = a + Len(ops) /\ \A k \in 1 .. Len(ops) : ops[k] = StoredOp(a + k, stored[a + k])
    BY <1>2, <2>2
  <2> QED BY <1>5, <2>1, <2>3, <2>4 DEF Brings
<1>6. CASE h = 0
  <2>1. w = WelcomeMsg(store.snapshot, Above(stored, v), n)
    BY <1>2, <1>3, <1>4, <1>6 DEF Welcome
  <2>2. SnapshotOps(nodes) = UpTo(stored, v)
    <3>1. CASE MaxCompactions = 0
      <4>1. v = 0 /\ 1 .. 0 = {}
        BY <1>1, <3>1
      <4>2. UpTo(stored, v) = {}
        BY <4>1 DEF UpTo
      <4> QED BY <1>1, <4>2
    <3>2. CASE MaxCompactions # 0
      BY <1>1, <3>2
    <3> QED BY <3>1, <3>2
  <2>3. \A s \in (h + 1) .. v : stored[s] \in UpTo(stored, v)
    <3>1. \A s \in (h + 1) .. v : s \in 1 .. v
      BY <1>2, <1>6
    <3> QED BY <3>1 DEF UpTo
  <2>4. v \in h .. n
    BY <1>6
  <2> HIDE DEF w, n
  <2>5. Brings(h, w, n, stored)
    BY <1>2, <1>5, <2>1, <2>2, <2>3, <2>4
  <2> QED BY <2>5 DEF w, n
<1>7. CASE h # 0
  <2>1. v = 0 /\ h \in v .. n /\ h \in h .. n
    BY <1>1, <1>2, <1>7
  <2>2. w = WelcomeMsg(NoSnapshot, Above(stored, h), n)
    BY <1>3, <1>4, <1>7, <2>1 DEF Welcome
  <2>3. SnapshotOps(NoSnapshot.nodes) = {}
    BY DEF NoSnapshot, SnapshotOps, Range
  <2>4. (h + 1) .. h = {}
    BY <1>2
  <2> HIDE DEF w, n
  <2>5. Brings(h, w, n, stored)
    BY <1>5, <2>1, <2>2, <2>3, <2>4
  <2> QED BY <2>5 DEF w, n
<1> QED BY <1>6, <1>7

-----------------------------------------------------------------------------
(* The invariant *)

Everything == UNION {issued[r] : r \in Replica}

Types ==
  /\ DOMAIN doc = Replica
  /\ head \in [Replica -> Nat]
  /\ outbox \in [Replica -> Seq(Op)] /\ connected \in [Replica -> BOOLEAN]
  /\ up \in [Replica -> Seq(ClientMsg)] /\ stale \in [Replica -> Seq(ClientMsg)]
  /\ down \in [Replica -> Seq(ServerMsg)]
  /\ room \subseteq Replica /\ issued \in [Replica -> SUBSET Op]
  /\ stored \in Seq(Op) /\ IsStoreOf(store, stored)
  /\ drops \in 0 .. MaxDrops /\ compactions \in 0 .. MaxCompactions

(* What is queued, sent or stored was issued, and what comes down was      *)
(* stored; an id names its replica, and the replica's clock has seen it.   *)
Sources ==
  /\ \A r \in Replica :
       /\ ToSet(outbox[r]) \subseteq issued[r]
       /\ \A m \in ToSet(up[r]) \cup ToSet(stale[r]) : m.type = "op" => m.op \in issued[r]
       /\ \A op \in Inserts(issued[r]) :
            op.id.replica = r /\ op.id.counter <= doc[r].counter
       /\ \A m \in ToSet(down[r]) : Carried(m) \subseteq ToSet(stored)
  /\ ToSet(stored) \subseteq Everything
  /\ Orderly(Everything)

(* A document stands for its own operations and for some of the log. *)
Documents ==
  \A r \in Replica :
    /\ Sound(doc[r], Held(doc[r]))
    /\ issued[r] \subseteq Held(doc[r]) /\ Held(doc[r]) \subseteq issued[r] \cup ToSet(stored)

(* Not joined: nothing comes down, and the join is still the first on its  *)
(* way up.                                                                 *)
Waits(open, h, ups, downs) ==
  /\ downs = <<>> /\ (~ open => ups = <<>>)
  /\ open => ups # <<>> /\ Head(ups) = JoinMsg(h)
  /\ \A i \in DOMAIN ups : i # 1 => ups[i].type = "op"

Joined(open, ups) == open /\ \A m \in ToSet(ups) : m.type = "op"

Sockets ==
  \A r \in Replica :
    IF r \in room THEN Joined(connected[r], up[r])
    ELSE Waits(connected[r], head[r], up[r], down[r])

(* In a joined room's outbox is what is on its way up, or will be          *)
(* confirmed or sent again by what is on its way down.                     *)
OnItsWay(op, ups, downs) ==
  \/ OpMsg(op) \in ToSet(ups)
  \/ \E msg \in ToSet(downs) : msg.type = "welcome" \/ msg.op.id = op.id

Pending == \A r \in room : \A op \in ToSet(outbox[r]) : OnItsWay(op, up[r], down[r])

(* No room may have missed what was folded: nothing was, or all that was   *)
(* is in the snapshot and rooms join with nothing.                         *)
Intact == MaxCompactions = 0 \/ (MaxDrops = 0 /\ CausalLog(stored))

(* Then a document is made of its own operations and the log up to its     *)
(* head,                                                                   *)
Known(r) == issued[r] \cup UpTo(stored, head[r])

Knows == \A r \in Replica : head[r] <= Len(stored) /\ Held(doc[r]) = Known(r)

(* and what comes down to a joined room is the rest of the log.            *)
Flow ==
  \A r \in Replica :
    IF r \in room THEN Continues(head[r], down[r], stored)
    ELSE MaxCompactions = 0 \/ head[r] = 0

Inv ==
  /\ Types /\ Sources /\ Documents /\ Sockets /\ Pending
  /\ Intact => Knows /\ Flow

(* Nothing is logged, issued or on its way. *)
LEMMA InitInv == Init => Inv
<1> SUFFICES ASSUME Init PROVE Inv
  OBVIOUS
<1>1. /\ <<>> \in Seq(Op) /\ <<>> \in Seq(ClientMsg) /\ <<>> \in Seq(ServerMsg)
      /\ <<>> \in Seq(Node)
      /\ Len(<<>>) = 0 /\ ToSet(<<>>) = {} /\ DOMAIN <<>> = {}
  BY EmptySeq DEF ToSet
<1>2. IsStoreOf(EmptyStore, <<>>)
  <2>1. /\ Above(<<>>, 0) \in Seq(Entry) /\ Len(Above(<<>>, 0)) = 0
    <3> DEFINE log == <<>>
    <3>1. log \in Seq(Op) /\ Len(log) = 0 /\ 0 \in 0 .. Len(log)
      BY <1>1
    <3> HIDE DEF log
    <3>2. Above(log, 0) \in Seq(Entry) /\ Len(Above(log, 0)) = Len(log) - 0
      BY <3>1, AboveEntries
    <3> QED BY <3>1, <3>2 DEF log
  <2>2. Above(<<>>, 0) = <<>>
    BY <2>1
  <2>3. EmptyStore = Folded(<<>>, 0, [version |-> 0, nodes |-> <<>>])
    BY <1>1, <2>2 DEF EmptyStore, NoSnapshot, Folded
  <2>4. UpTo(<<>>, 0) = {} /\ SnapshotOps(<<>>) = {}
    <3>1. 1 .. 0 = {}
      OBVIOUS
    <3> QED BY <3>1 DEF UpTo, SnapshotOps, Range
  <2>5. DistinctIds(<<>>) /\ 0 \in 0 .. Len(<<>>)
    BY <1>1 DEF DistinctIds
  <2> QED BY <1>1, <2>3, <2>4, <2>5 DEF IsStoreOf
<1>3. MaxDrops \in Nat /\ MaxCompactions \in Nat
  BY RelayAssumption
<1>4. Types
  BY <1>1, <1>2, <1>3 DEF Init, Types
<1>5. Everything = {} /\ Inserts({}) = {}
  BY DEF Init, Everything, Inserts
<1>6. Sources
  BY <1>1, <1>5 DEF Init, Sources, Orderly, UniqueIds
<1>7. Held(NewDoc) = {}
  BY EmptySound, HeldIsOps DEF Sound
<1>8. Documents
  BY <1>7, EmptySound DEF Init, Documents
<1>9. Sockets
  BY <1>1 DEF Init, Sockets, Waits
<1>10. Pending
  BY DEF Init, Pending
<1>11. Knows
  <2>1. \A log : UpTo(log, 0) = {}
    <3>1. 1 .. 0 = {}
      OBVIOUS
    <3> QED BY <3>1 DEF UpTo
  <2>2. ASSUME NEW r \in Replica PROVE head[r] <= Len(stored) /\ Held(doc[r]) = Known(r)
    <3>1. head[r] = 0 /\ stored = <<>> /\ issued[r] = {} /\ doc[r] = NewDoc
      BY DEF Init
    <3>2. Known(r) = {}
      BY <2>1, <3>1 DEF Known
    <3>3. Held(doc[r]) = {}
      BY <1>7, <3>1
    <3>4. head[r] <= Len(stored)
      BY <3>1
    <3> QED BY <3>2, <3>3, <3>4
  <2> QED BY <2>2 DEF Knows
<1>12. Flow
  BY DEF Init, Flow
<1> QED BY <1>4, <1>6, <1>8, <1>9, <1>10, <1>11, <1>12 DEF Inv

-----------------------------------------------------------------------------
(* Rooms *)

LEMMA IssuedIsEverything == \A r \in Replica : issued[r] \subseteq Everything
BY DEF Everything

(* What a document stands for is among what was ever issued. *)
LEMMA HeldIsEverything ==
  ASSUME Types, Sources, Documents, NEW r \in Replica
  PROVE  /\ Held(doc[r]) \in SUBSET Op /\ Held(doc[r]) \subseteq Everything
         /\ Everything \subseteq Op /\ ToSet(stored) \subseteq Everything
         /\ IsDoc(doc[r]) /\ UniqueIds(Everything)
<1>1. IsDoc(doc[r])
  BY DEF Documents, Sound
<1>2. Held(doc[r]) \in SUBSET Op
  BY <1>1, HeldAreOps
<1>3. Everything \subseteq Op
  BY DEF Types, Everything
<1>4. Held(doc[r]) \subseteq Everything
  BY IssuedIsEverything DEF Documents, Sources
<1> QED BY <1>1, <1>2, <1>3, <1>4 DEF Sources, Orderly

(* Steps that leave the documents and the log alone. *)
LEMMA SameHistory ==
  ASSUME doc' = doc, head' = head, issued' = issued, stored' = stored
  PROVE  /\ Everything' = Everything
         /\ Documents => Documents'
         /\ Intact' <=> Intact
         /\ Knows => Knows'
<1>1. Everything' = Everything
  BY DEF Everything
<1>2. Documents => Documents'
  BY DEF Documents
<1>3. Intact' <=> Intact
  BY DEF Intact
<1>4. Knows => Knows'
  BY DEF Knows, Known
<1> QED BY <1>1, <1>2, <1>3, <1>4

(* Sent, to one room. *)
LEMMA SentElements ==
  ASSUME Types, NEW r \in Replica, NEW msgs \in Seq(ClientMsg)
  PROVE  LET new == Sent(r, msgs) IN
         /\ new \in [Replica -> Seq(ClientMsg)]
         /\ \A s \in Replica : s # r => new[s] = up[s]
         /\ connected[r] => /\ new[r] = up[r] \o msgs
                            /\ ToSet(new[r]) = ToSet(up[r]) \cup ToSet(msgs)
         /\ ~ connected[r] => new[r] = up[r]
<1>1. up \in [Replica -> Seq(ClientMsg)]
  BY DEF Types
<1>2. up[r] \o msgs \in Seq(ClientMsg) /\ ToSet(up[r] \o msgs) = ToSet(up[r]) \cup ToSet(msgs)
  BY <1>1, ConcatElements
<1> QED BY <1>1, <1>2 DEF Sent

(* A local edit: the document has the operation, and it waits in the       *)
(* outbox and, once there is a socket, on its way up.                      *)
LEMMA EditKeepsInv ==
  ASSUME Inv, NEW r \in Replica, NEW d, NEW op \in Op, AfterLocal(r, d, op),
         Sound(Apply(d, op), Held(doc[r]) \cup {op}),
         Apply(d, op).counter >= doc[r].counter,
         op.type = "insert" =>
           /\ op.id.replica = r /\ op.id.counter <= Apply(d, op).counter
           /\ op.id.counter > op.parent.counter
           /\ \A o \in Inserts(Everything) : o.id # op.id
  PROVE  Inv'
<1> DEFINE new == Apply(d, op)
<1>1. /\ Types /\ Sources /\ Documents /\ Sockets /\ Pending /\ (Intact => Knows /\ Flow)
      /\ DOMAIN doc = Replica /\ outbox \in [Replica -> Seq(Op)]
      /\ issued \in [Replica -> SUBSET Op] /\ outbox[r] \in Seq(Op)
      /\ up \in [Replica -> Seq(ClientMsg)]
  BY DEF Inv, Types
<1>2. /\ doc' = [doc EXCEPT ![r] = new]
      /\ outbox' = [outbox EXCEPT ![r] = Put(@, op)]
      /\ up' = Sent(r, <<OpMsg(op)>>)
      /\ issued' = [issued EXCEPT ![r] = @ \cup {op}]
      /\ head' = head /\ connected' = connected /\ down' = down /\ stale' = stale
      /\ room' = room /\ store' = store /\ stored' = stored
      /\ drops' = drops /\ compactions' = compactions
  BY DEF AfterLocal, bounds
<1> HIDE DEF new
<1>3. \A s \in Replica :
        /\ doc'[s] = IF s = r THEN new ELSE doc[s]
        /\ outbox'[s] = IF s = r THEN Put(outbox[r], op) ELSE outbox[s]
        /\ issued'[s] = IF s = r THEN issued[r] \cup {op} ELSE issued[s]
  BY <1>1, <1>2
<1>4. OpMsg(op) \in ClientMsg /\ <<OpMsg(op)>> \in Seq(ClientMsg)
      /\ OpMsg(op).type = "op" /\ OpMsg(op).op = op
      /\ ToSet(<<OpMsg(op)>>) = {OpMsg(op)}
  <2>1. OpMsg(op) \in ClientMsg /\ OpMsg(op).type = "op" /\ OpMsg(op).op = op
    BY DEF OpMsg, ClientMsg
  <2> DEFINE m == OpMsg(op)
  <2> HIDE DEF m
  <2>2. <<m>> \in Seq(ClientMsg)
    BY <2>1 DEF m
  <2>3. ToSet(<<m>>) = {m}
    BY DEF ToSet
  <2> QED BY <2>1, <2>2, <2>3 DEF m
<1>5. /\ up' \in [Replica -> Seq(ClientMsg)]
      /\ \A s \in Replica : s # r => up'[s] = up[s]
      /\ connected[r] => /\ up'[r] = up[r] \o <<OpMsg(op)>>
                         /\ ToSet(up'[r]) = ToSet(up[r]) \cup {OpMsg(op)}
      /\ ~ connected[r] => up'[r] = up[r]
  <2> DEFINE msgs == <<OpMsg(op)>>
             sent == Sent(r, msgs)
  <2>1. msgs \in Seq(ClientMsg) /\ ToSet(msgs) = {OpMsg(op)} /\ up' = sent
    BY <1>2, <1>4
  <2> HIDE DEF msgs
  <2>2. /\ sent \in [Replica -> Seq(ClientMsg)]
        /\ \A s \in Replica : s # r => sent[s] = up[s]
        /\ connected[r] => /\ sent[r] = up[r] \o msgs
                           /\ ToSet(sent[r]) = ToSet(up[r]) \cup ToSet(msgs)
        /\ ~ connected[r] => sent[r] = up[r]
    BY <1>1, <2>1, SentElements
  <2> HIDE DEF sent
  <2>3. up'[r] = sent[r] /\ \A s \in Replica : up'[s] = sent[s]
    BY <2>1
  <2>4. up' \in [Replica -> Seq(ClientMsg)] /\ \A s \in Replica : s # r => up'[s] = up[s]
    BY <2>1, <2>2
  <2>5. ~ connected[r] => up'[r] = up[r]
    BY <2>2, <2>3
  <2>6. connected[r] => ToSet(up'[r]) = ToSet(up[r]) \cup {OpMsg(op)}
    BY <2>1, <2>2, <2>3
  <2>7. connected[r] => up'[r] = up[r] \o msgs
    BY <2>2, <2>3
  <2> QED BY <2>4, <2>5, <2>6, <2>7 DEF msgs
<1>6. /\ Put(outbox[r], op) \in Seq(Op)
      /\ ToSet(Put(outbox[r], op)) \subseteq ToSet(outbox[r]) \cup {op}
  BY <1>1, PutElements
<1>7. Types'
  <2>1. outbox' \in [Replica -> Seq(Op)] /\ issued' \in [Replica -> SUBSET Op]
        /\ DOMAIN doc' = Replica
    BY <1>1, <1>2, <1>6
  <2> QED BY <1>1, <1>2, <1>5, <2>1 DEF Types
<1>8. Everything' = Everything \cup {op}
  <2>1. \A s \in Replica : issued'[s] \subseteq Everything \cup {op} /\ issued[s] \subseteq issued'[s]
    BY <1>3 DEF Everything
  <2>2. op \in issued'[r]
    BY <1>3
  <2> QED BY <2>1, <2>2 DEF Everything
<1>9. Sources'
  <2>1. Orderly(Everything)'
    <3>1. \A o \in Inserts(Everything') : o \in Inserts(Everything) \/ (o = op /\ op.type = "insert")
      BY <1>8 DEF Inserts
    <3>2. Orderly(Everything)
      BY <1>1 DEF Sources
    <3>3. Orderly(Everything')
      BY <3>1, <3>2 DEF Orderly, UniqueIds
    <3> QED BY <3>3
  <2>2. (ToSet(stored) \subseteq Everything)'
    BY <1>1, <1>2, <1>8 DEF Sources
  <2>3. ASSUME NEW s \in Replica
        PROVE  /\ ToSet(outbox'[s]) \subseteq issued'[s]
               /\ \A m \in ToSet(up'[s]) \cup ToSet(stale'[s]) : m.type = "op" => m.op \in issued'[s]
               /\ \A o \in Inserts(issued'[s]) :
                    o.id.replica = s /\ o.id.counter <= doc'[s].counter
               /\ \A m \in ToSet(down'[s]) : Carried(m) \subseteq ToSet(stored')
    <3>1. /\ ToSet(outbox[s]) \subseteq issued[s]
          /\ \A m \in ToSet(up[s]) \cup ToSet(stale[s]) : m.type = "op" => m.op \in issued[s]
          /\ \A o \in Inserts(issued[s]) : o.id.replica = s /\ o.id.counter <= doc[s].counter
          /\ \A m \in ToSet(down[s]) : Carried(m) \subseteq ToSet(stored)
      BY <1>1 DEF Sources
    <3>2. CASE s # r
      BY <1>2, <1>3, <1>5, <3>1, <3>2
    <3>3. CASE s = r
      <4>1. ToSet(outbox'[s]) \subseteq issued'[s]
        BY <1>3, <1>6, <3>1, <3>3
      <4>2. \A m \in ToSet(up'[s]) \cup ToSet(stale'[s]) : m.type = "op" => m.op \in issued'[s]
        BY <1>2, <1>3, <1>4, <1>5, <3>1, <3>3
      <4>3. \A o \in Inserts(issued'[s]) : o \in Inserts(issued[s]) \/ (o = op /\ op.type = "insert")
        BY <1>3, <3>3 DEF Inserts
      <4>4. \A o \in Inserts(issued[s]) : o.id.counter \in Nat
        <5>1. issued[s] \subseteq Op
          BY <1>1
        <5> QED BY <5>1, OpsAreRecords, IdsAreRecords DEF Inserts
      <4>5. new.counter \in Nat /\ doc[s].counter \in Nat
        BY <1>1 DEF Sound, IsDoc, Documents, new
      <4>6. doc'[s] = new /\ new.counter >= doc[s].counter
        BY <1>3, <3>3 DEF new
      <4>7. \A o \in Inserts(issued'[s]) : o.id.replica = s /\ o.id.counter <= doc'[s].counter
        BY <3>1, <3>3, <4>3, <4>4, <4>5, <4>6 DEF new
      <4> QED BY <1>2, <3>1, <4>1, <4>2, <4>7
    <3> QED BY <3>2, <3>3
  <2> QED BY <2>1, <2>2, <2>3 DEF Sources
<1>10. Held(new) = Held(doc[r]) \cup {op}
  <2>1. Held(doc[r]) \in SUBSET Op
    BY <1>1, HeldIsEverything
  <2>2. Held(doc[r]) \cup {op} \in SUBSET Op /\ Mirrors(new, Held(doc[r]) \cup {op})
    BY <2>1 DEF Sound, new
  <2> QED BY <2>2, HeldIsOps
<1>11. Documents'
  <2>1. ASSUME NEW s \in Replica
        PROVE  /\ Sound(doc'[s], Held(doc'[s]))
               /\ issued'[s] \subseteq Held(doc'[s])
               /\ Held(doc'[s]) \subseteq issued'[s] \cup ToSet(stored')
    <3>1. CASE s # r
      BY <1>1, <1>2, <1>3, <3>1 DEF Documents
    <3>2. CASE s = r
      <4>1. Sound(new, Held(new))
        BY <1>10 DEF new
      <4> QED BY <1>1, <1>2, <1>3, <1>10, <3>2, <4>1 DEF Documents
    <3> QED BY <3>1, <3>2
  <2> QED BY <2>1 DEF Documents
<1>12. Sockets'
  <2>1. ASSUME NEW s \in Replica, up'[s] = up[s]
        PROVE  IF s \in room THEN Joined(connected[s], up'[s])
               ELSE Waits(connected[s], head[s], up'[s], down[s])
    BY <1>1, <2>1 DEF Sockets
  <2>2. ASSUME connected[r], r \in room
        PROVE  Joined(connected[r], up'[r])
    BY <1>1, <1>4, <1>5, <2>2 DEF Sockets, Joined
  <2>3. ASSUME connected[r], r \notin room
        PROVE  Waits(connected[r], head[r], up'[r], down[r])
    <3> DEFINE q == up[r]
               m == OpMsg(op)
    <3>1. /\ q \in Seq(ClientMsg) /\ q # <<>> /\ Head(q) = JoinMsg(head[r]) /\ down[r] = <<>>
          /\ \A i \in DOMAIN q : i # 1 => q[i].type = "op"
      BY <1>1, <2>3 DEF Sockets, Waits
    <3>2. m \in ClientMsg /\ m.type = "op" /\ up'[r] = q \o <<m>>
      BY <1>4, <1>5, <2>3
    <3> HIDE DEF q, m
    <3>3. q \o <<m>> = Append(q, m)
      BY <3>1, <3>2, AppendIsConcat
    <3>4. /\ DOMAIN Append(q, m) = DOMAIN q \cup {Len(q) + 1}
          /\ (\A i \in DOMAIN q : Append(q, m)[i] = q[i]) /\ Append(q, m)[Len(q) + 1] = m
      BY <3>1, <3>2, AppendElements
    <3>5. \A i \in DOMAIN Append(q, m) : i # 1 => Append(q, m)[i].type = "op"
      BY <3>1, <3>2, <3>4
    <3>6. <<m>> \in Seq(ClientMsg)
      BY <3>2
    <3>7. q \o <<m>> # <<>> /\ Head(q \o <<m>>) = Head(q)
      BY <3>1, <3>6, ConcatElements
    <3> QED BY <2>3, <3>1, <3>2, <3>3, <3>5, <3>7 DEF Waits
  <2>4. ASSUME NEW s \in Replica
        PROVE  IF s \in room' THEN Joined(connected'[s], up'[s])
               ELSE Waits(connected'[s], head'[s], up'[s], down'[s])
    <3>1. s # r \/ ~ connected[r] => up'[s] = up[s]
      BY <1>5
    <3> QED BY <1>2, <2>1, <2>2, <2>3, <3>1
  <2> QED BY <2>4 DEF Sockets
<1>13. Pending'
  <2>1. ASSUME NEW s \in room, NEW o \in ToSet(outbox'[s]) PROVE OnItsWay(o, up'[s], down'[s])
    <3>0. s \in Replica /\ connected[s]
      BY <1>1, <2>1 DEF Types, Sockets, Joined
    <3>1. CASE s # r
      <4>1. outbox'[s] = outbox[s] /\ up'[s] = up[s] /\ down'[s] = down[s]
        BY <1>2, <1>3, <1>5, <3>0, <3>1
      <4>2. OnItsWay(o, up[s], down[s])
        BY <1>1, <2>1, <4>1 DEF Pending
      <4> QED BY <4>1, <4>2
    <3>2. CASE s = r
      <4>1. ToSet(up'[s]) = ToSet(up[s]) \cup {OpMsg(op)} /\ down'[s] = down[s]
        BY <1>2, <1>5, <3>0, <3>2
      <4>2. o = op \/ o \in ToSet(outbox[s])
        BY <1>3, <1>6, <2>1, <3>2
      <4>3. o = op \/ OnItsWay(o, up[s], down[s])
        BY <1>1, <2>1, <4>2 DEF Pending
      <4> QED BY <4>1, <4>3 DEF OnItsWay
    <3> QED BY <3>1, <3>2
  <2>2. ASSUME NEW s \in room', NEW o \in ToSet(outbox'[s]) PROVE OnItsWay(o, up'[s], down'[s])
    BY <1>2, <2>1, <2>2
  <2> QED BY <2>2 DEF Pending, OnItsWay
<1>14. ASSUME Intact' PROVE Knows' /\ Flow'
  <2>1. Intact /\ Knows /\ Flow
    BY <1>1, <1>2, <1>14 DEF Intact
  <2>2. Knows'
    <3>1. ASSUME NEW s \in Replica
          PROVE  head'[s] <= Len(stored') /\ Held(doc'[s]) = issued'[s] \cup UpTo(stored', head'[s])
      BY <1>2, <1>3, <1>10, <2>1 DEF Knows, Known
    <3> QED BY <3>1 DEF Knows, Known
  <2>3. Flow'
    BY <1>2, <2>1 DEF Flow
  <2> QED BY <2>2, <2>3
<1> QED BY <1>7, <1>9, <1>11, <1>12, <1>13, <1>14 DEF Inv

(* An insert: a new id, under an element that is there. *)
LEMMA InsertKeepsInv ==
  ASSUME Inv, NEW r \in Replica, Insert(r)
  PROVE  Inv'
<1>1. PICK parent \in {ROOT} \cup VisibleIds(doc[r]) :
        AfterLocal(r, Tick(doc[r]), InsertAfter(doc[r], r, parent))
  BY DEF Insert
<1> DEFINE d  == Tick(doc[r])
           op == InsertAfter(doc[r], r, parent)
<1>2. /\ Types /\ Sources /\ Documents /\ IsDoc(doc[r]) /\ BucketsSorted(doc[r])
      /\ ClockIsLargestSeen(doc[r]) /\ Mirrors(doc[r], Held(doc[r]))
  BY DEF Inv, Documents, Sound
<1>3. /\ IsDoc(d) /\ d.counter = doc[r].counter + 1 /\ d.nodes = doc[r].nodes
      /\ d.children = doc[r].children /\ d.tombstones = doc[r].tombstones
  BY <1>2, TickEffect
<1>4. doc[r].counter \in Nat /\ DOMAIN doc[r].nodes \subseteq Id
  BY <1>2 DEF IsDoc
<1>5. VisibleIds(doc[r]) \subseteq DOMAIN doc[r].nodes
  BY DEF VisibleIds
<1>6. /\ op \in Op /\ op.type = "insert" /\ op.id.replica = r
      /\ op.id.counter = doc[r].counter + 1 /\ op.parent = parent
  <2>1. [counter |-> doc[r].counter + 1, replica |-> r] \in Id
    BY <1>4 DEF Id
  <2>2. parent \in Id \cup {ROOT}
    BY <1>4, <1>5
  <2> QED BY <1>3, <2>1, <2>2 DEF InsertAfter, Op, InsertOp
<1> HIDE DEF d, op
<1>7. \A o \in Inserts(Everything) : o.id # op.id
  <2> TAKE o \in Inserts(Everything)
  <2>1. PICK s \in Replica : o \in Inserts(issued[s])
    BY DEF Inserts, Everything
  <2>2. o \in Op /\ o.type = "insert"
    BY <1>2, <2>1 DEF Inserts, Types
  <2>3. o.id.counter \in Nat
    BY <2>2, OpsAreRecords, IdsAreRecords
  <2>4. o.id.replica = s /\ o.id.counter <= doc[s].counter
    BY <1>2, <2>1 DEF Sources
  <2> QED BY <1>4, <1>6, <2>3, <2>4
<1>8. Held(doc[r]) \in SUBSET Op /\ Held(doc[r]) \subseteq Everything
  BY <1>2, HeldIsEverything
<1>9. \A o \in Inserts(Held(doc[r])) : o.id # op.id
  BY <1>7, <1>8 DEF Inserts
<1>10. Mirrors(d, Held(doc[r])) /\ BucketsSorted(d)
  BY <1>2, <1>3 DEF Mirrors, BucketsSorted
<1>11. op.id \notin DOMAIN d.nodes /\ op.id.counter = d.counter
       /\ \A id \in DOMAIN d.nodes : id.counter <= d.counter
  <2>1. op.id \notin DOMAIN d.nodes
    BY <1>9, <1>10 DEF Mirrors, InsertedIds
  <2>2. \A id \in DOMAIN d.nodes : id.counter \in Nat /\ id.counter <= doc[r].counter
    BY <1>2, <1>3, <1>4, IdsAreRecords DEF ClockIsLargestSeen
  <2> QED BY <1>3, <1>4, <1>6, <2>1, <2>2
<1>12. Sound(Apply(d, op), Held(doc[r]) \cup {op})
  <2>1. IsDoc(Apply(d, op)) /\ BucketsSorted(Apply(d, op))
    BY <1>3, <1>6, <1>10, ApplyIsDoc
  <2>2. Mirrors(Apply(d, op), Held(doc[r]) \cup {op})
    BY <1>3, <1>6, <1>8, <1>9, <1>10, ApplyMirrors
  <2>3. ClockIsLargestSeen(Apply(d, op))
    BY <1>3, <1>6, <1>11, ApplyKeepsClock
  <2> QED BY <2>1, <2>2, <2>3 DEF Sound
<1>13. Apply(d, op).counter >= doc[r].counter /\ op.id.counter <= Apply(d, op).counter
  <2>1. Apply(d, op).counter >= d.counter
    BY <1>3, <1>6, ApplyClock
  <2>2. Apply(d, op).counter \in Nat
    BY <1>12 DEF Sound, IsDoc
  <2> QED BY <1>3, <1>4, <1>6, <2>1, <2>2
<1>14. op.id.counter > op.parent.counter
  <2>1. CASE parent = ROOT
    <3>1. ROOT.counter = 0
      BY DEF ROOT
    <3> QED BY <1>4, <1>6, <2>1, <3>1
  <2>2. CASE parent # ROOT
    <3>1. parent \in DOMAIN d.nodes /\ parent \in Id
      BY <1>3, <1>4, <1>5, <2>2
    <3>2. parent.counter \in Nat /\ parent.counter <= doc[r].counter
      BY <1>2, <1>3, <3>1, IdsAreRecords DEF ClockIsLargestSeen
    <3> QED BY <1>4, <1>6, <3>2
  <2> QED BY <2>1, <2>2
<1>15. AfterLocal(r, d, op)
  BY <1>1 DEF d, op
<1> QED BY <1>6, <1>7, <1>12, <1>13, <1>14, <1>15, EditKeepsInv

(* A delete of a visible element. *)
LEMMA DeleteKeepsInv ==
  ASSUME Inv, NEW r \in Replica, Delete(r)
  PROVE  Inv'
<1>1. PICK id \in VisibleIds(doc[r]) : AfterLocal(r, doc[r], DeleteOf(id))
  BY DEF Delete
<1> DEFINE d  == doc[r]
           op == DeleteOf(id)
<1>2. Types /\ Sources /\ Documents /\ Sound(d, Held(doc[r])) /\ IsDoc(d)
  BY DEF Inv, Documents, Sound
<1>3. op \in Op /\ op.type # "insert"
  <2>1. id \in Id
    BY <1>2 DEF VisibleIds, IsDoc
  <2> QED BY <2>1 DEF DeleteOf, Op, DeleteOp
<1> HIDE DEF d, op
<1>4. Held(doc[r]) \in SUBSET Op /\ Held(doc[r]) \subseteq Everything
  BY <1>2, HeldIsEverything
<1>5. UniqueIds(Held(doc[r]) \cup {op})
  <2>1. Inserts(Held(doc[r]) \cup {op}) \subseteq Inserts(Everything)
    BY <1>3, <1>4 DEF Inserts
  <2>2. UniqueIds(Everything)
    BY <1>2 DEF Sources, Orderly
  <2> QED BY <2>1, <2>2 DEF UniqueIds
<1>6. /\ Sound(Apply(d, op), Held(doc[r]) \cup {op})
      /\ Apply(d, op).counter >= d.counter
  BY <1>2, <1>3, <1>4, <1>5, ApplySound
<1>7. AfterLocal(r, d, op) /\ Apply(d, op).counter >= doc[r].counter
  BY <1>1, <1>6 DEF d, op
<1> QED BY <1>3, <1>6, <1>7, EditKeepsInv

(* The socket opens: only the join is on its way. *)
LEMMA OpenKeepsInv ==
  ASSUME Inv, NEW r \in Replica, Open(r)
  PROVE  Inv'
<1>1. Types /\ Sources /\ Documents /\ Sockets /\ Pending /\ (Intact => Knows /\ Flow)
  BY DEF Inv
<1> DEFINE q == <<JoinMsg(head[r])>>
<1>2. /\ connected' = [connected EXCEPT ![r] = TRUE] /\ up' = [up EXCEPT ![r] = q]
      /\ ~ connected[r] /\ UNCHANGED <<doc, head, outbox, down, stale, room, store, issued, stored>>
      /\ drops' = drops /\ compactions' = compactions
  BY DEF Open, bounds
<1>3. /\ q \in Seq(ClientMsg) /\ q # <<>> /\ Head(q) = JoinMsg(head[r])
      /\ (\A i \in DOMAIN q : i = 1) /\ \A m \in ToSet(q) : m.type # "op"
  <2> DEFINE m == JoinMsg(head[r])
  <2>1. m \in ClientMsg /\ m.type = "join"
    BY <1>1 DEF JoinMsg, ClientMsg, Types
  <2> HIDE DEF m
  <2>2. <<m>> \in Seq(ClientMsg)
    BY <2>1
  <2>3. <<m>> # <<>> /\ Head(<<m>>) = m /\ (\A i \in DOMAIN <<m>> : i = 1) /\ ToSet(<<m>>) = {m}
    BY DEF ToSet
  <2> QED BY <2>1, <2>2, <2>3 DEF m
<1> HIDE DEF q
<1>4. r \notin room
  BY <1>1, <1>2 DEF Sockets, Joined
<1>5. \A s \in Replica : s # r => up'[s] = up[s] /\ connected'[s] = connected[s]
  BY <1>1, <1>2 DEF Types
<1>6. up'[r] = q /\ connected'[r] = TRUE
  BY <1>1, <1>2 DEF Types
<1>7. Everything' = Everything /\ Documents' /\ (Intact' <=> Intact) /\ (Knows => Knows')
  BY <1>1, <1>2, SameHistory
<1>8. Types'
  <2>1. up' \in [Replica -> Seq(ClientMsg)] /\ connected' \in [Replica -> BOOLEAN]
    BY <1>1, <1>2, <1>3 DEF Types
  <2> QED BY <1>1, <1>2, <2>1 DEF Types
<1>9. Sources'
  <2>1. \A s \in Replica : \A m \in ToSet(up'[s]) : m.type = "op" => m.op \in issued[s]
    BY <1>1, <1>3, <1>5, <1>6 DEF Sources
  <2>2. Orderly(Everything)'
    BY <1>1, <1>7 DEF Sources
  <2> QED BY <1>1, <1>2, <1>7, <2>1, <2>2 DEF Sources
<1>10. Sockets'
  <2>1. Waits(connected'[r], head[r], up'[r], down[r])
    BY <1>1, <1>3, <1>4, <1>6 DEF Sockets, Waits
  <2>2. ASSUME NEW s \in Replica
        PROVE  IF s \in room' THEN Joined(connected'[s], up'[s])
               ELSE Waits(connected'[s], head'[s], up'[s], down'[s])
    BY <1>1, <1>2, <1>4, <1>5, <2>1 DEF Sockets
  <2> QED BY <2>2 DEF Sockets
<1>11. Pending'
  <2>1. ASSUME NEW s \in room', NEW o \in ToSet(outbox'[s]) PROVE OnItsWay(o, up'[s], down'[s])
    BY <1>1, <1>2, <1>4, <1>5, <2>1 DEF Pending, Types
  <2> QED BY <2>1 DEF Pending
<1>12. Flow => Flow'
  BY <1>2 DEF Flow
<1> QED BY <1>1, <1>7, <1>8, <1>9, <1>10, <1>11, <1>12 DEF Inv

(* The socket breaks. *)
LEMMA DropKeepsInv ==
  ASSUME Inv, NEW r \in Replica, Drop(r)
  PROVE  Inv'
<1>1. Types /\ Sources /\ Documents /\ Sockets /\ Pending /\ (Intact => Knows /\ Flow)
  BY DEF Inv
<1>2. PICK k \in 0 .. Len(up[r]) : stale' = [stale EXCEPT ![r] = SubSeq(up[r], 1, k)]
  BY DEF Drop
<1> DEFINE q == SubSeq(up[r], 1, k)
<1>3. /\ connected' = [connected EXCEPT ![r] = FALSE] /\ up' = [up EXCEPT ![r] = <<>>]
      /\ down' = [down EXCEPT ![r] = <<>>] /\ room' = room \ {r} /\ drops' = drops + 1
      /\ drops < MaxDrops /\ stale' = [stale EXCEPT ![r] = q]
      /\ UNCHANGED <<doc, head, outbox, store, issued, stored, compactions>>
  BY <1>2 DEF Drop
<1>4. q \in Seq(ClientMsg) /\ ToSet(q) \subseteq ToSet(up[r])
  BY <1>1, PrefixElements DEF Types
<1> HIDE DEF q
<1>5. \A s \in Replica :
        s # r => /\ up'[s] = up[s] /\ connected'[s] = connected[s] /\ down'[s] = down[s]
                 /\ stale'[s] = stale[s]
  BY <1>1, <1>3 DEF Types
<1>6. up'[r] = <<>> /\ connected'[r] = FALSE /\ down'[r] = <<>> /\ stale'[r] = q
  BY <1>1, <1>3 DEF Types
<1>7. Everything' = Everything /\ Documents' /\ (Intact' <=> Intact) /\ (Knows => Knows')
  BY <1>1, <1>3, SameHistory
<1>8. Types'
  <2>1. /\ up' \in [Replica -> Seq(ClientMsg)] /\ connected' \in [Replica -> BOOLEAN]
        /\ down' \in [Replica -> Seq(ServerMsg)] /\ stale' \in [Replica -> Seq(ClientMsg)]
        /\ room' \subseteq Replica
    BY <1>1, <1>3, <1>4 DEF Types
  <2>2. drops' \in 0 .. MaxDrops
    BY <1>1, <1>3, RelayAssumption DEF Types
  <2> QED BY <1>1, <1>3, <2>1, <2>2 DEF Types
<1>9. Sources'
  <2>1. ToSet(<<>>) = {}
    BY DEF ToSet
  <2>2. \A s \in Replica : \A m \in ToSet(up'[s]) \cup ToSet(stale'[s]) :
          m.type = "op" => m.op \in issued[s]
    BY <1>1, <1>4, <1>5, <1>6, <2>1 DEF Sources
  <2>3. \A s \in Replica : \A m \in ToSet(down'[s]) : Carried(m) \subseteq ToSet(stored)
    BY <1>1, <1>5, <1>6, <2>1 DEF Sources
  <2>4. Orderly(Everything)'
    BY <1>1, <1>7 DEF Sources
  <2> QED BY <1>1, <1>3, <1>7, <2>2, <2>3, <2>4 DEF Sources
<1>10. Sockets'
  <2>1. Waits(connected'[r], head'[r], up'[r], down'[r])
    BY <1>6 DEF Waits
  <2>2. ASSUME NEW s \in Replica
        PROVE  IF s \in room' THEN Joined(connected'[s], up'[s])
               ELSE Waits(connected'[s], head'[s], up'[s], down'[s])
    BY <1>1, <1>3, <1>5, <2>1 DEF Sockets
  <2> QED BY <2>2 DEF Sockets
<1>11. Pending'
  <2>1. ASSUME NEW s \in room', NEW o \in ToSet(outbox'[s]) PROVE OnItsWay(o, up'[s], down'[s])
    BY <1>1, <1>3, <1>5, <2>1 DEF Pending, Types
  <2> QED BY <2>1 DEF Pending
<1>12. Intact /\ Flow => Flow'
  <2> SUFFICES ASSUME Intact, Flow PROVE Flow'
    OBVIOUS
  <2>1. MaxCompactions = 0
    <3>1. MaxDrops # 0
      BY <1>1, <1>3 DEF Types
    <3> QED BY <3>1 DEF Intact
  <2>2. ASSUME NEW s \in Replica, s \in room'
        PROVE  Continues(head'[s], down'[s], stored')
    BY <1>3, <1>5, <2>2 DEF Flow
  <2> QED BY <2>1, <2>2 DEF Flow
<1> QED BY <1>1, <1>7, <1>8, <1>9, <1>10, <1>11, <1>12 DEF Inv

-----------------------------------------------------------------------------
(* The server *)

(* A join: the socket is in the room, and the rest of the log on its way. *)
LEMMA JoinKeepsInv ==
  ASSUME Inv, NEW r \in Replica, OnJoin(r)
  PROVE  Inv'
<1> DEFINE q == up[r]
           w == Welcome(head[r])
<1>1. Types /\ Sources /\ Documents /\ Sockets /\ Pending /\ (Intact => Knows /\ Flow)
  BY DEF Inv
<1>2. q \in Seq(ClientMsg) /\ q # <<>> /\ Head(q).type = "join" /\ Head(q) \in ToSet(q)
      /\ Head(q) = q[1]
  <2>1. q \in Seq(ClientMsg) /\ q # <<>> /\ Head(q).type = "join"
    BY <1>1 DEF OnJoin, Types
  <2> HIDE DEF q
  <2> QED BY <2>1, TailElements
<1>3. r \notin room
  <2> SUFFICES ASSUME r \in room PROVE FALSE
    OBVIOUS
  <2>1. Head(q).type = "op"
    BY <1>1, <1>2 DEF Sockets, Joined
  <2> QED BY <1>2, <2>1
<1>4. /\ connected[r] /\ Head(q) = JoinMsg(head[r]) /\ down[r] = <<>>
      /\ \A i \in DOMAIN q : i # 1 => q[i].type = "op"
  <2>1. Waits(connected[r], head[r], up[r], down[r])
    BY <1>1, <1>3 DEF Sockets
  <2>2. connected[r]
    BY <1>2, <2>1, <1>1 DEF Waits, Types
  <2> QED BY <2>1, <2>2 DEF Waits
<1>5. Head(q).since = head[r]
  BY <1>4 DEF JoinMsg
<1>6. /\ room' = room \cup {r} /\ down' = [down EXCEPT ![r] = Append(@, w)]
      /\ up' = [up EXCEPT ![r] = Tail(q)]
      /\ UNCHANGED <<doc, head, outbox, connected, stale, store, issued, stored>>
      /\ drops' = drops /\ compactions' = compactions
  BY <1>5 DEF OnJoin, rooms, bounds
<1>7. head[r] \in Nat /\ stored \in Seq(Op) /\ IsStoreOf(store, stored)
  BY <1>1 DEF Types
<1>8. w \in ServerMsg /\ w.type = "welcome" /\ Carried(w) \subseteq ToSet(stored)
  BY <1>7, WelcomeSound
<1>9. ASSUME Intact, Knows, Flow PROVE Continues(head[r], <<w>>, stored)
  <2>1. head[r] \in 0 .. Len(stored)
    BY <1>7, <1>9, LenProperties DEF Knows
  <2>2. MaxCompactions = 0 \/ (head[r] = 0 /\ CausalLog(stored))
    BY <1>3, <1>9 DEF Intact, Flow
  <2>3. Brings(head[r], w, Len(stored), stored)
    BY <1>7, <2>1, <2>2, WelcomeBringsTheRest
  <2> QED BY <1>7, <2>1, <2>3, WelcomeContinues
<1> HIDE DEF q, w
<1>10. Tail(q) \in Seq(ClientMsg) /\ ToSet(q) = {Head(q)} \cup ToSet(Tail(q))
      /\ \A m \in ToSet(Tail(q)) : m.type = "op"
  <2>1. /\ Tail(q) \in Seq(ClientMsg) /\ ToSet(q) = {Head(q)} \cup ToSet(Tail(q))
        /\ \A i \in DOMAIN Tail(q) : i + 1 \in DOMAIN q /\ Tail(q)[i] = q[i + 1]
    BY <1>2, TailElements
  <2>2. \A i \in DOMAIN Tail(q) : Tail(q)[i].type = "op"
    <3> TAKE i \in DOMAIN Tail(q)
    <3>1. i \in Nat \ {0}
      BY <2>1, LenProperties
    <3>2. i + 1 \in DOMAIN q /\ i + 1 # 1
      BY <2>1, <3>1
    <3> QED BY <1>4, <2>1, <3>2
  <2> QED BY <2>1, <2>2 DEF ToSet
<1>11. Append(down[r], w) = <<w>>
  BY <1>4
<1>12. <<w>> \in Seq(ServerMsg) /\ ToSet(<<w>>) = {w}
  BY <1>8 DEF ToSet
<1>13. /\ down'[r] = <<w>> /\ up'[r] = Tail(q)
       /\ \A s \in Replica : s # r => up'[s] = up[s] /\ down'[s] = down[s]
  BY <1>1, <1>6, <1>11 DEF Types
<1>14. Everything' = Everything /\ Documents' /\ (Intact' <=> Intact) /\ (Knows => Knows')
  BY <1>1, <1>6, SameHistory
<1>15. Types'
  <2>1. up' \in [Replica -> Seq(ClientMsg)] /\ down' \in [Replica -> Seq(ServerMsg)]
    BY <1>1, <1>6, <1>10, <1>11, <1>12 DEF Types
  <2> QED BY <1>1, <1>6, <2>1 DEF Types
<1>16. Sources'
  <2>1. \A s \in Replica : \A m \in ToSet(up'[s]) : m.type = "op" => m.op \in issued[s]
    BY <1>1, <1>10, <1>13 DEF Sources, q
  <2>2. \A s \in Replica : \A m \in ToSet(down'[s]) : Carried(m) \subseteq ToSet(stored)
    BY <1>1, <1>8, <1>12, <1>13 DEF Sources
  <2>3. Orderly(Everything)'
    BY <1>1, <1>14 DEF Sources
  <2> QED BY <1>1, <1>6, <1>14, <2>1, <2>2, <2>3 DEF Sources
<1>17. Sockets'
  <2>1. Joined(connected[r], up'[r])
    BY <1>4, <1>10, <1>13 DEF Joined
  <2>2. ASSUME NEW s \in Replica
        PROVE  IF s \in room' THEN Joined(connected'[s], up'[s])
               ELSE Waits(connected'[s], head'[s], up'[s], down'[s])
    BY <1>1, <1>6, <1>13, <2>1 DEF Sockets
  <2> QED BY <2>2 DEF Sockets
<1>18. Pending'
  <2>1. ASSUME NEW s \in room', NEW o \in ToSet(outbox'[s]) PROVE OnItsWay(o, up'[s], down'[s])
    <3>1. CASE s = r
      BY <1>8, <1>12, <1>13, <3>1 DEF OnItsWay
    <3>2. CASE s # r
      BY <1>1, <1>6, <1>13, <2>1, <3>2 DEF Pending, Types
    <3> QED BY <3>1, <3>2
  <2> QED BY <2>1 DEF Pending
<1>19. ASSUME Intact, Knows, Flow PROVE Flow'
  <2>1. ASSUME NEW s \in Replica
        PROVE  IF s \in room' THEN Continues(head'[s], down'[s], stored')
               ELSE MaxCompactions = 0 \/ head'[s] = 0
    BY <1>6, <1>9, <1>13, <1>19 DEF Flow
  <2> QED BY <2>1 DEF Flow
<1> QED BY <1>1, <1>14, <1>15, <1>16, <1>17, <1>18, <1>19 DEF Inv

(* An operation is stored, and sent to all who joined. *)
LEMMA StoreKeepsInv ==
  ASSUME Inv, NEW r \in Replica, NEW op \in issued[r], AppendAndBroadcast(r, op),
         UNCHANGED <<rooms, room, issued, bounds>>,
         up' \in [Replica -> Seq(ClientMsg)], stale' \in [Replica -> Seq(ClientMsg)],
         \A s \in Replica :
           /\ ToSet(stale'[s]) \subseteq ToSet(stale[s])
           /\ \/ up'[s] = up[s]
              \/ /\ s = r /\ r \in room
                 /\ ToSet(up'[s]) \subseteq ToSet(up[s])
                 /\ ToSet(up[s]) \subseteq ToSet(up'[s]) \cup {OpMsg(op)}
  PROVE  Inv'
<1>1. Types /\ Sources /\ Documents /\ Sockets /\ Pending /\ (Intact => Knows /\ Flow)
  BY DEF Inv
<1>2. stored \in Seq(Op) /\ IsStoreOf(store, stored) /\ op \in Op /\ op \in Everything
  BY <1>1 DEF Types, Everything
<1> DEFINE msg == StoredMsg(StoredOp(Len(stored) + 1, op))
<1>3. /\ stored' = Append(stored, op) /\ IsStoreOf(store', stored')
      /\ down' = [s \in Replica |-> IF s \in room THEN Append(down[s], msg) ELSE down[s]]
  <2>1. /\ IsStoreOf(Append1(store, op), Append(stored, op))
        /\ Last(Append1(store, op).ops) = StoredOp(Len(stored) + 1, op)
    BY <1>2, StoreAppends
  <2>2. /\ store' = Append1(store, op) /\ stored' = Append(stored, op)
        /\ down' = [s \in Replica |-> IF s \in room
                                      THEN Append(down[s], StoredMsg(Last(Append1(store, op).ops)))
                                      ELSE down[s]]
    BY DEF AppendAndBroadcast
  <2> QED BY <2>1, <2>2
<1>4. /\ doc' = doc /\ head' = head /\ outbox' = outbox /\ connected' = connected
      /\ room' = room /\ issued' = issued /\ drops' = drops /\ compactions' = compactions
  BY DEF rooms, bounds
<1>5. msg \in ServerMsg /\ msg.type = "stored" /\ msg.op = op /\ Carried(msg) = {op}
  <2>1. Len(stored) + 1 \in Nat
    BY <1>2, LenProperties
  <2>2. msg \in ServerMsg /\ msg.type = "stored" /\ msg.op = op
    BY <1>2, <2>1 DEF StoredMsg, StoredOp, ServerMsg
  <2> HIDE DEF msg
  <2> QED BY <2>2 DEF Carried
<1> HIDE DEF msg
<1>6. \A s \in Replica : down[s] \in Seq(ServerMsg)
  BY <1>1 DEF Types
<1>7. \A s \in Replica : /\ Append(down[s], msg) \in Seq(ServerMsg)
                         /\ ToSet(Append(down[s], msg)) = ToSet(down[s]) \cup {msg}
  BY <1>5, <1>6, AppendElements
<1>8. /\ stored' \in Seq(Op) /\ Len(stored') = Len(stored) + 1 /\ Len(stored) \in Nat
      /\ ToSet(stored') = ToSet(stored) \cup {op}
  BY <1>2, <1>3, AppendElements, LenProperties
<1>9. Everything' = Everything
  BY <1>4 DEF Everything
<1>10. Types'
  <2>1. down' \in [Replica -> Seq(ServerMsg)]
    BY <1>3, <1>6, <1>7
  <2> QED BY <1>1, <1>3, <1>4, <1>8, <2>1 DEF Types
<1>11. Sources'
  <2>1. \A s \in Replica : ToSet(up'[s]) \subseteq ToSet(up[s])
    OBVIOUS
  <2>2. \A s \in Replica : \A m \in ToSet(up'[s]) \cup ToSet(stale'[s]) :
          m.type = "op" => m.op \in issued[s]
    BY <1>1, <2>1 DEF Sources
  <2>3. ToSet(stored') \subseteq Everything' /\ Orderly(Everything)'
    BY <1>1, <1>2, <1>8, <1>9 DEF Sources
  <2>4. \A s \in Replica : \A m \in ToSet(down'[s]) : Carried(m) \subseteq ToSet(stored')
    <3> TAKE s \in Replica
    <3>1. ToSet(down'[s]) \subseteq ToSet(down[s]) \cup {msg}
      BY <1>3, <1>7
    <3> QED BY <1>1, <1>5, <1>8, <3>1 DEF Sources
  <2> QED BY <1>1, <1>4, <1>9, <2>2, <2>3, <2>4 DEF Sources
<1>12. Documents'
  <2>1. ASSUME NEW s \in Replica
        PROVE  /\ Sound(doc'[s], Held(doc'[s]))
               /\ issued'[s] \subseteq Held(doc'[s])
               /\ Held(doc'[s]) \subseteq issued'[s] \cup ToSet(stored')
    BY <1>1, <1>4, <1>8 DEF Documents
  <2> QED BY <2>1 DEF Documents
<1>13. Sockets'
  <2>1. ASSUME NEW s \in Replica, s \in room
        PROVE  Joined(connected[s], up'[s])
    <3>1. Joined(connected[s], up[s])
      BY <1>1, <2>1 DEF Sockets
    <3>2. \A m \in ToSet(up'[s]) : m \in ToSet(up[s])
      OBVIOUS
    <3> QED BY <3>1, <3>2 DEF Joined
  <2>2. ASSUME NEW s \in Replica, s \notin room
        PROVE  Waits(connected[s], head[s], up'[s], down'[s])
    <3>1. up'[s] = up[s] /\ down'[s] = down[s]
      BY <1>3, <2>2
    <3> QED BY <1>1, <2>2, <3>1 DEF Sockets
  <2>3. ASSUME NEW s \in Replica
        PROVE  IF s \in room' THEN Joined(connected'[s], up'[s])
               ELSE Waits(connected'[s], head'[s], up'[s], down'[s])
    BY <1>4, <2>1, <2>2
  <2> QED BY <2>3 DEF Sockets
<1>14. Pending'
  <2>1. ASSUME NEW s \in room', NEW o \in ToSet(outbox'[s]) PROVE OnItsWay(o, up'[s], down'[s])
    <3>1. s \in Replica /\ s \in room
      BY <1>1, <1>4, <2>1 DEF Types
    <3>2. OnItsWay(o, up[s], down[s])
      BY <1>1, <1>4, <2>1, <3>1 DEF Pending
    <3>3. ToSet(down'[s]) = ToSet(down[s]) \cup {msg}
      BY <1>3, <1>7, <3>1
    <3>4. CASE \E m \in ToSet(down[s]) : m.type = "welcome" \/ m.op.id = o.id
      BY <3>3, <3>4 DEF OnItsWay
    <3>5. CASE OpMsg(o) \in ToSet(up[s])
      <4>1. OpMsg(o) \in ToSet(up'[s]) \/ OpMsg(o) = OpMsg(op)
        BY <3>1, <3>5
      <4>2. OpMsg(o) = OpMsg(op) => o = op
        BY DEF OpMsg
      <4> QED BY <1>5, <3>3, <4>1, <4>2 DEF OnItsWay
    <3> QED BY <3>2, <3>4, <3>5 DEF OnItsWay
  <2> QED BY <2>1 DEF Pending
<1>15. ASSUME Intact' PROVE Knows' /\ Flow'
  <2>1. Intact /\ Knows /\ Flow
    <3>1. CausalLog(stored') => CausalLog(stored)
      BY <1>2, <1>3, CausalPrefix
    <3> QED BY <1>1, <1>15, <3>1 DEF Intact
  <2>2. Knows'
    <3>1. ASSUME NEW s \in Replica
          PROVE  head'[s] <= Len(stored') /\ Held(doc'[s]) = issued'[s] \cup UpTo(stored', head'[s])
      <4>1. head[s] \in Nat /\ head[s] <= Len(stored) /\ Held(doc[s]) = issued[s] \cup UpTo(stored, head[s])
        BY <1>1, <2>1 DEF Types, Knows, Known
      <4>2. head[s] \in 0 .. Len(stored) /\ head[s] <= Len(stored')
        BY <1>8, <4>1
      <4>3. UpTo(stored', head[s]) = UpTo(stored, head[s])
        BY <1>2, <1>3, <4>2, UpToAppend
      <4> QED BY <1>4, <4>1, <4>2, <4>3
    <3> QED BY <3>1 DEF Knows, Known
  <2>3. Flow'
    <3>1. ASSUME NEW s \in Replica
          PROVE  IF s \in room' THEN Continues(head'[s], down'[s], stored')
                 ELSE MaxCompactions = 0 \/ head'[s] = 0
      <4>1. CASE s \in room
        <5>1. Continues(head[s], down[s], stored) /\ down'[s] = Append(down[s], msg)
          BY <1>3, <2>1, <4>1 DEF Flow
        <5>2. Continues(head[s], Append(down[s], msg), stored')
          BY <1>2, <1>3, <1>6, <5>1, AppendContinues DEF msg
        <5> QED BY <1>4, <4>1, <5>1, <5>2
      <4>2. CASE s \notin room
        BY <1>4, <2>1, <4>2 DEF Flow
      <4> QED BY <4>1, <4>2
    <3> QED BY <3>1 DEF Flow
  <2> QED BY <2>2, <2>3
<1> QED BY <1>10, <1>11, <1>12, <1>13, <1>14, <1>15 DEF Inv

(* The hub appends an operation and tells everyone in the room. *)
LEMMA OpKeepsInv ==
  ASSUME Inv, NEW r \in Replica, OnOp(r)
  PROVE  Inv'
<1> DEFINE q == up[r]
<1>1. Types /\ Sources /\ Sockets
  BY DEF Inv
<1>2. q \in Seq(ClientMsg) /\ q # <<>> /\ Head(q).type = "op" /\ up' = [up EXCEPT ![r] = Tail(q)]
  BY <1>1 DEF OnOp, Types
<1> HIDE DEF q
<1>3. Tail(q) \in Seq(ClientMsg) /\ ToSet(q) = {Head(q)} \cup ToSet(Tail(q)) /\ Head(q) \in ClientMsg
  BY <1>2, TailElements
<1>4. r \in room
  <2> SUFFICES ASSUME r \notin room PROVE FALSE
    OBVIOUS
  <2>1. Waits(connected[r], head[r], q, down[r])
    BY <1>1 DEF Sockets, q
  <2>2. Head(q) = JoinMsg(head[r])
    BY <1>1, <1>2, <2>1 DEF Waits, Types
  <2> QED BY <1>2, <2>2 DEF JoinMsg
<1>5. Head(q) = OpMsg(Head(q).op) /\ Head(q).op \in issued[r]
  <2>1. Head(q) = OpMsg(Head(q).op)
    BY <1>2, <1>3 DEF ClientMsg, OpMsg
  <2> QED BY <1>1, <1>2, <1>3, <2>1 DEF Sources, q
<1>6. AppendAndBroadcast(r, Head(q).op) /\ UNCHANGED <<rooms, stale, room, issued, bounds>>
  BY DEF OnOp, q
<1>7. /\ up' \in [Replica -> Seq(ClientMsg)] /\ up'[r] = Tail(q)
      /\ \A s \in Replica : s # r => up'[s] = up[s]
  BY <1>1, <1>2, <1>3 DEF Types
<1>8. stale' \in [Replica -> Seq(ClientMsg)] /\ \A s \in Replica : stale'[s] = stale[s]
  BY <1>1, <1>6 DEF Types
<1>9. \A s \in Replica :
        /\ ToSet(stale'[s]) \subseteq ToSet(stale[s])
        /\ \/ up'[s] = up[s]
           \/ /\ s = r /\ r \in room
              /\ ToSet(up'[s]) \subseteq ToSet(up[s])
              /\ ToSet(up[s]) \subseteq ToSet(up'[s]) \cup {OpMsg(Head(q).op)}
  BY <1>3, <1>4, <1>5, <1>7, <1>8 DEF q
<1> QED BY <1>5, <1>6, <1>7, <1>8, <1>9, StoreKeepsInv

(* A message of a broken socket is handled: an operation is stored all the *)
(* same, and a join is in vain.                                            *)
LEMMA StaleKeepsInv ==
  ASSUME Inv, NEW r \in Replica, OnStale(r)
  PROVE  Inv'
<1> DEFINE q == stale[r]
<1>1. Types /\ Sources /\ Documents /\ Sockets /\ Pending /\ (Intact => Knows /\ Flow)
  BY DEF Inv
<1>2. q \in Seq(ClientMsg) /\ q # <<>> /\ stale' = [stale EXCEPT ![r] = Tail(q)]
      /\ UNCHANGED <<rooms, up, room, issued, bounds>>
  BY <1>1 DEF OnStale, Types
<1> HIDE DEF q
<1>3. Tail(q) \in Seq(ClientMsg) /\ ToSet(q) = {Head(q)} \cup ToSet(Tail(q))
  BY <1>2, TailElements
<1>4. stale' \in [Replica -> Seq(ClientMsg)] /\ up' \in [Replica -> Seq(ClientMsg)]
  BY <1>1, <1>2, <1>3 DEF Types
<1>5. \A s \in Replica : ToSet(stale'[s]) \subseteq ToSet(stale[s]) /\ up'[s] = up[s]
  <2> TAKE s \in Replica
  <2>1. stale'[s] = IF s = r THEN Tail(q) ELSE stale[s]
    BY <1>1, <1>2 DEF Types
  <2> QED BY <1>2, <1>3, <2>1 DEF q
<1>6. CASE Head(q).type = "op"
  <2>1. AppendAndBroadcast(r, Head(q).op)
    BY <1>6 DEF OnStale, q
  <2>2. Head(q).op \in issued[r]
    BY <1>1, <1>3, <1>6 DEF Sources, q
  <2> QED BY <1>2, <1>4, <1>5, <2>1, <2>2, StoreKeepsInv
<1>7. CASE Head(q).type # "op"
  <2>1. /\ store' = store /\ stored' = stored /\ down' = down /\ doc' = doc /\ head' = head
        /\ outbox' = outbox /\ connected' = connected /\ up' = up /\ room' = room
        /\ issued' = issued /\ drops' = drops /\ compactions' = compactions
    BY <1>2, <1>7 DEF OnStale, q, rooms, bounds
  <2>2. Everything' = Everything /\ Documents' /\ (Intact' <=> Intact) /\ (Knows => Knows')
    BY <1>1, <2>1, SameHistory
  <2>3. Types'
    BY <1>1, <1>4, <2>1 DEF Types
  <2>4. Sources'
    <3>1. Orderly(Everything)'
      BY <1>1, <2>2 DEF Sources
    <3> QED BY <1>1, <1>5, <2>1, <2>2, <3>1 DEF Sources
  <2>5. Sockets' /\ Pending' /\ (Flow => Flow')
    BY <1>1, <2>1 DEF Sockets, Pending, Flow
  <2> QED BY <1>1, <2>2, <2>3, <2>4, <2>5 DEF Inv
<1> QED BY <1>6, <1>7

(* A sweep folds the log into the snapshot. *)
LEMMA SweepKeepsInv ==
  ASSUME Inv, Sweep
  PROVE  Inv'
<1>1. Types /\ Sources /\ Documents /\ Sockets /\ Pending /\ (Intact => Knows /\ Flow)
  BY DEF Inv
<1>2. /\ doc' = doc /\ head' = head /\ outbox' = outbox /\ connected' = connected /\ up' = up
      /\ down' = down /\ stale' = stale /\ room' = room /\ issued' = issued /\ stored' = stored
      /\ drops' = drops /\ compactions' = compactions + 1 /\ compactions < MaxCompactions
      /\ store' = Compact(store) /\ Head1(store) - store.snapshot.version >= MinOps
  BY DEF Sweep, rooms, sockets
<1>3. Everything' = Everything /\ Documents' /\ (Intact' <=> Intact) /\ (Knows => Knows')
  BY <1>1, <1>2, SameHistory
<1>4. IsStoreOf(store', stored')
  <2>1. Orderly(ToSet(stored))
    <3>1. ToSet(stored) \subseteq Everything /\ Orderly(Everything)
      BY <1>1 DEF Sources
    <3> QED BY <3>1 DEF Orderly, UniqueIds, Inserts
  <2>2. MaxCompactions # 0
    BY <1>1, <1>2 DEF Types
  <2>3. stored \in Seq(Op) /\ IsStoreOf(store, stored)
    BY <1>1 DEF Types
  <2>4. IsStoreOf(Compact(store), stored)
    BY <1>2, <2>1, <2>2, <2>3, StoreCompacts
  <2> QED BY <1>2, <2>4
<1>5. Types'
  <2>1. compactions' \in 0 .. MaxCompactions
    BY <1>1, <1>2, RelayAssumption DEF Types
  <2> QED BY <1>1, <1>2, <1>4, <2>1 DEF Types
<1>6. Sources'
  <2>1. Orderly(Everything)'
    BY <1>1, <1>3 DEF Sources
  <2> QED BY <1>1, <1>2, <1>3, <2>1 DEF Sources
<1>7. Sockets' /\ Pending' /\ (Flow => Flow')
  BY <1>1, <1>2 DEF Sockets, Pending, Flow
<1> QED BY <1>1, <1>3, <1>5, <1>6, <1>7 DEF Inv

-----------------------------------------------------------------------------
(* A message reaches a room *)

(* A joined room takes a message: its document receives what the message   *)
(* carries, and its head goes on to h, the next place of the log when the  *)
(* message brings the log up to there. The entries that came as operations *)
(* leave the outbox; a welcome also makes the room send its outbox again.  *)
Takes(r, entries, h) ==
  LET msg == Head(down[r]) IN
  /\ r \in room /\ down[r] # <<>>
  /\ OpsOf(entries) \subseteq Carried(msg)
  /\ h \in Nat /\ \A to \in 0 .. Len(stored) : Brings(head[r], msg, to, stored) => h = to
  /\ doc' = [doc EXCEPT ![r] = Receives(@, msg)]
  /\ head' = [head EXCEPT ![r] = h]
  /\ outbox' = [outbox EXCEPT ![r] = IntegrateOutbox(@, entries)]
  /\ down' = [down EXCEPT ![r] = Tail(@)]
  /\ UNCHANGED <<connected, stale, room, store, issued, stored, bounds>>
  /\ up' \in [Replica -> Seq(ClientMsg)]
  /\ \A s \in Replica : s # r => up'[s] = up[s]
  /\ ToSet(up[r]) \subseteq ToSet(up'[r])
  /\ \A m \in ToSet(up'[r]) :
       m \in ToSet(up[r]) \/ \E op \in ToSet(outbox'[r]) : m = OpMsg(op)
  /\ IF msg.type = "welcome"
     THEN \A op \in ToSet(outbox'[r]) : OpMsg(op) \in ToSet(up'[r])
     ELSE Carried(msg) \subseteq OpsOf(entries)

(* What a room takes keeps the invariant. *)
LEMMA TakeKeepsInv ==
  ASSUME Inv, NEW r, NEW entries, NEW h, Takes(r, entries, h)
  PROVE  Inv'
<1> DEFINE msg == Head(down[r])
           new == Receives(doc[r], msg)
           box == IntegrateOutbox(outbox[r], entries)
<1>1. /\ Types /\ Sources /\ Documents /\ Sockets /\ Pending /\ r \in Replica
      /\ Intact => Knows /\ Flow
  BY DEF Inv, Types, Takes
<1>2. /\ r \in room /\ down[r] # <<>> /\ OpsOf(entries) \subseteq Carried(msg)
      /\ h \in Nat /\ \A to \in 0 .. Len(stored) : Brings(head[r], msg, to, stored) => h = to
  BY DEF Takes
<1>3. /\ doc' = [doc EXCEPT ![r] = new] /\ head' = [head EXCEPT ![r] = h]
      /\ outbox' = [outbox EXCEPT ![r] = box] /\ down' = [down EXCEPT ![r] = Tail(@)]
  BY DEF Takes
<1>4. /\ up' \in [Replica -> Seq(ClientMsg)]
      /\ \A s \in Replica : s # r => up'[s] = up[s]
      /\ ToSet(up[r]) \subseteq ToSet(up'[r])
      /\ \A m \in ToSet(up'[r]) :
           m \in ToSet(up[r]) \/ \E op \in ToSet(outbox'[r]) : m = OpMsg(op)
      /\ IF msg.type = "welcome"
         THEN \A op \in ToSet(outbox'[r]) : OpMsg(op) \in ToSet(up'[r])
         ELSE Carried(msg) \subseteq OpsOf(entries)
  BY DEF Takes
<1>5. /\ stored' = stored /\ store' = store /\ connected' = connected /\ stale' = stale
      /\ room' = room /\ issued' = issued /\ drops' = drops /\ compactions' = compactions
  BY DEF bounds, Takes
<1>6. /\ stored \in Seq(Op) /\ Len(stored) \in Nat /\ DOMAIN stored = 1 .. Len(stored)
      /\ head[r] \in Nat /\ outbox[r] \in Seq(Op) /\ down[r] \in Seq(ServerMsg)
      /\ DOMAIN doc = Replica
  BY <1>1, LenProperties DEF Types
<1>7. \A s \in Replica :
        /\ doc'[s] = IF s = r THEN new ELSE doc[s]
        /\ head'[s] = IF s = r THEN h ELSE head[s]
        /\ outbox'[s] = IF s = r THEN box ELSE outbox[s]
        /\ down'[s] = IF s = r THEN Tail(down[r]) ELSE down[s]
  BY <1>1, <1>3 DEF Types
<1>8. /\ box \in Seq(Op)
      /\ \A op : op \in ToSet(box)
                <=> /\ op \in ToSet(outbox[r])
                    /\ \A i \in DOMAIN entries : entries[i].op.id # op.id
  <2>1. outbox[r] \in Seq(Op)
    BY <1>6
  <2> QED BY <2>1, IntegrateOutboxElements
<1>9. /\ Tail(down[r]) \in Seq(ServerMsg)
      /\ ToSet(down[r]) = {msg} \cup ToSet(Tail(down[r]))
      /\ msg \in ServerMsg
  BY <1>2, <1>6, TailElements
<1> HIDE DEF box, msg
<1>10. Carried(msg) \subseteq ToSet(stored)
  BY <1>1, <1>9 DEF Sources
<1>11. /\ Held(doc[r]) \in SUBSET Op /\ Held(doc[r]) \subseteq Everything
       /\ ToSet(stored) \subseteq Everything /\ UniqueIds(Everything) /\ Everything \subseteq Op
  BY <1>1, HeldIsEverything
<1>12. /\ Sound(new, Held(doc[r]) \cup Carried(msg)) /\ new.counter >= doc[r].counter
       /\ Held(new) = Held(doc[r]) \cup Carried(msg)
  <2>1. Sound(doc[r], Held(doc[r]))
    BY <1>1 DEF Documents
  <2>2. UniqueIds(Held(doc[r]) \cup Carried(msg))
    <3>1. Held(doc[r]) \cup Carried(msg) \subseteq Everything
      BY <1>10, <1>11
    <3> QED BY <1>11, <3>1, SubsetUnique
  <2>3. /\ Sound(new, Held(doc[r]) \cup Carried(msg)) /\ new.counter >= doc[r].counter
        /\ Carried(msg) \subseteq Op
    BY <1>9, <1>11, <2>1, <2>2, ReceivesSound
  <2>4. Held(doc[r]) \cup Carried(msg) \in SUBSET Op /\ Mirrors(new, Held(doc[r]) \cup Carried(msg))
    BY <1>11, <2>3 DEF Sound
  <2> QED BY <2>3, <2>4, HeldIsOps
<1> HIDE DEF new
<1>13. Everything' = Everything /\ (Intact' <=> Intact)
  BY <1>5 DEF Everything, Intact
<1>14. Types'
  <2>1. /\ head' \in [Replica -> Nat] /\ outbox' \in [Replica -> Seq(Op)]
        /\ down' \in [Replica -> Seq(ServerMsg)] /\ DOMAIN doc' = Replica
    BY <1>1, <1>2, <1>3, <1>6, <1>8, <1>9 DEF Types
  <2>2. stale' \in [Replica -> Seq(ClientMsg)]
    BY <1>1, <1>5 DEF Types
  <2> QED BY <1>1, <1>4, <1>5, <2>1, <2>2 DEF Types
<1>15. Sources'
  <2>1. ASSUME NEW s \in Replica
        PROVE  /\ ToSet(outbox'[s]) \subseteq issued'[s]
               /\ \A m \in ToSet(up'[s]) \cup ToSet(stale'[s]) : m.type = "op" => m.op \in issued'[s]
               /\ \A o \in Inserts(issued'[s]) :
                    o.id.replica = s /\ o.id.counter <= doc'[s].counter
               /\ \A m \in ToSet(down'[s]) : Carried(m) \subseteq ToSet(stored')
    <3>1. /\ ToSet(outbox[s]) \subseteq issued[s]
          /\ \A m \in ToSet(up[s]) \cup ToSet(stale[s]) : m.type = "op" => m.op \in issued[s]
          /\ \A o \in Inserts(issued[s]) : o.id.replica = s /\ o.id.counter <= doc[s].counter
          /\ \A m \in ToSet(down[s]) : Carried(m) \subseteq ToSet(stored)
      BY <1>1 DEF Sources
    <3>2. CASE s # r
      BY <1>4, <1>5, <1>7, <3>1, <3>2
    <3>3. CASE s = r
      <4>1. ToSet(outbox'[s]) \subseteq issued'[s]
        BY <1>5, <1>7, <1>8, <3>1, <3>3
      <4>2. \A m \in ToSet(up'[s]) : m.type = "op" => m.op \in issued'[s]
        <5>1. \A op : OpMsg(op).op = op
          BY DEF OpMsg
        <5> QED BY <1>5, <1>4, <3>1, <3>3, <4>1, <5>1
      <4>3. \A m \in ToSet(stale'[s]) : m.type = "op" => m.op \in issued'[s]
        BY <1>5, <3>1
      <4>4. \A o \in Inserts(issued[s]) : o.id.counter \in Nat
        <5>1. issued[s] \subseteq Op
          BY <1>1 DEF Types
        <5> QED BY <5>1, OpsAreRecords, IdsAreRecords DEF Inserts
      <4>5. new.counter \in Nat /\ doc[s].counter \in Nat
        BY <1>1, <1>12 DEF Sound, IsDoc, Documents
      <4>6. \A o \in Inserts(issued'[s]) : o.id.replica = s /\ o.id.counter <= doc'[s].counter
        BY <1>5, <1>7, <1>12, <3>1, <3>3, <4>4, <4>5
      <4>7. \A m \in ToSet(down'[s]) : Carried(m) \subseteq ToSet(stored')
        BY <1>5, <1>7, <1>9, <3>1, <3>3
      <4> QED BY <4>1, <4>2, <4>3, <4>6, <4>7
    <3> QED BY <3>2, <3>3
  <2>2. ToSet(stored') \subseteq Everything' /\ Orderly(Everything)'
    BY <1>1, <1>5, <1>13 DEF Sources
  <2> QED BY <2>1, <2>2 DEF Sources
<1>16. Documents'
  <2>1. ASSUME NEW s \in Replica
        PROVE  /\ Sound(doc'[s], Held(doc'[s]))
               /\ issued'[s] \subseteq Held(doc'[s])
               /\ Held(doc'[s]) \subseteq issued'[s] \cup ToSet(stored')
    <3>1. /\ Sound(doc[s], Held(doc[s])) /\ issued[s] \subseteq Held(doc[s])
          /\ Held(doc[s]) \subseteq issued[s] \cup ToSet(stored)
      BY <1>1 DEF Documents
    <3>2. CASE s = r
      <4>1. Sound(new, Held(new))
        BY <1>12
      <4> QED BY <1>5, <1>7, <1>10, <1>12, <3>1, <3>2, <4>1
    <3>3. CASE s # r
      BY <1>5, <1>7, <3>1, <3>3
    <3> QED BY <3>2, <3>3
  <2> QED BY <2>1 DEF Documents
<1>17. Sockets'
  <2>1. Joined(connected[r], up'[r])
    <3>1. connected[r] /\ \A m \in ToSet(up[r]) : m.type = "op"
      BY <1>1, <1>2 DEF Sockets, Joined
    <3>2. \A op : OpMsg(op).type = "op"
      BY DEF OpMsg
    <3> QED BY <1>4, <3>1, <3>2 DEF Joined
  <2>2. ASSUME NEW s \in Replica
        PROVE  IF s \in room' THEN Joined(connected'[s], up'[s])
               ELSE Waits(connected'[s], head'[s], up'[s], down'[s])
    <3>1. CASE s = r
      BY <1>2, <1>5, <2>1, <3>1
    <3>2. CASE s # r
      BY <1>1, <1>4, <1>5, <1>7, <3>2 DEF Sockets
    <3> QED BY <3>1, <3>2
  <2> QED BY <2>2 DEF Sockets
<1>18. Pending'
  <2>1. ASSUME NEW s \in room', NEW o \in ToSet(outbox'[s]) PROVE OnItsWay(o, up'[s], down'[s])
    <3>1. s \in Replica /\ s \in room
      BY <1>1, <1>5, <2>1 DEF Types
    <3>2. CASE s # r
      BY <1>1, <1>4, <1>7, <2>1, <3>1, <3>2 DEF Pending
    <3>3. CASE s = r /\ msg.type = "welcome"
      BY <1>4, <2>1, <3>3 DEF OnItsWay
    <3>4. CASE s = r /\ msg.type # "welcome"
      <4>1. o \in ToSet(outbox[r]) /\ \A i \in DOMAIN entries : entries[i].op.id # o.id
        BY <1>7, <1>8, <2>1, <3>1, <3>4
      <4>2. msg.op.id # o.id
        BY <1>4, <3>4, <4>1 DEF Carried, OpsOf
      <4>3. OnItsWay(o, up[r], down[r])
        BY <1>1, <1>2, <4>1 DEF Pending
      <4>4. down'[r] = Tail(down[r])
        BY <1>1, <1>7
      <4> QED BY <1>4, <1>9, <3>4, <4>2, <4>3, <4>4 DEF OnItsWay
    <3> QED BY <3>2, <3>3, <3>4
  <2> QED BY <2>1 DEF Pending
<1>19. ASSUME Intact PROVE Knows' /\ Flow'
  <2>1. Knows /\ Flow
    BY <1>1, <1>19
  <2>2. Continues(head[r], down[r], stored) /\ head[r] <= Len(stored)
    BY <1>1, <1>2, <2>1 DEF Flow, Knows
  <2>3. PICK to \in 0 .. Len(stored) :
          Brings(head[r], msg, to, stored) /\ Continues(to, Tail(down[r]), stored)
    BY <1>2, <1>6, <2>2, TailContinues DEF msg
  <2>4. h = to
    BY <1>2, <2>3
  <2>5. Held(new) = issued[r] \cup UpTo(stored, to)
    <3>1. head[r] \in 0 .. Len(stored)
      BY <1>6, <2>2
    <3>2. /\ head[r] <= to /\ Carried(msg) \subseteq UpTo(stored, to)
          /\ \A s \in (head[r] + 1) .. to : stored[s] \in Carried(msg)
      BY <1>6, <1>9, <2>3, <3>1, BringsCarries
    <3>3. UpTo(stored, to) = UpTo(stored, head[r]) \cup {stored[s] : s \in (head[r] + 1) .. to}
      <4>1. head[r] \in Nat /\ to \in Nat /\ head[r] <= to
        BY <1>6, <3>1, <3>2
      <4> DEFINE a == head[r]
      <4> HIDE DEF a
      <4>2. UpTo(stored, to) = UpTo(stored, a) \cup {stored[s] : s \in (a + 1) .. to}
        BY <4>1, UpToMore DEF a
      <4> QED BY <4>2 DEF a
    <3>4. Held(doc[r]) = issued[r] \cup UpTo(stored, head[r])
      BY <1>1, <2>1 DEF Knows, Known
    <3> QED BY <1>12, <3>2, <3>3, <3>4
  <2>6. Knows'
    <3>1. ASSUME NEW s \in Replica
          PROVE  head'[s] <= Len(stored') /\ Held(doc'[s]) = issued'[s] \cup UpTo(stored', head'[s])
      <4>1. CASE s = r
        BY <1>5, <1>6, <1>7, <2>3, <2>4, <2>5, <4>1
      <4>2. CASE s # r
        BY <1>5, <1>7, <2>1, <4>2 DEF Knows, Known
      <4> QED BY <4>1, <4>2
    <3> QED BY <3>1 DEF Knows, Known
  <2>7. Flow'
    <3>1. ASSUME NEW s \in Replica
          PROVE  IF s \in room' THEN Continues(head'[s], down'[s], stored')
                 ELSE MaxCompactions = 0 \/ head'[s] = 0
      <4>1. CASE s = r
        BY <1>2, <1>5, <1>7, <2>3, <2>4, <4>1
      <4>2. CASE s # r
        BY <1>5, <1>7, <2>1, <4>2 DEF Flow
      <4> QED BY <4>1, <4>2
    <3> QED BY <3>1 DEF Flow
  <2> QED BY <2>6, <2>7
<1> QED BY <1>13, <1>14, <1>15, <1>16, <1>17, <1>18, <1>19 DEF Inv

(* Messages come down to joined rooms only. *)
LEMMA NextMessage ==
  ASSUME Inv, NEW r \in Replica, down[r] # <<>>
  PROVE  r \in room /\ Head(down[r]) \in ServerMsg /\ connected[r]
<1>1. r \in room
  BY DEF Inv, Sockets, Waits
<1>2. down[r] \in Seq(ServerMsg)
  BY DEF Inv, Types
<1>3. connected[r]
  BY <1>1 DEF Inv, Sockets, Joined
<1> QED BY <1>1, <1>2, <1>3, TailElements

(* What a welcome does to a room. *)
LEMMA WelcomeTakes ==
  ASSUME Inv, NEW r \in Replica, OnWelcome(r)
  PROVE  \E entries, h : Takes(r, entries, h)
<1> DEFINE msg     == Head(down[r])
           entries == msg.ops
           box     == IntegrateOutbox(outbox[r], entries)
           resent  == [i \in DOMAIN box |-> OpMsg(box[i])]
           top     == Highest(head[r], entries)
           h       == IF msg.head > top THEN msg.head ELSE top
<1>1. Types
  BY DEF Inv
<1>2. down[r] # <<>> /\ msg.type = "welcome"
  BY DEF OnWelcome
<1>3. r \in room /\ msg \in ServerMsg /\ connected[r]
  BY <1>2, NextMessage
<1>4. /\ doc' = [doc EXCEPT ![r] = IntegrateDoc(MergeSnapshot(@, msg.snapshot.nodes), entries)]
      /\ head' = [head EXCEPT ![r] = h]
      /\ outbox' = [outbox EXCEPT ![r] = box]
      /\ up' = Sent(r, resent)
      /\ down' = [down EXCEPT ![r] = Tail(@)]
      /\ UNCHANGED <<connected, stale, room, store, issued, stored, bounds>>
  BY DEF OnWelcome
<1>5. doc' = [doc EXCEPT ![r] = Receives(@, msg)]
  <2>1. \A d : Receives(d, msg) = IntegrateDoc(MergeSnapshot(d, msg.snapshot.nodes), entries)
    BY <1>2 DEF Receives
  <2> QED BY <1>4, <2>1
<1>6. entries \in Seq(Entry) /\ msg.head \in Nat
  BY <1>2, <1>3 DEF ServerMsg
<1>7. /\ Carried(msg) = SnapshotOps(msg.snapshot.nodes) \cup OpsOf(entries)
  BY <1>2 DEF Carried
<1>8. /\ head[r] \in Nat /\ outbox[r] \in Seq(Op) /\ outbox \in [Replica -> Seq(Op)]
      /\ stored \in Seq(Op)
  BY <1>1 DEF Types
<1>9. ASSUME NEW to \in 0 .. Len(stored), Brings(head[r], msg, to, stored)
      PROVE  h = to
  <2> HIDE DEF msg
  <2>1. PICK v \in head[r] .. to :
          /\ to = v + Len(entries)
          /\ \A k \in 1 .. Len(entries) : entries[k] = StoredOp(v + k, stored[v + k])
    BY <1>2, <1>9 DEF Brings
  <2>2. msg.head = to /\ head[r] <= to
    BY <1>2, <1>9 DEF Brings
  <2> HIDE DEF entries, top
  <2>3. Len(entries) \in Nat /\ DOMAIN entries = 1 .. Len(entries) /\ to \in Nat /\ v \in Nat
    BY <1>6, <1>8, <2>1, LenProperties
  <2>4. \A k \in 1 .. Len(entries) : entries[k].seq \in 0 .. to
    <3> TAKE k \in 1 .. Len(entries)
    <3>1. entries[k].seq = v + k
      BY <2>1, StoredOpFields
    <3> QED BY <2>1, <2>3, <3>1
  <2>5. top \in head[r] .. to
    <3> DEFINE n == Len(entries)
    <3>1. n \in Nat /\ DOMAIN entries = 1 .. n /\ \A k \in 1 .. n : entries[k].seq \in 0 .. to
      BY <2>3, <2>4
    <3> HIDE DEF n
    <3> QED BY <1>8, <2>2, <2>3, <3>1, HighestBounds DEF top
  <2> QED BY <1>8, <2>2, <2>3, <2>5
<1>10. h \in Nat
  <2>1. top \in Nat
    BY <1>6, <1>8, HighestIsNatural
  <2> HIDE DEF top, msg
  <2> QED BY <1>6, <2>1
<1> HIDE DEF h, msg, top, entries
<1>11. box \in Seq(Op) /\ outbox'[r] = box
  <2>1. box \in Seq(Op)
    BY <1>8, IntegrateOutboxElements
  <2> QED BY <1>4, <1>8, <2>1
<1>12. outbox' = [outbox EXCEPT ![r] = IntegrateOutbox(@, entries)]
  BY <1>4
<1> HIDE DEF box
<1>13. resent \in Seq(ClientMsg) /\ ToSet(resent) = {OpMsg(op) : op \in ToSet(box)}
  <2>1. /\ Len(box) \in Nat /\ DOMAIN box = 1 .. Len(box)
        /\ \A i \in 1 .. Len(box) : box[i] \in Op
    BY <1>11, LenProperties, ElementOfSeq
  <2>2. \A op \in Op : OpMsg(op) \in ClientMsg
    BY DEF OpMsg, ClientMsg
  <2>3. \A i \in 1 .. Len(box) : OpMsg(box[i]) \in ClientMsg
    BY <2>1, <2>2
  <2>4. resent = [i \in 1 .. Len(box) |-> OpMsg(box[i])]
    BY <2>1
  <2>5. resent \in Seq(ClientMsg)
    BY <2>1, <2>3, <2>4, IsASeq
  <2>6. ToSet(resent) = {OpMsg(op) : op \in ToSet(box)}
    BY DEF ToSet
  <2> QED BY <2>5, <2>6
<1> HIDE DEF resent
<1>14. /\ up' \in [Replica -> Seq(ClientMsg)]
       /\ \A s \in Replica : s # r => up'[s] = up[s]
       /\ ToSet(up'[r]) = ToSet(up[r]) \cup ToSet(resent)
  <2> DEFINE sent == Sent(r, resent)
  <2>1. up' = sent
    BY <1>4
  <2>2. /\ sent \in [Replica -> Seq(ClientMsg)]
        /\ \A s \in Replica : s # r => sent[s] = up[s]
        /\ ToSet(sent[r]) = ToSet(up[r]) \cup ToSet(resent)
    BY <1>1, <1>3, <1>13, SentElements
  <2> HIDE DEF sent
  <2> QED BY <2>1, <2>2
<1>15. /\ ToSet(up[r]) \subseteq ToSet(up'[r])
       /\ \A m \in ToSet(up'[r]) :
            m \in ToSet(up[r]) \/ \E op \in ToSet(outbox'[r]) : m = OpMsg(op)
       /\ \A op \in ToSet(outbox'[r]) : OpMsg(op) \in ToSet(up'[r])
  BY <1>11, <1>13, <1>14
<1>16. Takes(r, entries, h)
  BY <1>2, <1>3, <1>4, <1>5, <1>7, <1>9, <1>10, <1>12, <1>14, <1>15 DEF Takes, msg
<1> QED BY <1>16

(* What a broadcast operation does to a room. *)
LEMMA StoredTakes ==
  ASSUME Inv, NEW r \in Replica, OnStored(r)
  PROVE  \E entries, h : Takes(r, entries, h)
<1> DEFINE msg     == Head(down[r])
           entries == <<msg>>
           h       == Highest(head[r], entries)
<1>1. Types
  BY DEF Inv
<1>2. down[r] # <<>> /\ msg.type = "stored"
  BY DEF OnStored
<1>3. r \in room /\ msg \in ServerMsg
  BY <1>2, NextMessage
<1>4. /\ doc' = [doc EXCEPT ![r] = IntegrateDoc(@, entries)]
      /\ head' = [head EXCEPT ![r] = h]
      /\ outbox' = [outbox EXCEPT ![r] = IntegrateOutbox(@, entries)]
      /\ down' = [down EXCEPT ![r] = Tail(@)]
      /\ UNCHANGED <<connected, up, stale, room, store, issued, stored, bounds>>
  BY DEF OnStored
<1>5. msg.seq \in Nat
  BY <1>2, <1>3 DEF ServerMsg
<1>6. head[r] \in Nat
  BY <1>1 DEF Types
<1> HIDE DEF msg
<1>7. DOMAIN entries = 1 .. 1 /\ entries[1] = msg
  OBVIOUS
<1> HIDE DEF entries
<1>8. doc' = [doc EXCEPT ![r] = Receives(@, msg)]
  <2>1. \A d : IntegrateDoc(d, entries) = Apply(d, msg.op)
    <3> DEFINE n == 1
    <3>1. n \in Nat /\ n = 1 /\ DOMAIN entries = 1 .. n
      BY <1>7
    <3> HIDE DEF n
    <3> QED BY <1>7, <3>1, IntegrateOne
  <2>2. \A d : Receives(d, msg) = Apply(d, msg.op)
    BY <1>2 DEF Receives
  <2> QED BY <1>4, <2>1, <2>2
<1>9. Carried(msg) = OpsOf(entries)
  <2>1. Carried(msg) = {msg.op} /\ 1 .. 1 = {1}
    BY <1>2 DEF Carried
  <2> QED BY <1>7, <2>1 DEF OpsOf
<1>10. ASSUME NEW to \in Nat, head[r] <= to, msg.seq <= to
       PROVE  h \in head[r] .. to /\ msg.seq <= h
  <2> DEFINE n == 1
  <2>1. n \in Nat /\ DOMAIN entries = 1 .. n /\ \A k \in 1 .. n : entries[k].seq \in 0 .. to
    BY <1>5, <1>7, <1>10
  <2>2. 1 \in 1 .. n
    OBVIOUS
  <2> HIDE DEF n
  <2>3. h \in head[r] .. to /\ \A k \in 1 .. n : entries[k].seq <= h
    BY <1>6, <1>10, <2>1, HighestBounds
  <2> QED BY <1>7, <2>2, <2>3
<1> HIDE DEF h
<1>11. h \in Nat
  <2>1. CASE head[r] <= msg.seq
    BY <1>5, <1>6, <1>10, <2>1
  <2>2. CASE ~ head[r] <= msg.seq
    BY <1>5, <1>6, <1>10, <2>2
  <2> QED BY <2>1, <2>2
<1>12. ASSUME NEW to \in 0 .. Len(stored), Brings(head[r], msg, to, stored)
       PROVE  h = to
  <2>1. to = head[r] + 1 /\ msg.seq = to
    BY <1>2, <1>12 DEF Brings
  <2>2. h \in head[r] .. to /\ msg.seq <= h
    BY <1>5, <1>6, <1>10, <2>1
  <2> QED BY <1>5, <1>6, <2>1, <2>2
<1>13. /\ up' \in [Replica -> Seq(ClientMsg)] /\ up' = up
  BY <1>1, <1>4 DEF Types
<1>14. UNCHANGED <<connected, stale, room, store, issued, stored, bounds>>
  BY <1>4
<1>15. Takes(r, entries, h)
  BY <1>2, <1>3, <1>4, <1>8, <1>9, <1>11, <1>12, <1>13, <1>14 DEF Takes, msg
<1> QED BY <1>15

(* Every step of every action keeps the invariant. *)
LEMMA NextInv == Inv /\ [Next]_vars => Inv'
<1> SUFFICES ASSUME Inv, [Next]_vars PROVE Inv'
  OBVIOUS
<1>1. ASSUME Sweep PROVE Inv'
  BY <1>1, SweepKeepsInv
<1>2. ASSUME NEW r \in Replica, RoomStep(r) PROVE Inv'
  BY <1>2, OpenKeepsInv, WelcomeTakes, StoredTakes, TakeKeepsInv DEF RoomStep
<1>3. ASSUME NEW r \in Replica, ServerStep(r) PROVE Inv'
  BY <1>3, JoinKeepsInv, OpKeepsInv, StaleKeepsInv DEF ServerStep
<1>4. ASSUME NEW r \in Replica, ClientStep(r) PROVE Inv'
  BY <1>4, InsertKeepsInv, DeleteKeepsInv, DropKeepsInv DEF ClientStep
<1>5. CASE UNCHANGED vars
  <2>1. /\ store' = store /\ stored' = stored /\ down' = down /\ doc' = doc /\ head' = head
        /\ outbox' = outbox /\ connected' = connected /\ up' = up /\ room' = room
        /\ issued' = issued /\ drops' = drops /\ compactions' = compactions /\ stale' = stale
    BY <1>5 DEF vars, rooms, sockets, bounds
  <2>2. Types /\ Sources /\ Documents /\ Sockets /\ Pending /\ (Intact => Knows /\ Flow)
    BY DEF Inv
  <2>3. Everything' = Everything /\ Documents' /\ (Intact' <=> Intact) /\ (Knows => Knows')
    BY <2>1, <2>2, SameHistory
  <2>4. Types'
    BY <2>1, <2>2 DEF Types
  <2>5. Sources'
    <3>1. Orderly(Everything)'
      BY <2>2, <2>3 DEF Sources
    <3> QED BY <2>1, <2>2, <2>3, <3>1 DEF Sources
  <2>6. Sockets' /\ Pending' /\ (Flow => Flow')
    BY <2>1, <2>2 DEF Sockets, Pending, Flow
  <2> QED BY <2>2, <2>3, <2>4, <2>5, <2>6 DEF Inv
<1> QED BY <1>1, <1>2, <1>3, <1>4, <1>5 DEF Next, Delivery

(* Inv holds in every reachable state. *)
THEOREM Invariance == Spec => []Inv
BY InitInv, NextInv, PTL DEF Spec

-----------------------------------------------------------------------------
(* What follows *)

(* A document has the effect of the operations it is made of. *)
LEMMA MirrorsHasOp ==
  ASSUME NEW d, NEW ops \in SUBSET Op, Mirrors(d, ops), NEW op \in ops
  PROVE  HasOp(d, op)
<1>1. CASE op.type = "insert"
  BY <1>1 DEF HasOp, Mirrors, InsertedIds, Inserts
<1>2. CASE op.type # "insert"
  <2>1. op.type = "delete"
    BY <1>2, OpsAreRecords
  <2> QED BY <1>2, <2>1 DEF HasOp, Mirrors, DeletedIds
<1> QED BY <1>1, <1>2

(* The invariant has the types of the run. *)
LEMMA InvTypes == Inv => TypeOK
<1> SUFFICES ASSUME Inv PROVE TypeOK
  OBVIOUS
<1>1. Types /\ Sources /\ Documents
  BY DEF Inv
<1>2. \A s : Range(s) = ToSet(s)
  BY DEF Range, ToSet
<1>3. stored \in Seq(Op) /\ store.seq = Len(stored)
  BY <1>1 DEF Types, IsStoreOf, Folded
<1>4. Range(stored) \subseteq Op
  BY <1>2, <1>3, ElementOfSeq, LenProperties DEF ToSet
<1>5. ASSUME NEW r \in Replica
      PROVE  /\ IsDoc(doc[r]) /\ head[r] \in Nat /\ connected[r] \in BOOLEAN
             /\ Range(outbox[r]) \subseteq Op /\ issued[r] \subseteq Op
             /\ Range(up[r]) \cup Range(stale[r]) \subseteq
                  [type : {"join"}, since : Nat] \cup [type : {"op"}, op : Op]
  <2>1. /\ IsDoc(doc[r]) /\ head[r] \in Nat /\ connected[r] \in BOOLEAN
        /\ outbox[r] \in Seq(Op) /\ issued[r] \subseteq Op
        /\ up[r] \in Seq(ClientMsg) /\ stale[r] \in Seq(ClientMsg)
    BY <1>1 DEF Types, Documents, Sound
  <2>2. ASSUME NEW T, NEW s \in Seq(T) PROVE ToSet(s) \subseteq T
    BY ElementOfSeq, LenProperties DEF ToSet
  <2>3. /\ ToSet(outbox[r]) \subseteq Op
        /\ ToSet(up[r]) \subseteq ClientMsg /\ ToSet(stale[r]) \subseteq ClientMsg
    BY <2>1, <2>2
  <2> QED BY <1>2, <2>1, <2>3 DEF ClientMsg
<1> QED BY <1>1, <1>3, <1>4, <1>5 DEF TypeOK, Types

(* Documents, queues and messages keep their shape, and the log numbers    *)
(* what it stores without a gap.                                           *)
THEOREM TypeCorrect == Spec => []TypeOK
<1>1. Spec => []Inv
  BY Invariance
<1>2. Inv => TypeOK
  BY InvTypes
<1> QED BY <1>1, <1>2, PTL

(* The log is that of the run's premise. *)
LEMMA CausalLogs == LogIsCausal <=> CausalLog(stored)
BY DEF LogIsCausal, CausalLog

(* A snapshot folds a prefix of the log and the rest follows it, so what   *)
(* is kept makes the document of the whole log.                            *)
LEMMA InvKeepsHistory == Inv => StoreKeepsHistory
<1> SUFFICES ASSUME Inv, LogIsCausal
             PROVE  Fold(store.snapshot, store.ops) = Snapshot(FoldLeft(Apply, NewDoc, stored))
  BY DEF StoreKeepsHistory
<1>1. stored \in Seq(Op) /\ IsStoreOf(store, stored) /\ CausalLog(stored)
  BY CausalLogs DEF Inv, Types
<1>2. Orderly(ToSet(stored))
  <2>1. Orderly(Everything) /\ ToSet(stored) \subseteq Everything
    BY DEF Inv, Sources
  <2>2. Inserts(ToSet(stored)) \subseteq Inserts(Everything)
    BY <2>1 DEF Inserts
  <2> QED BY <2>1, <2>2 DEF Orderly, UniqueIds
<1> QED BY <1>1, <1>2, StoreIsTheLog

(* Compaction is invisible: however often the log is folded, what is left  *)
(* of it makes the document that every operation ever stored makes, while  *)
(* the log is causal (store.ts:23-28, compactor.ts).                       *)
THEOREM HistoryIsKept == Spec => []StoreKeepsHistory
<1>1. Spec => []Inv
  BY Invariance
<1>2. Inv => StoreKeepsHistory
  BY InvKeepsHistory
<1> QED BY <1>1, <1>2, PTL

(* When no room may have missed anything, a document is Known. *)
LEMMA KnownIsSound ==
  ASSUME Inv, Intact, NEW r \in Replica
  PROVE  /\ Sound(doc[r], Known(r)) /\ Known(r) \in SUBSET Op /\ Known(r) \subseteq Everything
         /\ Everything \subseteq Op /\ UniqueIds(Everything) /\ ToSet(stored) \subseteq Everything
<1>1. Types /\ Sources /\ Documents /\ Knows
  BY DEF Inv
<1> QED BY <1>1, HeldIsEverything DEF Documents, Knows

(* Everything up to its head is in such a document. *)
LEMMA InvHeads == Inv /\ Intact => HeadCoversPrefix
<1> SUFFICES ASSUME Inv, Intact, NEW r \in Replica, NEW s \in 1 .. head[r]
             PROVE  HasOp(doc[r], stored[s])
  BY DEF HeadCoversPrefix
<1>1. Mirrors(doc[r], Known(r)) /\ Known(r) \in SUBSET Op
  BY KnownIsSound DEF Sound
<1>2. stored[s] \in Known(r)
  BY DEF Known, UpTo
<1> QED BY <1>1, <1>2, MirrorsHasOp

(* Whatever sockets broke and whatever waits, a room has the effect of     *)
(* every operation up to the head it asks to continue from (room.ts:41).   *)
THEOREM HeadsCover == MaxCompactions = 0 => (Spec => []HeadCoversPrefix)
<1> SUFFICES ASSUME MaxCompactions = 0 PROVE Spec => []HeadCoversPrefix
  OBVIOUS
<1>1. Spec => []Inv
  BY Invariance
<1>2. Inv => HeadCoversPrefix
  BY InvHeads DEF Intact
<1> QED BY <1>1, <1>2, PTL

(* What a member lacks is in the rest of the log, which is on its way down. *)
LEMMA InvReaches == Inv /\ Intact => ReachesEveryMember
<1> SUFFICES ASSUME Inv, Intact, NEW r \in room, NEW i \in DOMAIN stored
             PROVE  HasOp(Arrived(doc[r], down[r]), stored[i])
  BY DEF ReachesEveryMember
<1> DEFINE all == UNION {Carried(down[r][j]) : j \in DOMAIN down[r]}
<1>1. r \in Replica /\ Types /\ Sources /\ Continues(head[r], down[r], stored)
  BY DEF Inv, Types, Flow
<1>2. /\ stored \in Seq(Op) /\ down[r] \in Seq(ServerMsg) /\ head[r] \in Nat
      /\ DOMAIN stored = 1 .. Len(stored) /\ Len(stored) \in Nat
  BY <1>1, LenProperties DEF Types
<1>3. all \subseteq ToSet(stored) /\ \A s \in 1 .. Len(stored) : s <= head[r] \/ stored[s] \in all
  BY <1>1, <1>2, ContinuesCarries
<1>4. /\ Sound(doc[r], Known(r)) /\ Known(r) \in SUBSET Op /\ Known(r) \subseteq Everything
      /\ Everything \subseteq Op /\ UniqueIds(Everything) /\ ToSet(stored) \subseteq Everything
  BY <1>1, KnownIsSound
<1>5. UniqueIds(Known(r) \cup all)
  <2> HIDE DEF all
  <2>1. Known(r) \cup all \subseteq Everything
    BY <1>3, <1>4
  <2> QED BY <1>4, <2>1, SubsetUnique
<1>6. Sound(Arrived(doc[r], down[r]), Known(r) \cup all)
  BY <1>1, <1>2, <1>4, <1>5, ArrivedSound
<1> HIDE DEF all
<1>7. stored[i] \in Known(r) \cup all
  <2>1. i <= head[r] => i \in 1 .. head[r]
    BY <1>2
  <2> QED BY <1>2, <1>3, <2>1 DEF Known, UpTo
<1>8. Known(r) \cup all \in SUBSET Op
  BY <1>3, <1>4
<1> QED BY <1>6, <1>7, <1>8, MirrorsHasOp DEF Sound

(* Every stored operation reaches every member of the room: it has it, or  *)
(* what is on its way down brings it (hub.ts:38-40).                       *)
THEOREM MembersAreReached == MaxCompactions = 0 => (Spec => []ReachesEveryMember)
<1> SUFFICES ASSUME MaxCompactions = 0 PROVE Spec => []ReachesEveryMember
  OBVIOUS
<1>1. Spec => []Inv
  BY Invariance
<1>2. Inv => ReachesEveryMember
  BY InvReaches DEF Intact
<1> QED BY <1>1, <1>2, PTL

(* Compaction does not change that, while the log is causal and a room     *)
(* joins once (one that comes back misses what was folded meanwhile): what *)
(* was folded is in the snapshot it gets.                                  *)
THEOREM MembersAreCaughtUp ==
  MaxCompactions = 0 \/ MaxDrops = 0 => (Spec => []MembersCatchUp)
<1> SUFFICES ASSUME MaxCompactions = 0 \/ MaxDrops = 0 PROVE Spec => []MembersCatchUp
  OBVIOUS
<1>1. Spec => []Inv
  BY Invariance
<1>2. Inv => MembersCatchUp
  BY InvReaches, CausalLogs DEF Intact, MembersCatchUp
<1> QED BY <1>1, <1>2, PTL

-----------------------------------------------------------------------------
(* No edit lost *)

(* A delete is queued under the id of what it deletes, where it and the    *)
(* insert replace each other (Erase = "any"). While users delete           *)
(* only what has been confirmed, an insert is stored, or in the outbox: an *)
(* entry of its id in the log means that the insert is there too.          *)
Retained ==
  /\ \A r \in Replica : Inserts(issued[r]) \subseteq ToSet(stored) \cup ToSet(outbox[r])
  /\ DeletedIds(Everything) \subseteq InsertedIds(ToSet(stored))

(* An echo or a welcome takes an insert from the outbox only when it is    *)
(* logged.                                                                 *)
LEMMA TakeRetains ==
  ASSUME Inv, Retained, NEW r, NEW entries, NEW h, Takes(r, entries, h)
  PROVE  Retained'
<1>1. Types /\ Sources /\ Documents /\ r \in Replica
  BY DEF Inv, Types, Takes
<1>2. /\ outbox' = [outbox EXCEPT ![r] = IntegrateOutbox(@, entries)]
      /\ issued' = issued /\ stored' = stored
  BY DEF Takes
<1>3. outbox \in [Replica -> Seq(Op)] /\ OpsOf(entries) \subseteq ToSet(stored)
  <2>1. /\ OpsOf(entries) \subseteq Carried(Head(down[r]))
        /\ down[r] # <<>> /\ down[r] \in Seq(ServerMsg)
    BY <1>1 DEF Takes, Types
  <2>2. Head(down[r]) \in ToSet(down[r])
    BY <2>1, TailElements
  <2> QED BY <1>1, <2>1, <2>2 DEF Sources, Types
<1>4. \A op : op \in ToSet(outbox'[r])
              <=> /\ op \in ToSet(outbox[r])
                  /\ \A i \in DOMAIN entries : entries[i].op.id # op.id
  <2>1. outbox'[r] = IntegrateOutbox(outbox[r], entries) /\ outbox[r] \in Seq(Op)
    BY <1>1, <1>2, <1>3
  <2> QED BY <2>1, IntegrateOutboxElements
<1>5. \A s \in Replica : s # r => outbox'[s] = outbox[s]
  BY <1>2, <1>3
<1>6. /\ ToSet(stored) \subseteq Everything /\ Everything \subseteq Op /\ UniqueIds(Everything)
      /\ issued[r] \subseteq Everything
  BY <1>1, HeldIsEverything, IssuedIsEverything
<1>7. ASSUME NEW op \in Inserts(issued[r]), op \notin ToSet(outbox'[r])
      PROVE  op \in ToSet(stored)
  <2>1. CASE op \in ToSet(stored)
    BY <2>1
  <2>2. CASE op \notin ToSet(stored)
    <3>1. op \in ToSet(outbox[r])
      BY <1>1, <2>2 DEF Retained
    <3>2. PICK i \in DOMAIN entries : entries[i].op.id = op.id
      BY <1>4, <1>7, <3>1
    <3> DEFINE e == entries[i].op
    <3>3. e \in OpsOf(entries)
      BY DEF OpsOf
    <3>4. e \in ToSet(stored) /\ e.id = op.id
      BY <1>3, <3>2, <3>3
    <3> HIDE DEF e
    <3>5. \E x \in ToSet(stored) : x.type = "insert" /\ x.id = op.id
      <4>1. CASE e.type = "insert"
        BY <3>4, <4>1
      <4>2. CASE e.type # "insert"
        <5>1. e \in Op /\ e \in Everything
          BY <1>6, <3>4
        <5>2. e.id \in DeletedIds(Everything)
          BY <4>2, <5>1, OpsAreRecords DEF DeletedIds
        <5> QED BY <3>4, <5>2 DEF Retained, InsertedIds, Inserts
      <4> QED BY <4>1, <4>2
    <3>6. PICK x \in ToSet(stored) : x.type = "insert" /\ x.id = op.id
      BY <3>5
    <3>7. x \in Inserts(Everything) /\ op \in Inserts(Everything)
      BY <1>6, <1>7, <3>6 DEF Inserts
    <3> QED BY <1>6, <3>6, <3>7 DEF UniqueIds
  <2> QED BY <2>1, <2>2
<1>8. ASSUME NEW s \in Replica
      PROVE  Inserts(issued'[s]) \subseteq ToSet(stored') \cup ToSet(outbox'[s])
  BY <1>2, <1>5, <1>7 DEF Retained
<1>9. Everything' = Everything
  BY <1>2 DEF Everything
<1> QED BY <1>2, <1>8, <1>9 DEF Retained

(* The log only grows, by one operation that a room sent. *)
LEMMA ServerStored ==
  ASSUME Types, NEW r \in Replica, OnOp(r) \/ OnStale(r)
  PROVE  /\ ToSet(stored) \subseteq ToSet(stored')
         /\ OnOp(r) => /\ up[r] \in Seq(ClientMsg) /\ up[r] # <<>>
                       /\ Head(up[r]).op \in ToSet(stored')
<1>1. ASSUME NEW op \in Op, AppendAndBroadcast(r, op)
      PROVE  ToSet(stored) \subseteq ToSet(stored') /\ op \in ToSet(stored')
  <2>1. stored' = Append(stored, op) /\ stored \in Seq(Op)
    BY <1>1 DEF AppendAndBroadcast, Types
  <2>2. ToSet(Append(stored, op)) = ToSet(stored) \cup {op}
    BY <2>1, AppendElements
  <2> QED BY <2>1, <2>2
<1>2. ASSUME NEW q \in Seq(ClientMsg), q # <<>>, Head(q).type = "op"
      PROVE  Head(q).op \in Op
  <2>1. Head(q) \in ClientMsg
    BY <1>2, TailElements
  <2> QED BY <1>2, <2>1 DEF ClientMsg
<1>3. CASE OnOp(r)
  <2>1. up[r] \in Seq(ClientMsg) /\ up[r] # <<>> /\ Head(up[r]).type = "op"
    BY <1>3 DEF OnOp, Types
  <2>2. Head(up[r]).op \in Op
    BY <1>2, <2>1
  <2>3. AppendAndBroadcast(r, Head(up[r]).op)
    BY <1>3 DEF OnOp
  <2> QED BY <1>1, <2>1, <2>2, <2>3
<1>4. ASSUME OnStale(r) PROVE ToSet(stored) \subseteq ToSet(stored')
  <2>1. stale[r] \in Seq(ClientMsg) /\ stale[r] # <<>>
    BY <1>4 DEF OnStale, Types
  <2>2. CASE Head(stale[r]).type = "op"
    <3>1. Head(stale[r]).op \in Op
      BY <1>2, <2>1, <2>2
    <3>2. AppendAndBroadcast(r, Head(stale[r]).op)
      BY <1>4, <2>2 DEF OnStale
    <3> QED BY <1>1, <3>1, <3>2
  <2>3. CASE Head(stale[r]).type # "op"
    <3>1. stored' = stored
      BY <1>4, <2>3 DEF OnStale
    <3> QED BY <3>1
  <2> QED BY <2>2, <2>3
<1>5. CASE OnOp(r)
  BY <1>3, <1>5
<1>6. CASE ~ OnOp(r)
  BY <1>4, <1>6
<1> QED BY <1>5, <1>6

(* What a local edit adds. *)
LEMMA EditAdds ==
  ASSUME Inv, Inv', NEW r \in Replica, NEW d, NEW op, AfterLocal(r, d, op)
  PROVE  /\ op \in Op /\ stored' = stored /\ Everything' = Everything \cup {op}
         /\ \A s \in Replica : /\ issued'[s] = IF s = r THEN issued[s] \cup {op} ELSE issued[s]
                               /\ s # r => outbox'[s] = outbox[s]
         /\ op \in ToSet(outbox'[r])
         /\ \A x \in ToSet(outbox[r]) : x.id # op.id => x \in ToSet(outbox'[r])
<1>1. /\ outbox' = [outbox EXCEPT ![r] = Put(@, op)]
      /\ issued' = [issued EXCEPT ![r] = @ \cup {op}] /\ stored' = stored
  BY DEF AfterLocal
<1>2. outbox \in [Replica -> Seq(Op)] /\ issued \in [Replica -> SUBSET Op]
      /\ issued' \in [Replica -> SUBSET Op]
  BY DEF Types, Inv
<1>3. issued'[r] = issued[r] \cup {op} /\ op \in Op /\ outbox'[r] = Put(outbox[r], op)
  BY <1>1, <1>2
<1>4. \A s \in Replica : /\ issued'[s] = IF s = r THEN issued[s] \cup {op} ELSE issued[s]
                         /\ s # r => outbox'[s] = outbox[s]
  BY <1>1, <1>2
<1>5. Everything' = Everything \cup {op}
  <2>1. Everything' \subseteq Everything \cup {op}
    BY <1>4 DEF Everything
  <2>2. Everything \subseteq Everything'
    BY <1>4 DEF Everything
  <2>3. op \in Everything'
    BY <1>3 DEF Everything
  <2> QED BY <2>1, <2>2, <2>3
<1> QED BY <1>1, <1>2, <1>3, <1>4, <1>5, PutElements

(* An insert leaves the outbox only when it is logged. *)
LEMMA NextRetained ==
  ASSUME Erase # "any", Inv, Inv', Retained, [Next]_vars
  PROVE  Retained'
<1>1. Types /\ Sources
  BY DEF Inv
<1>2. ASSUME outbox' = outbox, issued' = issued, ToSet(stored) \subseteq ToSet(stored')
      PROVE  Retained'
  <2>1. Everything' = Everything /\ InsertedIds(ToSet(stored)) \subseteq InsertedIds(ToSet(stored'))
    BY <1>2 DEF Everything, InsertedIds, Inserts
  <2>2. ASSUME NEW s \in Replica
        PROVE  Inserts(issued'[s]) \subseteq ToSet(stored') \cup ToSet(outbox'[s])
    BY <1>2 DEF Retained
  <2> QED BY <2>1, <2>2 DEF Retained
<1>3. ASSUME NEW r \in Replica, Insert(r) PROVE Retained'
  <2>1. PICK parent \in {ROOT} \cup VisibleIds(doc[r]) :
          AfterLocal(r, Tick(doc[r]), InsertAfter(doc[r], r, parent))
    BY <1>3 DEF Insert
  <2> DEFINE op == InsertAfter(doc[r], r, parent)
  <2>2. op.type = "insert"
    BY DEF InsertAfter
  <2> HIDE DEF op
  <2>3. /\ op \in Op /\ stored' = stored /\ Everything' = Everything \cup {op}
        /\ \A s \in Replica : /\ issued'[s] = IF s = r THEN issued[s] \cup {op} ELSE issued[s]
                              /\ s # r => outbox'[s] = outbox[s]
        /\ op \in ToSet(outbox'[r])
        /\ \A x \in ToSet(outbox[r]) : x.id # op.id => x \in ToSet(outbox'[r])
    <3>1. AfterLocal(r, Tick(doc[r]), op)
      BY <2>1 DEF op
    <3> QED BY <3>1, EditAdds
  <2>4. DeletedIds(Everything') = DeletedIds(Everything)
    BY <2>2, <2>3 DEF DeletedIds
  <2>5. ASSUME NEW x \in Inserts(issued[r]), x.id = op.id PROVE x = op
    <3>1. UniqueIds(Everything)'
      BY DEF Inv, Sources, Orderly
    <3>2. issued[r] \subseteq Everything'
      BY <2>3, IssuedIsEverything
    <3>3. x \in Inserts(Everything') /\ op \in Inserts(Everything')
      BY <2>2, <2>3, <2>5, <3>2 DEF Inserts
    <3> QED BY <2>5, <3>1, <3>3 DEF UniqueIds
  <2>6. ASSUME NEW s \in Replica
        PROVE  Inserts(issued'[s]) \subseteq ToSet(stored') \cup ToSet(outbox'[s])
    <3>1. CASE s # r
      BY <2>3, <3>1 DEF Retained
    <3>2. CASE s = r
      <4>1. Inserts(issued'[s]) \subseteq Inserts(issued[r]) \cup {op}
        BY <2>3, <3>2 DEF Inserts
      <4>2. ASSUME NEW x \in Inserts(issued[r]) PROVE x \in ToSet(stored') \cup ToSet(outbox'[r])
        BY <2>3, <2>5, <4>2 DEF Retained
      <4> QED BY <2>3, <3>2, <4>1, <4>2
    <3> QED BY <3>1, <3>2
  <2> QED BY <2>3, <2>4, <2>6 DEF Retained
<1>4. ASSUME NEW r \in Replica, Delete(r) PROVE Retained'
  <2>1. PICK id \in VisibleIds(doc[r]) :
          /\ \A i \in DOMAIN outbox[r] : outbox[r][i].id # id
          /\ AfterLocal(r, doc[r], DeleteOf(id))
    BY <1>4, RelayAssumption DEF Delete
  <2> DEFINE op == DeleteOf(id)
  <2>2. op.type = "delete" /\ op.id = id
    BY DEF DeleteOf
  <2> HIDE DEF op
  <2>3. /\ op \in Op /\ stored' = stored /\ Everything' = Everything \cup {op}
        /\ \A s \in Replica : /\ issued'[s] = IF s = r THEN issued[s] \cup {op} ELSE issued[s]
                              /\ s # r => outbox'[s] = outbox[s]
        /\ op \in ToSet(outbox'[r])
        /\ \A x \in ToSet(outbox[r]) : x.id # op.id => x \in ToSet(outbox'[r])
    <3>1. AfterLocal(r, doc[r], op)
      BY <2>1 DEF op
    <3> QED BY <3>1, EditAdds
  <2>4. \A x \in ToSet(outbox[r]) : x.id # id
    BY <2>1 DEF ToSet
  <2>5. id \in InsertedIds(ToSet(stored))
    <3>1. id \in InsertedIds(Held(doc[r]))
      BY <2>1 DEF VisibleIds, Inv, Documents, Sound, Mirrors
    <3>2. PICK x \in Held(doc[r]) : x.type = "insert" /\ x.id = id
      BY <3>1 DEF InsertedIds, Inserts
    <3>3. x \in ToSet(stored)
      <4>1. ASSUME x \in issued[r] PROVE x \in ToSet(stored)
        <5>1. x \in Inserts(issued[r])
          BY <3>2, <4>1 DEF Inserts
        <5> QED BY <2>4, <3>2, <5>1 DEF Retained
      <4> QED BY <4>1 DEF Inv, Documents
    <3> QED BY <3>2, <3>3 DEF InsertedIds, Inserts
  <2>6. DeletedIds(Everything') \subseteq DeletedIds(Everything) \cup {id}
    BY <2>2, <2>3 DEF DeletedIds
  <2>7. ASSUME NEW s \in Replica
        PROVE  Inserts(issued'[s]) \subseteq ToSet(stored') \cup ToSet(outbox'[s])
    <3>1. Inserts(issued'[s]) \subseteq Inserts(issued[s])
      BY <2>2, <2>3 DEF Inserts
    <3>2. ToSet(outbox[s]) \subseteq ToSet(outbox'[s])
      BY <2>2, <2>3, <2>4
    <3> QED BY <2>3, <3>1, <3>2 DEF Retained
  <2> QED BY <2>3, <2>5, <2>6, <2>7 DEF Retained
<1>5. ASSUME NEW r \in Replica, Drop(r) \/ Open(r) \/ OnJoin(r) PROVE Retained'
  BY <1>2, <1>5 DEF Drop, Open, OnJoin, rooms
<1>6. ASSUME NEW r \in Replica, OnWelcome(r) \/ OnStored(r) PROVE Retained'
  BY <1>6, WelcomeTakes, StoredTakes, TakeRetains
<1>7. ASSUME NEW r \in Replica, OnOp(r) \/ OnStale(r) PROVE Retained'
  <2>1. outbox' = outbox /\ issued' = issued
    BY <1>7 DEF OnOp, OnStale, rooms
  <2> QED BY <1>1, <1>2, <1>7, <2>1, ServerStored
<1>8. ASSUME Sweep PROVE Retained'
  BY <1>2, <1>8 DEF Sweep, rooms
<1>9. CASE UNCHANGED vars
  BY <1>2, <1>9 DEF vars, rooms
<1> QED BY <1>3, <1>4, <1>5, <1>6, <1>7, <1>8, <1>9
        DEF Next, Delivery, RoomStep, ServerStep, ClientStep

(* A delete has no such safety: a second echo of the insert clears it from *)
(* the outbox, and it is lost if the socket breaks before it is read. It   *)
(* reaches the log as long as sockets do not break: it was sent, because   *)
(* only a room that has been connected has something confirmed to delete.  *)
DeletesAreSafe == Erase = "none" \/ (Erase = "confirmed" /\ MaxDrops = 0)

Delivered ==
  \A r \in Replica :
    /\ \A op \in issued[r] \ Inserts(issued[r]) :
         Erase # "none" /\ (op \in ToSet(stored) \/ OpMsg(op) \in ToSet(up[r]))
    /\ Erase # "none" /\ ~ connected[r] =>
         /\ DOMAIN doc[r].nodes \subseteq InsertedIds(issued[r])
         /\ Inserts(issued[r]) \subseteq ToSet(outbox[r])

(* A delete stays on its way up until it is logged. *)
LEMMA NextDelivered ==
  ASSUME DeletesAreSafe, Inv, Inv', Delivered, [Next]_vars
  PROVE  Delivered'
<1> DEFINE Ok(s) ==
             /\ \A op \in issued'[s] \ Inserts(issued'[s]) :
                  Erase # "none" /\ (op \in ToSet(stored') \/ OpMsg(op) \in ToSet(up'[s]))
             /\ Erase # "none" /\ ~ connected'[s] =>
                  /\ DOMAIN doc'[s].nodes \subseteq InsertedIds(issued'[s])
                  /\ Inserts(issued'[s]) \subseteq ToSet(outbox'[s])
<1>1. Types /\ Sources /\ Documents /\ Sockets
  BY DEF Inv
<1>2. ASSUME NEW s \in Replica, issued' = issued, ToSet(stored) \subseteq ToSet(stored'),
             \A op : OpMsg(op) \in ToSet(up[s]) =>
                       OpMsg(op) \in ToSet(up'[s]) \/ op \in ToSet(stored'),
             \/ connected'[s]
             \/ connected'[s] = connected[s] /\ doc'[s] = doc[s] /\ outbox'[s] = outbox[s]
      PROVE  Ok(s)
  BY <1>2 DEF Delivered
<1>3. ASSUME NEW r \in Replica, NEW d, NEW op, AfterLocal(r, d, op), NEW s \in Replica,
             op.type # "insert" => Erase # "none" /\ connected[r],
             op.type = "insert" =>
               /\ \A x \in Inserts(issued[r]) : x.id = op.id => x = op
               /\ DOMAIN Apply(d, op).nodes \subseteq DOMAIN doc[r].nodes \cup {op.id}
      PROVE  Ok(s)
  <2>1. /\ op \in Op /\ stored' = stored
        /\ issued'[s] = IF s = r THEN issued[s] \cup {op} ELSE issued[s]
        /\ s # r => outbox'[s] = outbox[s]
        /\ op \in ToSet(outbox'[r])
        /\ \A x \in ToSet(outbox[r]) : x.id # op.id => x \in ToSet(outbox'[r])
    <3>1. /\ op \in Op /\ stored' = stored /\ Everything' = Everything \cup {op}
          /\ \A t \in Replica : /\ issued'[t] = IF t = r THEN issued[t] \cup {op} ELSE issued[t]
                                /\ t # r => outbox'[t] = outbox[t]
          /\ op \in ToSet(outbox'[r])
          /\ \A x \in ToSet(outbox[r]) : x.id # op.id => x \in ToSet(outbox'[r])
      BY <1>3, EditAdds
    <3> QED BY <3>1
  <2>2. /\ connected' = connected /\ up' = Sent(r, <<OpMsg(op)>>)
        /\ doc'[s] = IF s = r THEN Apply(d, op) ELSE doc[s]
    BY <1>1, <1>3 DEF AfterLocal, Types
  <2>3. /\ s # r \/ ~ connected[r] => up'[s] = up[s]
        /\ s = r /\ connected[r] => ToSet(up'[s]) = ToSet(up[s]) \cup {OpMsg(op)}
    <3> DEFINE m == OpMsg(op)
    <3>1. m \in ClientMsg
      BY <2>1 DEF OpMsg, ClientMsg
    <3> HIDE DEF m
    <3>2. <<m>> \in Seq(ClientMsg) /\ ToSet(<<m>>) = {m}
      BY <3>1 DEF ToSet
    <3>3. /\ \A t \in Replica : t # r => Sent(r, <<m>>)[t] = up[t]
          /\ connected[r] => ToSet(Sent(r, <<m>>)[r]) = ToSet(up[r]) \cup ToSet(<<m>>)
      BY <1>1, <3>2, SentElements
    <3>4. ~ connected[r] => Sent(r, <<m>>) = up
      BY DEF Sent
    <3> QED BY <2>2, <3>2, <3>3, <3>4 DEF m
  <2>4. CASE s # r
    BY <2>1, <2>2, <2>3, <2>4 DEF Delivered
  <2>5. CASE s = r
    <3>1. ASSUME NEW x \in issued'[s] \ Inserts(issued'[s])
          PROVE  Erase # "none" /\ (x \in ToSet(stored') \/ OpMsg(x) \in ToSet(up'[s]))
      <4>1. x.type # "insert"
        BY <3>1 DEF Inserts
      <4>2. x = op \/ x \in issued[s] \ Inserts(issued[s])
        BY <2>1, <3>1, <4>1 DEF Inserts
      <4>3. CASE x = op
        BY <1>3, <2>3, <2>5, <4>1, <4>3
      <4>4. CASE x \in issued[s] \ Inserts(issued[s])
        BY <2>1, <2>3, <2>5, <4>4 DEF Delivered
      <4> QED BY <4>2, <4>3, <4>4
    <3>2. ASSUME Erase # "none", ~ connected'[s]
          PROVE  /\ DOMAIN doc'[s].nodes \subseteq InsertedIds(issued'[s])
                 /\ Inserts(issued'[s]) \subseteq ToSet(outbox'[s])
      <4>1. op.type = "insert" /\ ~ connected[r]
        BY <1>3, <2>2, <2>5, <3>2
      <4>2. DOMAIN doc[r].nodes \subseteq InsertedIds(issued[r]) /\ Inserts(issued[r]) \subseteq ToSet(outbox[r])
        BY <3>2, <4>1 DEF Delivered
      <4>3. Inserts(issued'[s]) \subseteq Inserts(issued[r]) \cup {op}
        BY <2>1, <2>5 DEF Inserts
      <4>4. ASSUME NEW x \in Inserts(issued[r]) PROVE x \in ToSet(outbox'[r])
        BY <1>3, <2>1, <4>1, <4>2, <4>4
      <4>5. InsertedIds(issued'[s]) = InsertedIds(issued[r]) \cup {op.id}
        BY <2>1, <2>5, <4>1 DEF InsertedIds, Inserts
      <4>6. DOMAIN doc'[s].nodes \subseteq InsertedIds(issued'[s])
        BY <1>3, <2>2, <2>5, <4>1, <4>2, <4>5
      <4> QED BY <2>1, <2>5, <4>3, <4>4, <4>6
    <3> QED BY <3>1, <3>2
  <2> QED BY <2>4, <2>5
<1>4. ASSUME NEW r \in Replica, Insert(r), NEW s \in Replica PROVE Ok(s)
  <2>1. PICK parent \in {ROOT} \cup VisibleIds(doc[r]) :
          AfterLocal(r, Tick(doc[r]), InsertAfter(doc[r], r, parent))
    BY <1>4 DEF Insert
  <2> DEFINE op == InsertAfter(doc[r], r, parent)
  <2>2. op.type = "insert"
    BY DEF InsertAfter
  <2> HIDE DEF op, Ok
  <2>3. AfterLocal(r, Tick(doc[r]), op)
    BY <2>1 DEF op
  <2>4. op \in Everything' /\ issued[r] \subseteq Everything'
    <3>1. Everything' = Everything \cup {op}
      BY <2>3, EditAdds
    <3> QED BY <3>1, IssuedIsEverything
  <2>5. ASSUME NEW x \in Inserts(issued[r]), x.id = op.id PROVE x = op
    <3>1. UniqueIds(Everything)'
      BY DEF Inv, Sources, Orderly
    <3>2. x \in Inserts(Everything') /\ op \in Inserts(Everything')
      BY <2>2, <2>4, <2>5 DEF Inserts
    <3> QED BY <2>5, <3>1, <3>2 DEF UniqueIds
  <2>6. DOMAIN Apply(Tick(doc[r]), op).nodes \subseteq DOMAIN doc[r].nodes \cup {op.id}
    <3>1. IsDoc(doc[r])
      BY <1>1 DEF Documents, Sound
    <3>2. IsDoc(Tick(doc[r])) /\ Tick(doc[r]).nodes = doc[r].nodes
      BY <3>1, TickEffect
    <3> QED BY <2>2, <3>2 DEF Apply, ApplyInsert, IsDoc
  <2> QED BY <1>3, <2>2, <2>3, <2>5, <2>6
<1>5. ASSUME NEW r \in Replica, Delete(r), NEW s \in Replica PROVE Ok(s)
  <2>1. PICK id \in VisibleIds(doc[r]) :
          /\ Erase = "confirmed" => \A i \in DOMAIN outbox[r] : outbox[r][i].id # id
          /\ AfterLocal(r, doc[r], DeleteOf(id))
    BY <1>5 DEF Delete
  <2>2. Erase = "confirmed"
    BY <1>5 DEF Delete, DeletesAreSafe
  <2> DEFINE op == DeleteOf(id)
  <2>3. op.type = "delete" /\ op.id = id
    BY DEF DeleteOf
  <2>4. connected[r]
    <3> SUFFICES ASSUME ~ connected[r] PROVE FALSE
      OBVIOUS
    <3>1. DOMAIN doc[r].nodes \subseteq InsertedIds(issued[r]) /\ Inserts(issued[r]) \subseteq ToSet(outbox[r])
      BY <2>2 DEF Delivered
    <3>2. id \in InsertedIds(issued[r])
      BY <2>1, <3>1 DEF VisibleIds
    <3>3. PICK x \in Inserts(issued[r]) : x.id = id
      BY <3>2 DEF InsertedIds
    <3> QED BY <2>1, <2>2, <3>1, <3>3 DEF ToSet
  <2> HIDE DEF op, Ok
  <2>5. AfterLocal(r, doc[r], op)
    BY <2>1 DEF op
  <2> QED BY <1>3, <2>2, <2>3, <2>4, <2>5
<1>6. ASSUME NEW r \in Replica, Drop(r), NEW s \in Replica PROVE Ok(s)
  <2>1. Erase = "none"
    <3>1. drops < MaxDrops /\ drops \in 0 .. MaxDrops
      BY <1>1, <1>6 DEF Drop, Types
    <3> QED BY <3>1 DEF DeletesAreSafe
  <2>2. issued' = issued
    BY <1>6 DEF Drop
  <2> QED BY <2>1, <2>2 DEF Delivered
<1>7. ASSUME NEW r \in Replica, Open(r), NEW s \in Replica PROVE Ok(s)
  <2>1. /\ issued' = issued /\ stored' = stored /\ doc' = doc /\ outbox' = outbox
        /\ ~ connected[r] /\ connected' = [connected EXCEPT ![r] = TRUE]
        /\ up' = [up EXCEPT ![r] = <<JoinMsg(head[r])>>]
    BY <1>7 DEF Open
  <2>2. up[r] = <<>>
    BY <1>1, <2>1 DEF Sockets, Joined, Waits
  <2>3. /\ s # r => up'[s] = up[s] /\ connected'[s] = connected[s]
        /\ s = r => connected'[s]
    BY <1>1, <2>1 DEF Types
  <2>4. ToSet(up[r]) = {}
    BY <2>2 DEF ToSet
  <2> QED BY <1>2, <2>1, <2>3, <2>4
<1>8. ASSUME NEW r \in Replica, OnWelcome(r) \/ OnStored(r), NEW s \in Replica PROVE Ok(s)
  <2>1. PICK entries, h : Takes(r, entries, h)
    BY <1>8, WelcomeTakes, StoredTakes
  <2>2. /\ r \in room /\ issued' = issued /\ stored' = stored /\ connected' = connected
        /\ doc' = [doc EXCEPT ![r] = Receives(@, Head(down[r]))]
        /\ outbox' = [outbox EXCEPT ![r] = IntegrateOutbox(@, entries)]
        /\ \A t \in Replica : t # r => up'[t] = up[t]
        /\ ToSet(up[r]) \subseteq ToSet(up'[r])
    BY <2>1 DEF Takes
  <2>3. connected[r]
    BY <1>1, <2>2 DEF Sockets, Joined
  <2>4. s # r => doc'[s] = doc[s] /\ outbox'[s] = outbox[s]
    BY <1>1, <2>2 DEF Types
  <2>5. ToSet(up[s]) \subseteq ToSet(up'[s])
    BY <2>2
  <2> HIDE DEF Ok
  <2> QED BY <1>2, <2>2, <2>3, <2>4, <2>5
<1>9. ASSUME NEW r \in Replica, OnJoin(r) \/ OnOp(r), NEW s \in Replica PROVE Ok(s)
  <2>1. /\ up[r] # <<>> /\ up[r] \in Seq(ClientMsg) /\ up' = [up EXCEPT ![r] = Tail(@)]
        /\ OnJoin(r) => Head(up[r]).type = "join"
        /\ issued' = issued /\ doc' = doc /\ outbox' = outbox /\ connected' = connected
        /\ OnJoin(r) => stored' = stored
    BY <1>1, <1>9 DEF OnJoin, OnOp, rooms, Types
  <2>2. ToSet(up[r]) = {Head(up[r])} \cup ToSet(Tail(up[r]))
    BY <2>1, TailElements
  <2>3. \A t \in Replica : up'[t] = IF t = r THEN Tail(up[r]) ELSE up[t]
    BY <1>1, <2>1 DEF Types
  <2>4. ToSet(stored) \subseteq ToSet(stored') /\ (OnOp(r) => Head(up[r]).op \in ToSet(stored'))
    BY <1>1, <1>9, <2>1, ServerStored
  <2>5. \A op : OpMsg(op).type = "op" /\ OpMsg(op).op = op
    BY DEF OpMsg
  <2>6. ASSUME NEW op, OpMsg(op) \in ToSet(up[s])
        PROVE  OpMsg(op) \in ToSet(up'[s]) \/ op \in ToSet(stored')
    <3>1. CASE s = r /\ OpMsg(op) = Head(up[r])
      <4>1. OnOp(r)
        BY <1>9, <2>1, <2>5, <3>1
      <4> QED BY <2>4, <2>5, <3>1, <4>1
    <3>2. CASE ~ (s = r /\ OpMsg(op) = Head(up[r]))
      BY <2>2, <2>3, <2>6, <3>2
    <3> QED BY <3>1, <3>2
  <2> HIDE DEF Ok
  <2> QED BY <1>2, <2>1, <2>4, <2>6
<1>10. ASSUME NEW r \in Replica, OnStale(r), NEW s \in Replica PROVE Ok(s)
  <2>1. /\ issued' = issued /\ doc' = doc /\ outbox' = outbox /\ connected' = connected
        /\ up' = up
    BY <1>10 DEF OnStale, rooms
  <2>2. ToSet(stored) \subseteq ToSet(stored')
    BY <1>1, <1>10, ServerStored
  <2> HIDE DEF Ok
  <2> QED BY <1>2, <2>1, <2>2
<1>11. ASSUME Sweep \/ UNCHANGED vars, NEW s \in Replica PROVE Ok(s)
  <2>1. /\ issued' = issued /\ doc' = doc /\ outbox' = outbox /\ connected' = connected
        /\ up' = up /\ stored' = stored
    BY <1>11 DEF Sweep, vars, rooms, sockets
  <2> HIDE DEF Ok
  <2> QED BY <1>2, <2>1
<1>12. \A s \in Replica : Ok(s)
  <2> HIDE DEF Ok
  <2> QED BY <1>4, <1>5, <1>6, <1>7, <1>8, <1>9, <1>10, <1>11
          DEF Next, Delivery, RoomStep, ServerStep, ClientStep
<1> QED BY <1>12 DEF Delivered

(* What was typed is stored, or in the outbox, while users delete only     *)
(* what has been confirmed: no drop, reconnect or echo loses it            *)
(* (room.ts:37-38).                                                        *)
THEOREM InsertsAreKept ==
  Erase # "any" => (Spec => [](Inv /\ Retained))
<1> SUFFICES ASSUME Erase # "any" PROVE Spec => [](Inv /\ Retained)
  OBVIOUS
<1>1. Init => Inv /\ Retained
  <2>1. Init => Retained
    BY DEF Init, Retained, Inserts, InsertedIds, DeletedIds, Everything
  <2> QED BY <2>1, InitInv
<1>2. Inv /\ Retained /\ [Next]_vars => Inv' /\ Retained'
  BY NextInv, NextRetained
<1> QED BY <1>1, <1>2, PTL DEF Spec

(* The same for deletes, while sockets do not break or nobody deletes. *)
THEOREM DeletesAreDelivered ==
  DeletesAreSafe => (Spec => [](Inv /\ Delivered))
<1> SUFFICES ASSUME DeletesAreSafe PROVE Spec => [](Inv /\ Delivered)
  OBVIOUS
<1>1. Init => Inv /\ Delivered
  <2>1. NewDoc.nodes = [id \in {} |-> [parent |-> ROOT, deleted |-> FALSE]]
    BY DEF NewDoc
  <2>2. DOMAIN NewDoc.nodes = {}
    BY <2>1
  <2>3. ASSUME Init, NEW r \in Replica
        PROVE  issued[r] = {} /\ DOMAIN doc[r].nodes = {}
    BY <2>2, <2>3 DEF Init
  <2>4. Init => Delivered
    BY <2>3 DEF Delivered, Inserts
  <2> QED BY <2>4, InitInv
<1>2. Inv /\ Delivered /\ [Next]_vars => Inv' /\ Delivered'
  BY NextInv, NextDelivered
<1> QED BY <1>1, <1>2, PTL DEF Spec

(* Every edit is stored, in its outbox or on a socket: no drop, reconnect  *)
(* or echo loses one (room.ts:37-38).                                      *)
THEOREM EditsAreKept ==
  DeletesAreSafe => (Spec => []NoEditLost)
<1> SUFFICES ASSUME DeletesAreSafe PROVE Spec => []NoEditLost
  OBVIOUS
<1>1. Spec => [](Inv /\ Retained)
  BY InsertsAreKept DEF DeletesAreSafe
<1>2. Spec => [](Inv /\ Delivered)
  BY DeletesAreDelivered
<1>3. Retained /\ Delivered => NoEditLost
  BY DEF Retained, Delivered, NoEditLost, Range, ToSet
<1> QED BY <1>1, <1>2, <1>3, PTL

(* Empty queues: no rest of the log, and no outbox entry on its way. *)
LEMMA RetainedAgrees == Inv /\ Intact /\ Retained /\ Delivered => QuietMeansAgreed
<1> SUFFICES ASSUME Inv, Intact, Retained, Delivered, Quiet PROVE Agreement
  BY DEF QuietMeansAgreed
<1>1. Types /\ Sources /\ Documents /\ Sockets /\ Flow /\ Pending
  BY DEF Inv
<1>2. ASSUME NEW r \in Replica
      PROVE  outbox[r] = <<>> /\ Sound(doc[r], ToSet(stored))
  <2>1. connected[r] /\ up[r] = <<>> /\ down[r] = <<>>
    BY DEF Quiet
  <2>2. r \in room
    BY <1>1, <2>1 DEF Sockets, Waits
  <2>3. ToSet(<<>>) = {} /\ Len(<<>>) = 0
    BY DEF ToSet
  <2>4. ToSet(outbox[r]) = {}
    BY <1>1, <2>1, <2>2, <2>3 DEF Pending, OnItsWay
  <2>5. outbox[r] = <<>>
    <3> DEFINE q == outbox[r]
    <3>1. q \in Seq(Op) /\ ToSet(q) = {}
      BY <1>1, <2>4 DEF Types
    <3> HIDE DEF q
    <3>2. q = <<>>
      BY <3>1, TailElements
    <3> QED BY <3>2 DEF q
  <2>6. head[r] = Len(stored)
    <3>1. Continues(head[r], <<>>, stored)
      BY <1>1, <2>1, <2>2 DEF Flow
    <3> QED BY <2>3, <3>1 DEF Continues
  <2>7. stored \in Seq(Op) /\ DOMAIN stored = 1 .. Len(stored)
    BY <1>1, LenProperties DEF Types
  <2>8. Known(r) = ToSet(stored)
    <3>1. issued[r] \subseteq ToSet(stored)
      BY <2>1, <2>3, <2>4 DEF Retained, Delivered
    <3>2. {stored[s] : s \in 1 .. head[r]} = ToSet(stored)
      BY <2>6, <2>7 DEF ToSet
    <3> QED BY <3>1, <3>2 DEF Known, UpTo
  <2> QED BY <2>5, <2>8, KnownIsSound
<1>3. ASSUME NEW r \in Replica, NEW s \in Replica PROVE doc[r] = doc[s]
  BY <1>2, SameOpsSameDocument DEF Sound
<1> QED BY <1>2, <1>3 DEF Agreement

(* When everyone is connected and nothing is on a socket, every edit has   *)
(* been confirmed and every room holds the same document.                  *)
THEOREM QuietIsAgreed ==
  MaxCompactions = 0 /\ DeletesAreSafe => (Spec => []QuietMeansAgreed)
<1> SUFFICES ASSUME MaxCompactions = 0, DeletesAreSafe PROVE Spec => []QuietMeansAgreed
  OBVIOUS
<1>1. Spec => [](Inv /\ Retained)
  BY InsertsAreKept DEF DeletesAreSafe
<1>2. Spec => [](Inv /\ Delivered)
  BY DeletesAreDelivered
<1>3. Inv /\ Retained /\ Delivered => QuietMeansAgreed
  BY RetainedAgrees DEF Intact
<1> QED BY <1>1, <1>2, <1>3, PTL

(* The same however often the log is compacted, while it is causal and     *)
(* sockets do not break.                                                   *)
THEOREM QuietIsAgreedWhenCompacted ==
  DeletesAreSafe /\ MaxDrops = 0 => (Spec => [](LogIsCausal => QuietMeansAgreed))
<1> SUFFICES ASSUME DeletesAreSafe, MaxDrops = 0
             PROVE  Spec => [](LogIsCausal => QuietMeansAgreed)
  OBVIOUS
<1>1. Spec => [](Inv /\ Retained)
  BY InsertsAreKept DEF DeletesAreSafe
<1>2. Spec => [](Inv /\ Delivered)
  BY DeletesAreDelivered
<1>3. Inv /\ Retained /\ Delivered => (LogIsCausal => QuietMeansAgreed)
  BY RetainedAgrees, CausalLogs DEF Intact
<1> QED BY <1>1, <1>2, <1>3, PTL
=============================================================================
