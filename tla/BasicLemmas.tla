---------------------------- MODULE BasicLemmas -----------------------------
(***************************************************************************)
(* Lemmas about the operators the models are built from: least and         *)
(* greatest elements of sets of natural numbers, and the queues of the     *)
(* sockets - a message appended, taken from the front, removed or replaced *)
(* in the middle, several of them delivered in order.                      *)
(***************************************************************************)
EXTENDS SequencesExt, FiniteSetsExt, FiniteSetTheorems, SequenceTheorems,
        WellFoundedInduction, TLAPS

-----------------------------------------------------------------------------
(* Numbers *)

(* Every nonempty set of naturals has a least element. *)
LEMMA LeastNatural ==
  ASSUME NEW T, T \subseteq Nat, T # {}
  PROVE  \E m \in T : \A k \in T : m <= k
<1>1. PICK m \in T : \A k \in T : ~ (<<k, m>> \in OpToRel(<, Nat))
  BY NatLessThanWellFounded, WFMin
<1>2. \A k \in T : m <= k
  <2> TAKE k \in T
  <2>1. ~ (k < m)
    <3>1. <<k, m>> \in Nat \X Nat /\ <<k, m>>[1] = k /\ <<k, m>>[2] = m
      OBVIOUS
    <3> QED BY <3>1, <1>1, Zenon DEF OpToRel
  <2> QED BY <2>1
<1> QED BY <1>2

(* Max of a bounded set is its greatest element: its least upper bound is  *)
(* in it.                                                                  *)
LEMMA MaxIsGreatest ==
  ASSUME NEW S \in SUBSET Nat, S # {}, NEW n \in Nat, \A x \in S : x <= n
  PROVE  Max(S) \in S /\ \A x \in S : x <= Max(S)
<1> DEFINE Bounds == {k \in Nat : \A x \in S : x <= k}
<1>1. PICK m \in Bounds : \A k \in Bounds : m <= k
  <2>1. n \in Bounds /\ Bounds \subseteq Nat
    OBVIOUS
  <2> HIDE DEF Bounds
  <2> QED BY <2>1, LeastNatural
<1>2. m \in S
  <2> SUFFICES ASSUME m \notin S PROVE FALSE
    OBVIOUS
  <2>1. PICK x \in S : TRUE
    OBVIOUS
  <2>2. m - 1 \in Nat
    BY <2>1, <1>1
  <2>3. m - 1 \in Bounds
    BY <2>2, <1>1
  <2> QED BY <2>3, <1>1
<1>3. \A x \in S : m >= x
  BY <1>1
<1> QED BY <1>2, <1>3 DEF Max

(* What holds of 0, and of a number when it holds of the one before, holds *)
(* up to any number.                                                       *)
LEMMA Interval ==
  ASSUME NEW n \in Nat, NEW G, 0 \in G, \A i \in 1 .. n : i - 1 \in G => i \in G
  PROVE  \A i \in 0 .. n : i \in G
<1> DEFINE T == {i \in 0 .. n : i \notin G}
<1> SUFFICES ASSUME T # {} PROVE FALSE
  OBVIOUS
<1>1. PICK m \in T : \A k \in T : m <= k
  <2>1. T \subseteq Nat
    OBVIOUS
  <2> HIDE DEF T
  <2> QED BY <2>1, LeastNatural
<1>2. m \in 1 .. n /\ m - 1 \in 0 .. n
  BY <1>1
<1>3. m - 1 \notin T
  BY <1>1, <1>2
<1> QED BY <1>1, <1>2, <1>3

(* The greatest of a set of numbers up to k. *)
LEMMA MaxUpTo ==
  ASSUME NEW k \in Nat, NEW t \in SUBSET (1 .. k), t # {}
  PROVE  Max(t) \in t /\ (k \in t => Max(t) = k) /\ t \ {Max(t)} \in SUBSET (1 .. (k - 1))
<1>1. PICK m \in t : m = Max(t) /\ \A x \in t : x <= m
  <2>1. t \in SUBSET Nat /\ \A x \in t : x <= k
    OBVIOUS
  <2> QED BY <2>1, MaxIsGreatest
<1>2. \A x \in t : x \in Nat /\ x >= 1 /\ x <= k
  OBVIOUS
<1>3. k \in t => m = k
  BY <1>1, <1>2
<1>4. ASSUME NEW x \in t, x # m PROVE x \in 1 .. (k - 1)
  <2>1. x <= m /\ m <= k /\ x \in Nat /\ m \in Nat /\ x >= 1
    BY <1>1, <1>2, <1>4
  <2> QED BY <1>4, <2>1
<1> QED BY <1>1, <1>3, <1>4

-----------------------------------------------------------------------------
(* Queues *)

(* A message put on a queue. *)
LEMMA AppendElements ==
  ASSUME NEW S, NEW s \in Seq(S), NEW e \in S
  PROVE  /\ Append(s, e) \in Seq(S) /\ Len(Append(s, e)) = Len(s) + 1
         /\ ToSet(Append(s, e)) = ToSet(s) \cup {e}
         /\ DOMAIN Append(s, e) = DOMAIN s \cup {Len(s) + 1}
         /\ \A i \in DOMAIN s : Append(s, e)[i] = s[i]
         /\ Append(s, e)[Len(s) + 1] = e
<1> DEFINE t == Append(s, e)
<1>1. /\ t \in Seq(S) /\ Len(t) = Len(s) + 1 /\ Len(s) \in Nat
      /\ t[Len(s) + 1] = e /\ \A i \in 1 .. Len(s) : t[i] = s[i]
  BY AppendProperties
<1>2. DOMAIN t = 1 .. (Len(s) + 1) /\ DOMAIN s = 1 .. Len(s)
  BY <1>1
<1> HIDE DEF t
<1>3. DOMAIN t = DOMAIN s \cup {Len(s) + 1}
  BY <1>1, <1>2
<1>4. ToSet(t) = ToSet(s) \cup {e}
  BY <1>1, <1>2, <1>3 DEF ToSet
<1> QED BY <1>1, <1>2, <1>3, <1>4 DEF t

(* The message at the front, taken off. *)
LEMMA TailElements ==
  ASSUME NEW S, NEW s \in Seq(S), s # <<>>
  PROVE  /\ Head(s) \in S /\ Head(s) \in ToSet(s) /\ Head(s) = s[1]
         /\ Tail(s) \in Seq(S) /\ Len(Tail(s)) = Len(s) - 1
         /\ ToSet(s) = {Head(s)} \cup ToSet(Tail(s))
         /\ \A i \in DOMAIN Tail(s) : i + 1 \in DOMAIN s /\ Tail(s)[i] = s[i + 1]
         /\ \A i \in DOMAIN s : i # 1 => i - 1 \in DOMAIN Tail(s) /\ Tail(s)[i - 1] = s[i]
<1> DEFINE t == Tail(s)
<1>1. /\ Len(s) \in Nat /\ Len(s) > 0 /\ DOMAIN s = 1 .. Len(s) /\ Head(s) = s[1] /\ s[1] \in S
      /\ t \in Seq(S) /\ Len(t) = Len(s) - 1 /\ DOMAIN t = 1 .. (Len(s) - 1)
      /\ \A i \in 1 .. (Len(s) - 1) : t[i] = s[i + 1]
  BY HeadTailProperties, EmptySeq
<1> HIDE DEF t
<1>2. /\ \A i \in DOMAIN t : i + 1 \in DOMAIN s /\ t[i] = s[i + 1]
      /\ \A i \in DOMAIN s : i # 1 => i - 1 \in DOMAIN t /\ t[i - 1] = s[i]
      /\ 1 \in DOMAIN s
  BY <1>1
<1>3. ToSet(s) = {s[1]} \cup ToSet(t)
  BY <1>2 DEF ToSet
<1> QED BY <1>1, <1>2, <1>3 DEF t, ToSet

(* Messages put on a queue together. *)
LEMMA ConcatElements ==
  ASSUME NEW S, NEW s \in Seq(S), NEW t \in Seq(S)
  PROVE  /\ s \o t \in Seq(S) /\ ToSet(s \o t) = ToSet(s) \cup ToSet(t)
         /\ s # <<>> => s \o t # <<>> /\ Head(s \o t) = Head(s)
<1> DEFINE u == s \o t
<1>1. /\ u \in Seq(S) /\ Len(s) \in Nat /\ Len(t) \in Nat /\ Len(u) = Len(s) + Len(t)
      /\ DOMAIN u = 1 .. (Len(s) + Len(t)) /\ DOMAIN s = 1 .. Len(s) /\ DOMAIN t = 1 .. Len(t)
      /\ \A i \in 1 .. Len(s) : u[i] = s[i]
      /\ \A i \in 1 .. Len(t) : u[Len(s) + i] = t[i]
  BY ConcatProperties
<1> HIDE DEF u
<1>2. ToSet(s) \subseteq ToSet(u)
  BY <1>1 DEF ToSet
<1>3. ToSet(t) \subseteq ToSet(u)
  <2>1. \A i \in 1 .. Len(t) : Len(s) + i \in DOMAIN u /\ u[Len(s) + i] = t[i]
    BY <1>1
  <2>2. DOMAIN t = 1 .. Len(t)
    BY <1>1
  <2> QED BY <2>1, <2>2, SMTT(30) DEF ToSet
<1>4. ToSet(u) \subseteq ToSet(s) \cup ToSet(t)
  <2>1. \A i \in DOMAIN u : i \in DOMAIN s \/ (i - Len(s) \in DOMAIN t /\ u[i] = t[i - Len(s)])
    <3> SUFFICES ASSUME NEW i \in DOMAIN u, i \notin DOMAIN s
                 PROVE  i - Len(s) \in DOMAIN t /\ u[i] = t[i - Len(s)]
      OBVIOUS
    <3>1. i - Len(s) \in 1 .. Len(t) /\ i = Len(s) + (i - Len(s))
      BY <1>1
    <3> QED BY <1>1, <3>1
  <2> QED BY <1>1, <2>1 DEF ToSet
<1>5. s # <<>> => u # <<>> /\ Head(u) = Head(s)
  <2> SUFFICES ASSUME s # <<>> PROVE u # <<>> /\ Head(u) = Head(s)
    OBVIOUS
  <2>1. Len(s) > 0
    BY EmptySeq
  <2>2. Len(u) > 0 /\ u[1] = s[1]
    BY <1>1, <2>1
  <2>3. u # <<>>
    BY <2>2, EmptySeq
  <2>4. Head(u) = u[1] /\ Head(s) = s[1]
    BY <1>1, <2>3, HeadTailProperties
  <2> QED BY <2>2, <2>3, <2>4
<1> QED BY <1>1, <1>2, <1>3, <1>4, <1>5 DEF u

(* The first messages of a queue. *)
LEMMA PrefixElements ==
  ASSUME NEW S, NEW s \in Seq(S), NEW k \in 0 .. Len(s)
  PROVE  SubSeq(s, 1, k) \in Seq(S) /\ ToSet(SubSeq(s, 1, k)) \subseteq ToSet(s)
<1> DEFINE t == SubSeq(s, 1, k)
<1>1. /\ t \in Seq(S) /\ Len(t) = k /\ DOMAIN t = 1 .. k /\ DOMAIN s = 1 .. Len(s)
      /\ \A i \in 1 .. k : t[i] = s[i] /\ i \in 1 .. Len(s)
  OBVIOUS
<1> HIDE DEF t
<1>2. ToSet(t) \subseteq ToSet(s)
  BY <1>1 DEF ToSet
<1> QED BY <1>1, <1>2 DEF t

(* One of a list, taken out. *)
LEMMA RemoveElements ==
  ASSUME NEW S, NEW s \in Seq(S), NEW i \in DOMAIN s
  PROVE  /\ RemoveAt(s, i) \in Seq(S)
         /\ s[i] \in S /\ s[i] \in ToSet(s)
         /\ ToSet(RemoveAt(s, i)) \subseteq ToSet(s)
         /\ ToSet(s) \subseteq ToSet(RemoveAt(s, i)) \cup {s[i]}
<1> DEFINE a == SubSeq(s, 1, i - 1)
           b == SubSeq(s, i + 1, Len(s))
<1>1. DOMAIN s = 1 .. Len(s) /\ Len(s) \in Nat /\ i \in 1 .. Len(s)
  OBVIOUS
<1>2. /\ a \in Seq(S) /\ Len(a) = i - 1 /\ DOMAIN a = 1 .. (i - 1)
      /\ \A j \in 1 .. (i - 1) : a[j] = s[j]
  BY <1>1
<1>3. /\ b \in Seq(S) /\ Len(b) = Len(s) - i /\ DOMAIN b = 1 .. (Len(s) - i)
      /\ \A j \in 1 .. (Len(s) - i) : b[j] = s[i + j]
  <2>1. CASE i + 1 <= Len(s)
    <3>1. /\ b \in Seq(S) /\ Len(b) = Len(s) - i /\ DOMAIN b = 1 .. (Len(s) - i)
          /\ \A j \in 1 .. (Len(s) - i) : b[j] = s[i + 1 + j - 1]
      BY <1>1, <2>1
    <3>2. \A j \in 1 .. (Len(s) - i) : i + 1 + j - 1 = i + j
      BY <1>1
    <3> QED BY <3>1, <3>2
  <2>2. CASE i = Len(s)
    <3>1. b = <<>> /\ Len(s) - i = 0
      BY <1>1, <2>2
    <3> QED BY <3>1
  <2> QED BY <1>1, <2>1, <2>2
<1>4. RemoveAt(s, i) = a \o b
  BY DEF RemoveAt
<1> HIDE DEF a, b
<1>5. a \o b \in Seq(S) /\ ToSet(a \o b) = ToSet(a) \cup ToSet(b)
  BY <1>2, <1>3, ConcatElements
<1>6. ToSet(a) \subseteq ToSet(s)
  <2>1. \A j \in 1 .. (i - 1) : j \in DOMAIN s
    BY <1>1
  <2> QED BY <1>2, <2>1 DEF ToSet
<1>7. ToSet(b) \subseteq ToSet(s)
  <2>1. \A j \in 1 .. (Len(s) - i) : i + j \in DOMAIN s
    BY <1>1
  <2> QED BY <1>3, <2>1 DEF ToSet
<1>8. ToSet(s) \subseteq ToSet(a) \cup ToSet(b) \cup {s[i]}
  <2>1. \A j \in DOMAIN s : \/ j = i
                            \/ j \in DOMAIN a
                            \/ j - i \in DOMAIN b /\ i + (j - i) = j
    BY <1>1, <1>2, <1>3
  <2>2. \A j \in DOMAIN s : s[j] \in ToSet(a) \cup ToSet(b) \cup {s[i]}
    <3> SUFFICES ASSUME NEW j \in DOMAIN s PROVE s[j] \in ToSet(a) \cup ToSet(b) \cup {s[i]}
      OBVIOUS
    <3>1. CASE j \in DOMAIN a
      BY <3>1, <1>2 DEF ToSet
    <3>2. CASE j - i \in DOMAIN b /\ i + (j - i) = j
      <4>1. b[j - i] = s[j]
        BY <3>2, <1>3
      <4> QED BY <3>2, <4>1 DEF ToSet
    <3> QED BY <2>1, <3>1, <3>2
  <2> QED BY <2>2 DEF ToSet
<1>9. s[i] \in S /\ s[i] \in ToSet(s)
  BY <1>1 DEF ToSet
<1> QED BY <1>4, <1>5, <1>6, <1>7, <1>8, <1>9

(* One of a list, replaced. *)
LEMMA ReplaceElements ==
  ASSUME NEW S, NEW s \in Seq(S), NEW i \in DOMAIN s, NEW e \in S
  PROVE  /\ [s EXCEPT ![i] = e] \in Seq(S)
         /\ s[i] \in S /\ s[i] \in ToSet(s) /\ e \in ToSet([s EXCEPT ![i] = e])
         /\ ToSet([s EXCEPT ![i] = e]) \subseteq ToSet(s) \cup {e}
         /\ ToSet(s) \subseteq ToSet([s EXCEPT ![i] = e]) \cup {s[i]}
<1> DEFINE t == [s EXCEPT ![i] = e]
<1>1. DOMAIN t = DOMAIN s /\ t[i] = e /\ \A j \in DOMAIN s : j # i => t[j] = s[j]
  OBVIOUS
<1>2. t \in Seq(S)
  OBVIOUS
<1> HIDE DEF t
<1> QED BY <1>1, <1>2 DEF ToSet, t
=============================================================================
