------------------------- MODULE SharedStoreProofs --------------------------
(***************************************************************************)
(* The shared stores, for every set of appends, joins and sweeps, however  *)
(* they interleave.                                                        *)
(*                                                                         *)
(* NumberInv holds whatever runs at the same time: what the two stores     *)
(* keep is numbered below their head.  LogInv holds as long as no two      *)
(* sweeps were under way together and the seed was not run again: what has *)
(* been served stays served, but for the appends a compaction has outrun,  *)
(* which every part of it excepts.                                         *)
(***************************************************************************)
EXTENDS SharedStore, BasicLemmas

-----------------------------------------------------------------------------
(* Where a backend keeps its operations. *)
OwnKeys ==
  /\ backend = "postgres" => list = <<>>
  /\ backend = "redis" => table = {}
  /\ backend \in {"postgres", "redis"}
  /\ \E n \in Nat : \A e \in table : e.seq <= n

(* In Postgres a snapshot folds nothing above its version. *)
Capped(snap) == \A e \in snap.folded : e.seq <= snap.version

PostgresNumbers ==
  backend = "postgres" =>
    /\ Capped(snapshot)
    /\ \A c \in Sweeps :
         /\ Capped(sweep[c].prev)
         /\ sweep[c].pc = "folded" => Capped(Folded(c))

(* In Redis every number was counted. *)
Counted(rows) == \A e \in rows : e.seq <= counter

RedisNumbers ==
  backend = "redis" =>
    /\ Counted(Rows) /\ Counted(snapshot.folded) /\ snapshot.version <= counter
    /\ \A w \in Writers : writer[w].seq <= counter
    /\ \A c \in Sweeps :
         /\ Counted(sweep[c].prev.folded) /\ Counted(sweep[c].rows)
         /\ sweep[c].last <= counter
         /\ IsFiniteSet(sweep[c].rows)

Begun ==
  /\ \A w \in Writers : Pending(w) => writer[w].seq > 0 /\ writer[w].tries < MaxAttempts
  /\ \A c \in Sweeps : sweep[c].pc = "saved" => backend = "redis"

NumberInv == TypeOK /\ OwnKeys /\ PostgresNumbers /\ RedisNumbers /\ Begun

JoinsTyped ==
  join \in [Joins -> [pc : {"new", "head", "snapshot", "welcomed"}, head : Nat, snap : Snap,
                     got : SUBSET Entry, before : SUBSET Entry, cut : BOOLEAN]]

HistoryTyped == outrun \subseteq Writers /\ overlapped \in BOOLEAN /\ reseeded \in BOOLEAN

-----------------------------------------------------------------------------
(* Only one sweep is under way. *)
Alone == \A c, d \in Sweeps : sweep[c].pc # "idle" /\ sweep[d].pc # "idle" => c = d

(* A snapshot under construction is made from the one there is. *)
SweepInOrder ==
  \A c \in Sweeps :
    /\ sweep[c].pc \in {"loaded", "folded"} =>
         /\ sweep[c].prev = snapshot
         /\ backend = "postgres" => table # {}
    /\ sweep[c].pc = "folded" =>
         /\ sweep[c].rows \subseteq Since(snapshot.version)
         /\ sweep[c].last \in Numbers(sweep[c].rows)

(* What lies at or below a version, now or when the sweep has written it,  *)
(* is folded, and no append will put anything there: but for those that    *)
(* were outrun.                                                            *)
NothingBelow(snap) ==
  /\ \A e \in Kept(Rows) : e.seq <= snap.version => e \in snap.folded
  /\ \A w \in Writers \ outrun : Pending(w) => writer[w].seq > snap.version

FoldedBelow ==
  /\ NothingBelow(snapshot)
  /\ \A c \in Sweeps : sweep[c].pc = "folded" => NothingBelow(Folded(c))

(* What LTRIM will drop is folded, or was outrun. *)
FrontFolded(n, folded) ==
  n <= Len(list) /\ \A i \in 1 .. n : list[i] \in folded \/ list[i].op \in outrun

TrimsFolded ==
  backend = "redis" => \A c \in Sweeps :
    /\ sweep[c].pc = "folded" => FrontFolded(Cardinality(sweep[c].rows), Folded(c).folded)
    /\ sweep[c].pc = "saved" => FrontFolded(Cardinality(sweep[c].rows), snapshot.folded)

(* INCR gives each append a number of its own. *)
OwnNumbers ==
  backend = "redis" => \A w \in Writers : Pending(w) =>
    /\ writer[w].seq \notin Numbers(Served)
    /\ \A v \in Writers : Pending(v) /\ writer[v].seq = writer[w].seq => v = w

(* Where an entry is from. *)
Seeded(e) == e = [seq |-> SeedLength, op |-> SeedText]
Appended(e) == e.op \in Writers /\ Stored(e.op)

Known ==
  /\ \A e \in Rows : Appended(e)
  /\ \A e \in snapshot.folded : Appended(e) \/ Seeded(e)
  /\ \A j \in Joins : \A e \in join[j].before : Appended(e) \/ Seeded(e)
  /\ snapshot.version <= SeedLength \/ \E w \in Writers : Stored(w)

(* What a join found when it began is still served, or what it has read.   *)
JoinsKeep ==
  \A j \in Joins :
    /\ Kept(join[j].before) \subseteq Served
    /\ join[j].pc = "snapshot" /\ ~ join[j].cut =>
         Kept(join[j].before) \subseteq join[j].snap.folded \cup Since(join[j].snap.version)
    /\ join[j].pc = "welcomed" /\ ~ join[j].cut => Kept(join[j].before) \subseteq join[j].got

(* The log has one operation more, under a number of its own. *)
Grows ==
  \E e \in Kept(Served)' \ Kept(Served) :
    /\ Kept(Served)' = Kept(Served) \cup {e}
    /\ e.op \in Writers \cup {SeedText}
    /\ \A f \in Kept(Served) : f.seq # e.seq

AckedStays == \A w \in Writers \ outrun : Stored(w) => IsServed(w)

LogInv ==
  /\ Alone /\ SweepInOrder /\ FoldedBelow /\ TrimsFolded /\ OwnNumbers
  /\ Known /\ JoinsKeep /\ AckedStays

-----------------------------------------------------------------------------
(* Facts about the reads *)

(* The elements of a list are no more than it is long. *)
LEMMA ListIsFinite ==
  ASSUME NEW S, NEW s \in Seq(S)
  PROVE  IsFiniteSet(ToSet(s)) /\ Cardinality(ToSet(s)) <= Len(s)
<1>1. Len(s) \in Nat /\ DOMAIN s = 1 .. Len(s) /\ s \in [1 .. Len(s) -> ToSet(s)]
  BY DEF ToSet
<1>2. s \in Surjection(1 .. Len(s), ToSet(s))
  BY <1>1 DEF Surjection, ToSet
<1>3. IsFiniteSet(1 .. Len(s)) /\ Cardinality(1 .. Len(s)) = Len(s)
  BY <1>1, FS_Interval
<1> QED BY <1>2, <1>3, FS_Surjection

(* The head is the largest number there is (postgres.ts:133-144). *)
LEMMA HeadIsTop ==
  TypeOK /\ OwnKeys =>
    /\ Head1 \in Nat
    /\ backend = "redis" => Head1 = counter
    /\ backend = "postgres" =>
         /\ Head1 = snapshot.version \/ Head1 \in Numbers(table)
         /\ snapshot.version <= Head1
         /\ \A e \in table : e.seq <= Head1
<1> SUFFICES ASSUME TypeOK, OwnKeys, backend = "postgres"
             PROVE  /\ Head1 \in Nat
                    /\ Head1 = snapshot.version \/ Head1 \in Numbers(table)
                    /\ snapshot.version <= Head1
                    /\ \A e \in table : e.seq <= Head1
  BY DEF OwnKeys, Head1, TypeOK
<1> DEFINE S == {snapshot.version} \cup Numbers(table)
<1>1. S \in SUBSET Nat /\ S # {}
  BY DEF TypeOK, Snap, Entry, Numbers
<1>2. PICK n \in Nat : \A e \in table : e.seq <= n
  BY DEF OwnKeys
<1>3. \A x \in S : x <= n + snapshot.version
  <2>1. snapshot.version \in Nat /\ \A e \in table : e.seq \in Nat
    BY DEF TypeOK, Snap, Entry
  <2> QED BY <2>1, <1>2 DEF Numbers
<1>4. n + snapshot.version \in Nat
  BY DEF TypeOK, Snap
<1>5. Max(S) \in S /\ \A x \in S : x <= Max(S)
  <2> HIDE DEF S
  <2> QED BY <1>1, <1>3, <1>4, MaxIsGreatest
<1>6. Head1 = Max(S)
  BY DEF Head1
<1> QED BY <1>1, <1>5, <1>6 DEF Numbers

(* A sweep's version is the number of a row it folds, in Postgres the last *)
(* (postgres.ts:170, redis.ts:104).                                        *)
LEMMA LastIsOfARow ==
  TypeOK /\ OwnKeys =>
    \A after \in Nat : Since(after) # {} =>
      /\ LastSeq(after) \in Numbers(Since(after))
      /\ backend = "postgres" => \A e \in Since(after) : e.seq <= LastSeq(after)
<1> SUFFICES ASSUME TypeOK, OwnKeys, NEW after \in Nat, Since(after) # {}
             PROVE  /\ LastSeq(after) \in Numbers(Since(after))
                    /\ backend = "postgres" => \A e \in Since(after) : e.seq <= LastSeq(after)
  OBVIOUS
<1>1. CASE backend = "redis"
  <2> DEFINE S == {i \in DOMAIN list : list[i].seq > after}
  <2>1. S \in SUBSET Nat /\ Len(list) \in Nat /\ \A i \in S : i <= Len(list)
    BY DEF TypeOK
  <2>2. S # {}
    BY <1>1 DEF Since, Rows, OwnKeys, ToSet
  <2>3. Max(S) \in S
    <3> HIDE DEF S
    <3> QED BY <2>1, <2>2, MaxIsGreatest
  <2>4. LastSeq(after) = list[Max(S)].seq
    BY <1>1 DEF LastSeq
  <2>5. list[Max(S)] \in Since(after)
    BY <2>3 DEF Since, Rows, ToSet
  <2> QED BY <1>1, <2>4, <2>5 DEF Numbers
<1>2. CASE backend = "postgres"
  <2> DEFINE S == Numbers(Since(after))
  <2>1. PICK n \in Nat : \A e \in table : e.seq <= n
    BY DEF OwnKeys
  <2>2. Since(after) \subseteq table
    BY <1>2 DEF Since, Rows, OwnKeys, ToSet
  <2>3. S \in SUBSET Nat /\ S # {} /\ \A x \in S : x <= n
    BY <2>1, <2>2 DEF TypeOK, Entry, Numbers
  <2>4. Max(S) \in S /\ \A x \in S : x <= Max(S)
    <3> HIDE DEF S
    <3> QED BY <2>3, MaxIsGreatest
  <2>5. LastSeq(after) = Max(S)
    BY <1>2 DEF LastSeq
  <2> QED BY <2>4, <2>5 DEF Numbers
<1> QED BY <1>1, <1>2 DEF OwnKeys

(* What is read is entries of the log. *)
LEMMA ReadsAreTyped ==
  TypeOK =>
    /\ Rows \subseteq Entry /\ Served \subseteq Entry
    /\ \A after : Since(after) \subseteq Rows
<1> SUFFICES ASSUME TypeOK
             PROVE  Rows \subseteq Entry /\ Served \subseteq Entry /\ \A after : Since(after) \subseteq Rows
  OBVIOUS
<1>1. ToSet(list) \subseteq Entry
  BY DEF TypeOK, ToSet
<1>2. Rows \subseteq Entry
  BY <1>1 DEF Rows, TypeOK
<1> QED BY <1>2 DEF Since, Served, TypeOK, Snap

(* LTRIM leaves the entries after the first n. *)
LEMMA TrimLeavesTheRest ==
  ASSUME NEW S, NEW s \in Seq(S), NEW n \in Nat
  PROVE  /\ SubSeq(s, n + 1, Len(s)) \in Seq(S)
         /\ ToSet(SubSeq(s, n + 1, Len(s))) = {s[i] : i \in (n + 1) .. Len(s)}
<1> DEFINE t == SubSeq(s, n + 1, Len(s))
<1>1. CASE n + 1 <= Len(s) + 1
  <2>1. /\ t \in Seq(S) /\ Len(t) = Len(s) - n /\ DOMAIN t = 1 .. (Len(s) - n)
        /\ \A i \in 1 .. (Len(s) - n) : t[i] = s[i + n]
    BY <1>1
  <2>2. \A i \in (n + 1) .. Len(s) : i - n \in 1 .. (Len(s) - n) /\ t[i - n] = s[i]
    BY <2>1
  <2>3. \A i \in 1 .. (Len(s) - n) : i + n \in (n + 1) .. Len(s)
    OBVIOUS
  <2> HIDE DEF t
  <2>4. ToSet(t) \subseteq {s[i] : i \in (n + 1) .. Len(s)}
    BY <2>1, <2>3 DEF ToSet
  <2>5. {s[i] : i \in (n + 1) .. Len(s)} \subseteq ToSet(t)
    <3> SUFFICES ASSUME NEW i \in (n + 1) .. Len(s)
                 PROVE  s[i] \in ToSet(t)
      OBVIOUS
    <3>1. i - n \in DOMAIN t /\ s[i] = t[i - n]
      BY <2>1, <2>2
    <3> QED BY <3>1 DEF ToSet
  <2> QED BY <2>1, <2>4, <2>5 DEF t
<1>2. CASE n + 1 > Len(s) + 1
  <2>1. t = <<>> /\ (n + 1) .. Len(s) = {}
    BY <1>2
  <2> QED BY <2>1 DEF ToSet
<1> QED BY <1>1, <1>2

-----------------------------------------------------------------------------
(* Numbers stay below the head *)

(* Nothing is stored at first. *)
LEMMA InitNumbers == Init => NumberInv
<1> SUFFICES ASSUME Init PROVE NumberInv
  OBVIOUS
<1>1. NoSnapshot \in Snap /\ NoSnapshot.folded = {} /\ NoSnapshot.version = 0
  BY DEF NoSnapshot, Snap
<1>2. ToSet(list) = {} /\ list \in Seq(Entry)
  BY DEF Init, ToSet
<1>3. \A c \in Sweeps : sweep[c] = Idle
  BY DEF Init
<1>4. /\ Idle.pc = "idle" /\ Idle.prev = NoSnapshot /\ Idle.rows = {} /\ Idle.last = 0
      /\ Idle \in [pc : {"idle", "loaded", "folded", "saved"},
                   prev : Snap, rows : SUBSET Entry, last : Nat]
  BY <1>1 DEF Idle
<1>5. TypeOK
  <2>1. JoinsTyped /\ HistoryTyped
    BY <1>1 DEF Init, JoinsTyped, HistoryTyped
  <2>2. writer \in [Writers -> [pc : {"new", "numbered", "stored", "failed"},
                               seq : Nat, tries : 0 .. MaxAttempts]]
    BY SharedStoreAssumption DEF Init
  <2> QED
    BY <1>1, <1>2, <1>4, <2>1, <2>2, SharedStoreAssumption
       DEF Init, TypeOK, JoinsTyped, HistoryTyped
<1>6. OwnKeys
  BY SharedStoreAssumption DEF Init, OwnKeys
<1>7. PostgresNumbers
  BY <1>1, <1>3, <1>4 DEF Init, PostgresNumbers, Capped
<1>8. RedisNumbers
  <2>1. Rows = {} /\ snapshot.folded = {} /\ snapshot.version = 0 /\ counter = 0
    BY <1>1, <1>2 DEF Init, Rows
  <2>2. \A w \in Writers : writer[w].seq = 0
    BY DEF Init
  <2>3. \A c \in Sweeps : /\ sweep[c].prev.folded = {} /\ sweep[c].rows = {}
                         /\ sweep[c].last = 0 /\ IsFiniteSet(sweep[c].rows)
    BY <1>1, <1>3, <1>4, FS_EmptySet
  <2> QED BY <2>1, <2>2, <2>3 DEF RedisNumbers, Counted
<1>9. Begun
  BY <1>3, <1>4 DEF Init, Begun, Pending
<1> QED BY <1>5, <1>6, <1>7, <1>8, <1>9 DEF NumberInv

(* A stored operation is read from then on. *)
LEMMA StoreAddsItsRow ==
  ASSUME TypeOK, OwnKeys, NEW w \in Writers, writer[w].seq > 0, Store(w)
  PROVE  Rows' = Rows \cup {[seq |-> writer[w].seq, op |-> w]}
<1> DEFINE e == [seq |-> writer[w].seq, op |-> w]
<1>1. CASE backend = "postgres"
  BY <1>1 DEF Store, Rows
<1>2. CASE backend = "redis"
  <2>1. e \in Entry /\ list \in Seq(Entry) /\ list' = Append(list, e) /\ table' = table
    BY <1>2 DEF Store, TypeOK, Entry
  <2>2. /\ Len(list) \in Nat /\ Len(list') = Len(list) + 1 /\ list'[Len(list) + 1] = e
        /\ DOMAIN list = 1 .. Len(list) /\ DOMAIN list' = 1 .. Len(list')
        /\ \A i \in 1 .. Len(list) : list'[i] = list[i]
    BY <2>1, AppendProperties
  <2>3. ToSet(list') = ToSet(list) \cup {e}
    BY <2>2 DEF ToSet
  <2> QED BY <2>1, <2>3 DEF Rows
<1> QED BY <1>1, <1>2 DEF OwnKeys

(* What the history variables hold. *)
LEMMA HistoryIsTyped == TypeOK /\ Next => HistoryTyped'
<1> SUFFICES ASSUME TypeOK, Next PROVE HistoryTyped'
  OBVIOUS
<1>1. HistoryTyped
  BY DEF TypeOK, HistoryTyped
<1>2. ASSUME NEW w \in Writers, AppendStep(w) PROVE HistoryTyped'
  BY <1>1, <1>2 DEF AppendStep, TakeNumber, Store, LoseRace, AppendDies, history, HistoryTyped
<1>3. ASSUME NEW c \in Sweeps, SweepStep(c) PROVE HistoryTyped'
  <2>1. CASE StartSweep(c)
    BY <1>1, <2>1 DEF StartSweep, HistoryTyped
  <2>2. CASE ReadLog(c)
    <3> DEFINE base == sweep[c].prev.version
               more == IF Since(base) = {} THEN {} ELSE HalfDone(LastSeq(base))
    <3>1. more \subseteq Writers
      BY DEF HalfDone
    <3>2. outrun' = outrun \cup more /\ UNCHANGED <<overlapped, reseeded>>
      BY <2>2 DEF ReadLog
    <3> HIDE DEF more
    <3> QED BY <1>1, <3>1, <3>2 DEF HistoryTyped
  <2>3. CASE Replace(c) \/ SaveSnapshot(c) \/ Trim(c) \/ SweepDies(c)
    BY <1>1, <2>3 DEF Replace, SaveSnapshot, Trim, SweepDies, history, HistoryTyped
  <2> QED BY <1>3, <2>1, <2>2, <2>3 DEF SweepStep
<1>4. ASSUME NEW j \in Joins, JoinStep(j) PROVE HistoryTyped'
  BY <1>1, <1>4 DEF JoinStep, ReadHead, ReadSnapshot, ReadRest, history, HistoryTyped
<1>5. ASSUME Seed PROVE HistoryTyped'
  BY <1>1, <1>5 DEF Seed, HistoryTyped
<1> QED BY <1>2, <1>3, <1>4, <1>5 DEF Next

(* A compaction only marks the joins it cuts off: those that have read     *)
(* another snapshot than the one that now stands.                          *)
LEMMA CutIsTyped ==
  ASSUME JoinsTyped, NEW snap, CutJoins(snap)
  PROVE  /\ JoinsTyped'
         /\ \A j \in Joins :
              /\ join'[j].pc = join[j].pc /\ join'[j].snap = join[j].snap
              /\ join'[j].got = join[j].got /\ join'[j].before = join[j].before
              /\ ~ join'[j].cut => ~ join[j].cut /\ (join[j].pc = "snapshot" => join[j].snap = snap)
<1> SUFFICES ASSUME NEW j \in Joins
             PROVE  /\ join'[j] \in [pc : {"new", "head", "snapshot", "welcomed"}, head : Nat,
                                     snap : Snap, got : SUBSET Entry, before : SUBSET Entry,
                                     cut : BOOLEAN]
                    /\ join'[j].pc = join[j].pc /\ join'[j].snap = join[j].snap
                    /\ join'[j].got = join[j].got /\ join'[j].before = join[j].before
                    /\ ~ join'[j].cut => ~ join[j].cut /\ (join[j].pc = "snapshot" => join[j].snap = snap)
  BY DEF CutJoins, JoinsTyped
<1> DEFINE cuts == join[j].cut \/ (join[j].pc = "snapshot" /\ join[j].snap # snap)
<1>1. join'[j] = [join[j] EXCEPT !.cut = cuts]
  BY DEF CutJoins
<1>2. join[j] \in [pc : {"new", "head", "snapshot", "welcomed"}, head : Nat, snap : Snap,
                   got : SUBSET Entry, before : SUBSET Entry, cut : BOOLEAN]
  BY DEF JoinsTyped
<1>3. cuts \in BOOLEAN
  BY <1>2
<1>4. /\ join'[j].pc = join[j].pc /\ join'[j].snap = join[j].snap /\ join'[j].head = join[j].head
      /\ join'[j].got = join[j].got /\ join'[j].before = join[j].before /\ join'[j].cut = cuts
      /\ join'[j] = [pc |-> join[j].pc, head |-> join[j].head, snap |-> join[j].snap,
                     got |-> join[j].got, before |-> join[j].before, cut |-> cuts]
  <2> HIDE DEF cuts
  <2> QED BY <1>1, <1>2
<1>5. ~ cuts => ~ join[j].cut /\ (join[j].pc = "snapshot" => join[j].snap = snap)
  OBVIOUS
<1> HIDE DEF cuts
<1> QED BY <1>2, <1>3, <1>4, <1>5

(* The steps of an append. *)
LEMMA AppendKeepsNumbers ==
  ASSUME NumberInv, NEW w \in Writers, AppendStep(w)
  PROVE  NumberInv'
<1>1. TypeOK /\ OwnKeys /\ PostgresNumbers /\ RedisNumbers /\ Begun
  BY DEF NumberInv
<1>2. Head1 \in Nat /\ (backend = "redis" => Head1 = counter)
  BY <1>1, HeadIsTop
<1>3. writer[w] \in [pc : {"new", "numbered", "stored", "failed"},
                     seq : Nat, tries : 0 .. MaxAttempts]
  BY <1>1 DEF TypeOK
<1>10. HistoryTyped'
  BY <1>1, HistoryIsTyped DEF Next
<1>4. CASE TakeNumber(w)
  <2>1. /\ writer'[w] = [pc |-> "numbered", seq |-> Head1 + 1, tries |-> writer[w].tries]
        /\ \A v \in Writers \ {w} : writer'[v] = writer[v]
        /\ writer' \in [Writers -> [pc : {"new", "numbered", "stored", "failed"},
                                    seq : Nat, tries : 0 .. MaxAttempts]]
    <3> DEFINE typed == [Writers -> [pc : {"new", "numbered", "stored", "failed"},
                                     seq : Nat, tries : 0 .. MaxAttempts]]
               begun == [writer EXCEPT ![w].pc = "numbered"]
               numbered == [writer[w] EXCEPT !.pc = "numbered"]
    <3>0. /\ numbered \in [pc : {"new", "numbered", "stored", "failed"},
                           seq : Nat, tries : 0 .. MaxAttempts]
          /\ numbered.pc = "numbered" /\ numbered.tries = writer[w].tries
      BY <1>3
    <3>10. writer \in typed /\ begun = [writer EXCEPT ![w] = numbered]
      BY <1>1 DEF TypeOK
    <3>1. /\ begun \in typed /\ begun[w].pc = "numbered" /\ begun[w].tries = writer[w].tries
          /\ \A v \in Writers \ {w} : begun[v] = writer[v]
      <4> HIDE DEF numbered, begun
      <4> QED BY <3>0, <3>10
    <3>2. writer' = [begun EXCEPT ![w].seq = Head1 + 1]
      BY <1>4 DEF TakeNumber
    <3> HIDE DEF begun
    <3> QED BY <1>2, <3>1, <3>2
  <2>2. counter' \in Nat /\ counter <= counter'
    BY <1>1, <1>4 DEF TakeNumber, TypeOK
  <2>3. TypeOK'
    BY <1>1, <1>4, <1>10, <2>1, <2>2 DEF TakeNumber, TypeOK, HistoryTyped, Entry, Snap
  <2>4. OwnKeys'
    BY <1>1, <1>4 DEF TakeNumber, OwnKeys
  <2>5. PostgresNumbers'
    BY <1>1, <1>4 DEF TakeNumber, PostgresNumbers, Capped, Folded
  <2>6. RedisNumbers'
    <3> SUFFICES ASSUME backend = "redis" PROVE RedisNumbers'
      BY <1>4 DEF TakeNumber, RedisNumbers
    <3>1. counter' = counter + 1 /\ writer'[w].seq = counter'
      BY <1>2, <1>4, <2>1 DEF TakeNumber
    <3>2. \A n \in Nat : n <= counter => n <= counter'
      BY <1>1, <2>2 DEF TypeOK
    <3>3. \A v \in Writers : writer[v].seq \in Nat
      BY <1>1 DEF TypeOK
    <3>4. \A v \in Writers : writer'[v].seq <= counter'
      BY <1>1, <2>1, <2>2, <3>1, <3>2, <3>3 DEF RedisNumbers
    <3>5. /\ \A rows \in SUBSET Entry : Counted(rows) => \A e \in rows : e.seq <= counter'
      BY <3>2 DEF Counted, Entry
    <3>6. Counted(Rows)' /\ Counted(snapshot.folded)' /\ snapshot'.version <= counter'
      <4>1. Rows \subseteq Entry /\ snapshot.folded \subseteq Entry /\ snapshot.version \in Nat
        BY <1>1, ReadsAreTyped DEF TypeOK, Snap
      <4>2. Rows' = Rows /\ snapshot' = snapshot
        BY <1>4 DEF TakeNumber, Rows
      <4> QED BY <1>1, <3>2, <3>5, <4>1, <4>2 DEF RedisNumbers, Counted
    <3>7. \A c \in Sweeps : /\ Counted(sweep[c].prev.folded)' /\ Counted(sweep[c].rows)'
                            /\ sweep'[c].last <= counter' /\ IsFiniteSet(sweep'[c].rows)
      <4>1. \A c \in Sweeps : sweep[c].prev.folded \in SUBSET Entry
                             /\ sweep[c].rows \in SUBSET Entry /\ sweep[c].last \in Nat
        BY <1>1 DEF TypeOK, Snap
      <4> QED BY <1>1, <1>4, <3>2, <3>5, <4>1 DEF TakeNumber, RedisNumbers, Counted
    <3> QED BY <3>4, <3>6, <3>7 DEF RedisNumbers
  <2>7. Begun'
    <3>1. Head1 + 1 > 0 /\ writer[w].tries < MaxAttempts
      BY <1>1, <1>2, <1>4 DEF TakeNumber, TypeOK
    <3> QED BY <1>1, <1>4, <2>1, <3>1 DEF TakeNumber, Begun, Pending
  <2> QED BY <2>3, <2>4, <2>5, <2>6, <2>7 DEF NumberInv
<1>5. CASE Store(w)
  <2> DEFINE e == [seq |-> writer[w].seq, op |-> w]
  <2>1. e \in Entry /\ e.seq = writer[w].seq /\ e.seq \in Nat
    BY <1>1, <1>3, <1>5 DEF Store, Begun, Entry
  <2>2. /\ writer'[w] = [pc |-> "stored", seq |-> writer[w].seq, tries |-> writer[w].tries]
        /\ \A v \in Writers \ {w} : writer'[v] = writer[v]
        /\ writer' \in [Writers -> [pc : {"new", "numbered", "stored", "failed"},
                                    seq : Nat, tries : 0 .. MaxAttempts]]
    BY <1>1, <1>3, <1>5 DEF Store, TypeOK
  <2>3. /\ table' \subseteq Entry /\ list' \in Seq(Entry)
        /\ backend = "postgres" => table' = table \cup {e} /\ list' = list
        /\ backend = "redis" => list' = Append(list, e) /\ table' = table
    <3>1. CASE backend = "postgres"
      BY <1>1, <1>5, <2>1, <3>1 DEF Store, TypeOK
    <3>2. CASE backend = "redis"
      <4>1. list' = Append(list, e) /\ table' = table /\ list \in Seq(Entry)
        BY <1>1, <1>5, <3>2 DEF Store, TypeOK
      <4> QED BY <1>1, <2>1, <3>2, <4>1, AppendProperties DEF TypeOK
    <3> QED BY <1>1, <3>1, <3>2 DEF OwnKeys
  <2>4. TypeOK'
    BY <1>1, <1>5, <1>10, <2>2, <2>3 DEF Store, TypeOK, HistoryTyped, Entry, Snap
  <2>5. OwnKeys'
    <3>1. PICK n \in Nat : \A f \in table : f.seq <= n
      BY <1>1 DEF OwnKeys
    <3>2. \A f \in table : f.seq \in Nat
      BY <1>1 DEF TypeOK, Entry
    <3>3. n + writer[w].seq \in Nat /\ \A f \in table' : f.seq <= n + writer[w].seq
      BY <1>1, <2>1, <2>3, <3>1, <3>2 DEF OwnKeys
    <3> QED BY <1>1, <1>5, <2>3, <3>3 DEF Store, OwnKeys
  <2>6. PostgresNumbers'
    BY <1>1, <1>5 DEF Store, PostgresNumbers, Capped, Folded
  <2>7. RedisNumbers'
    <3>1. backend = "redis" => Rows' = Rows \cup {e}
      BY <1>1, <1>5, StoreAddsItsRow DEF Store, Begun
    <3>2. backend = "redis" => \A v \in Writers : writer'[v].seq <= counter'
      <4>1. counter' = counter /\ \A v \in Writers : writer'[v].seq = writer[v].seq
        BY <1>5, <2>2 DEF Store
      <4> QED BY <1>1, <4>1 DEF RedisNumbers
    <3> QED BY <1>1, <1>5, <2>1, <2>2, <3>1, <3>2 DEF Store, RedisNumbers, Counted
  <2>8. Begun'
    BY <1>1, <1>5, <2>2 DEF Store, Begun, Pending
  <2> QED BY <2>4, <2>5, <2>6, <2>7, <2>8 DEF NumberInv
<1>6. CASE LoseRace(w) \/ AppendDies(w)
  <2>1. /\ writer'[w].seq = writer[w].seq /\ writer'[w].pc \in {"new", "failed"}
        /\ writer'[w].pc = "new" => writer'[w].tries < MaxAttempts
        /\ \A v \in Writers \ {w} : writer'[v] = writer[v]
        /\ writer' \in [Writers -> [pc : {"new", "numbered", "stored", "failed"},
                                    seq : Nat, tries : 0 .. MaxAttempts]]
    <3>1. CASE AppendDies(w)
      BY <1>1, <1>3, <3>1 DEF AppendDies, TypeOK
    <3>2. CASE LoseRace(w)
      <4>1. writer[w].tries + 1 \in 0 .. MaxAttempts /\ writer[w].tries \in Nat
        BY <1>1, <1>3, <3>2, SharedStoreAssumption DEF LoseRace, Begun
      <4>2. writer'[w] = [pc |-> IF writer[w].tries + 1 = MaxAttempts THEN "failed" ELSE "new",
                          seq |-> writer[w].seq, tries |-> writer[w].tries + 1]
        BY <1>1, <1>3, <3>2 DEF LoseRace, TypeOK
      <4>3. writer'[w].pc = "new" => writer'[w].tries < MaxAttempts
        BY <4>1, <4>2, SharedStoreAssumption
      <4>4. /\ \A v \in Writers \ {w} : writer'[v] = writer[v]
            /\ writer' \in [Writers -> [pc : {"new", "numbered", "stored", "failed"},
                                        seq : Nat, tries : 0 .. MaxAttempts]]
        BY <1>1, <1>3, <3>2, <4>1, <4>2 DEF LoseRace, TypeOK
      <4> QED BY <4>2, <4>3, <4>4
    <3> QED BY <1>6, <3>1, <3>2
  <2>2. UNCHANGED <<backend, table, list, counter, snapshot, sweep, join, started>>
    BY <1>6 DEF LoseRace, AppendDies, store
  <2>3. TypeOK'
    BY <1>1, <1>10, <2>1, <2>2 DEF TypeOK, HistoryTyped, Entry, Snap
  <2>4. OwnKeys' /\ PostgresNumbers' /\ Begun'
    BY <1>1, <2>1, <2>2 DEF OwnKeys, PostgresNumbers, Begun, Capped, Folded, Pending
  <2>5. RedisNumbers'
    BY <1>1, <2>1, <2>2 DEF RedisNumbers, Counted, Rows
  <2> QED BY <2>3, <2>4, <2>5 DEF NumberInv
<1> QED BY <1>4, <1>5, <1>6 DEF AppendStep

(* A step of a sweep: it leaves no row it did not find, and what it puts   *)
(* in its record or in the snapshot is below the head.                     *)
LEMMA SweepNumbers ==
  ASSUME NumberInv, NEW c \in Sweeps,
         NEW r \in [pc : {"idle", "loaded", "folded", "saved"},
                    prev : Snap, rows : SUBSET Entry, last : Nat],
         sweep' = [sweep EXCEPT ![c] = r], started' \in 0 .. MaxSweeps,
         UNCHANGED <<backend, counter, writer>>, JoinsTyped', HistoryTyped',
         table' \subseteq table, list' \in Seq(Entry), ToSet(list') \subseteq ToSet(list),
         backend = "postgres" => list' = list,
         snapshot' \in Snap,
         backend = "postgres" =>
           /\ Capped(snapshot') /\ Capped(r.prev) /\ r.pc # "saved"
           /\ r.pc = "folded" => Capped([version |-> r.last, folded |-> r.prev.folded \cup r.rows]),
         backend = "redis" =>
           /\ Counted(snapshot'.folded) /\ snapshot'.version <= counter
           /\ Counted(r.prev.folded) /\ Counted(r.rows) /\ r.last <= counter
           /\ IsFiniteSet(r.rows)
  PROVE  NumberInv'
<1>1. TypeOK /\ OwnKeys /\ PostgresNumbers /\ RedisNumbers /\ Begun
  BY DEF NumberInv
<1>2. /\ sweep'[c] = r /\ \A d \in Sweeps \ {c} : sweep'[d] = sweep[d]
      /\ sweep' \in [Sweeps -> [pc : {"idle", "loaded", "folded", "saved"},
                                prev : Snap, rows : SUBSET Entry, last : Nat]]
  BY <1>1 DEF TypeOK
<1>3. TypeOK'
  BY <1>1, <1>2 DEF TypeOK, JoinsTyped, HistoryTyped, Entry, Snap
<1>4. OwnKeys'
  BY <1>1 DEF OwnKeys
<1>5. PostgresNumbers'
  BY <1>1, <1>2 DEF PostgresNumbers, Capped, Folded
<1>6. RedisNumbers'
  <2>1. Rows' \subseteq Rows
    BY DEF Rows
  <2> QED BY <1>1, <1>2, <2>1 DEF RedisNumbers, Counted
<1>7. Begun'
  BY <1>1, <1>2 DEF Begun, Pending, OwnKeys
<1> QED BY <1>3, <1>4, <1>5, <1>6, <1>7 DEF NumberInv

(* The steps of a sweep. *)
LEMMA SweepKeepsNumbers ==
  ASSUME NumberInv, NEW c \in Sweeps, SweepStep(c)
  PROVE  NumberInv'
<1> DEFINE Sweeping == [pc : {"idle", "loaded", "folded", "saved"},
                        prev : Snap, rows : SUBSET Entry, last : Nat]
<1>1. TypeOK /\ OwnKeys /\ PostgresNumbers /\ RedisNumbers /\ Begun
  BY DEF NumberInv
<1>2. sweep[c] \in Sweeping /\ snapshot \in Snap /\ table \subseteq Entry /\ list \in Seq(Entry)
      /\ started \in 0 .. MaxSweeps
  BY <1>1 DEF TypeOK
<1>13. HistoryTyped' /\ JoinsTyped
  BY <1>1, HistoryIsTyped DEF Next, TypeOK, JoinsTyped
<1>14. join' = join => JoinsTyped'
  BY <1>13 DEF JoinsTyped
<1>3. /\ Idle \in Sweeping /\ Idle.pc = "idle" /\ Idle.prev.folded = {}
      /\ Idle.rows = {} /\ Idle.last = 0 /\ IsFiniteSet(Idle.rows)
  BY FS_EmptySet DEF Idle, NoSnapshot, Snap
<1>4. /\ backend = "postgres" => Capped(snapshot)
      /\ backend = "redis" => Counted(snapshot.folded) /\ snapshot.version <= counter
  <2>1. backend = "postgres" => Capped(snapshot)
    BY <1>1 DEF PostgresNumbers
  <2> QED BY <1>1, <2>1 DEF RedisNumbers
<1>5. /\ Capped(Idle.prev)
      /\ Counted(Idle.prev.folded) /\ Counted(Idle.rows) /\ Idle.last <= counter
  BY <1>1, <1>3 DEF Capped, Counted, TypeOK
<1>6. CASE StartSweep(c)
  <2> DEFINE r == [pc |-> "loaded", prev |-> snapshot, rows |-> {}, last |-> 0]
  <2>1. r \in Sweeping /\ r.pc = "loaded" /\ r.prev = snapshot /\ r.rows = {} /\ r.last = 0
    BY <1>2
  <2>2. sweep' = [sweep EXCEPT ![c] = r]
    BY <1>6 DEF StartSweep
  <2>3. started' \in 0 .. MaxSweeps
    BY <1>2, <1>6, SharedStoreAssumption DEF StartSweep
  <2>4. Counted(r.rows) /\ r.last <= counter /\ IsFiniteSet(r.rows)
    BY <1>3, <1>5, <2>1
  <2>5. UNCHANGED <<backend, table, list, counter, snapshot, writer, join>>
    BY <1>6 DEF StartSweep, store
  <2> HIDE DEF r
  <2> QED BY <1>1, <1>2, <1>4, <2>1, <2>2, <2>3, <2>4, <2>5, <1>13, <1>14, SweepNumbers DEF NumberInv
<1>7. CASE ReadLog(c)
  <2> DEFINE base == sweep[c].prev.version
             rows == Since(base)
             r == [pc |-> "folded", prev |-> sweep[c].prev, rows |-> rows, last |-> LastSeq(base)]
  <2>1. UNCHANGED <<backend, table, list, counter, snapshot, writer, join, started>>
    BY <1>7 DEF ReadLog, store
  <2>2. CASE rows = {}
    <3>1. sweep' = [sweep EXCEPT ![c] = Idle]
      BY <1>7, <2>2 DEF ReadLog
    <3> QED BY <1>1, <1>2, <1>3, <1>4, <1>5, <2>1, <3>1, <1>13, <1>14, SweepNumbers DEF NumberInv
  <2>3. CASE rows # {}
    <3>1. sweep' = [sweep EXCEPT ![c] = r]
      BY <1>7, <2>3 DEF ReadLog
    <3>2. base \in Nat
      BY <1>2 DEF Snap
    <3>3. /\ LastSeq(base) \in Numbers(rows)
          /\ backend = "postgres" => \A e \in rows : e.seq <= LastSeq(base)
      BY <1>1, <2>3, <3>2, LastIsOfARow
    <3>4. rows \in SUBSET Entry /\ rows \subseteq Rows
      BY <1>1, ReadsAreTyped
    <3>5. LastSeq(base) \in Nat
      BY <3>3, <3>4 DEF Numbers, Entry
    <3>6. r \in Sweeping /\ r.pc = "folded" /\ r.prev = sweep[c].prev /\ r.rows = rows
          /\ r.last = LastSeq(base)
      BY <1>2, <3>4, <3>5
    <3>7. PICK f \in rows : LastSeq(base) = f.seq
      BY <3>3 DEF Numbers
    <3>8. backend = "redis" => Counted(rows) /\ LastSeq(base) <= counter
      BY <1>1, <3>4, <3>7 DEF RedisNumbers, Counted
    <3>9. backend = "redis" => Counted(sweep[c].prev.folded) /\ IsFiniteSet(rows)
      <4>1. backend = "redis" => rows \subseteq ToSet(list)
        BY <1>1, <3>4 DEF OwnKeys, Rows
      <4>2. IsFiniteSet(ToSet(list))
        BY <1>2, ListIsFinite
      <4> QED BY <1>1, <4>1, <4>2, FS_Subset DEF RedisNumbers
    <3>10. backend = "postgres" =>
             /\ Capped(sweep[c].prev)
             /\ Capped([version |-> LastSeq(base), folded |-> sweep[c].prev.folded \cup rows])
      <4> SUFFICES ASSUME backend = "postgres"
                   PROVE  /\ Capped(sweep[c].prev)
                          /\ \A e \in sweep[c].prev.folded : e.seq <= LastSeq(base)
                          /\ \A e \in rows : e.seq <= LastSeq(base)
        BY DEF Capped
      <4>1. \A e \in sweep[c].prev.folded : e.seq <= base /\ e.seq \in Nat
        BY <1>1, <1>2 DEF PostgresNumbers, Capped, Snap, Entry
      <4>2. f.seq > base /\ f.seq \in Nat
        BY <3>4, <3>7 DEF Since, Entry
      <4> QED BY <1>1, <3>2, <3>3, <3>7, <4>1, <4>2 DEF PostgresNumbers
    <3>11. Capped([version |-> r.last, folded |-> r.prev.folded \cup r.rows])
             = Capped([version |-> LastSeq(base), folded |-> sweep[c].prev.folded \cup rows])
      BY <3>6
    <3> HIDE DEF r, rows, base
    <3> QED BY <1>1, <1>2, <1>4, <2>1, <3>1, <3>6, <3>8, <3>9, <3>10, <3>11, <1>13, <1>14, SweepNumbers
            DEF NumberInv
  <2> QED BY <2>2, <2>3
<1>8. /\ Folded(c) \in Snap \/ sweep[c].pc # "folded"
      /\ sweep[c].pc = "folded" /\ backend = "postgres" => Capped(Folded(c))
      /\ backend = "redis" => Counted(Folded(c).folded) /\ Folded(c).version <= counter
  <2>1. Folded(c) \in Snap
    BY <1>2 DEF Folded, Snap
  <2>2. backend = "redis" => Counted(Folded(c).folded) /\ Folded(c).version <= counter
    BY <1>1 DEF RedisNumbers, Folded, Counted
  <2> QED BY <1>1, <2>1, <2>2 DEF PostgresNumbers
<1>9. CASE Replace(c)
  <2>1. /\ sweep' = [sweep EXCEPT ![c] = Idle] /\ table' \subseteq table /\ snapshot' = Folded(c)
        /\ sweep[c].pc = "folded" /\ backend = "postgres"
        /\ UNCHANGED <<backend, list, counter, writer, started>>
    BY <1>9 DEF Replace
  <2>2. JoinsTyped'
    BY <1>9, <1>13, CutIsTyped DEF Replace
  <2> QED BY <1>1, <1>2, <1>3, <1>5, <1>8, <1>13, <2>1, <2>2, SweepNumbers DEF NumberInv
<1>10. CASE SaveSnapshot(c)
  <2> DEFINE r == [sweep[c] EXCEPT !.pc = "saved"]
  <2>1. /\ sweep' = [sweep EXCEPT ![c] = r] /\ snapshot' = Folded(c)
        /\ sweep[c].pc = "folded" /\ backend = "redis"
        /\ UNCHANGED <<backend, table, list, counter, writer, join, started>>
    BY <1>10 DEF SaveSnapshot
  <2>2. r \in Sweeping /\ r.prev = sweep[c].prev /\ r.rows = sweep[c].rows /\ r.last = sweep[c].last
    BY <1>2
  <2>3. Counted(r.prev.folded) /\ Counted(r.rows) /\ r.last <= counter /\ IsFiniteSet(r.rows)
    BY <1>1, <2>1, <2>2 DEF RedisNumbers
  <2> HIDE DEF r
  <2> QED BY <1>2, <1>8, <2>1, <2>2, <2>3, <1>13, <1>14, SweepNumbers
<1>11. CASE Trim(c)
  <2> DEFINE n == Cardinality(sweep[c].rows)
  <2>1. /\ sweep' = [sweep EXCEPT ![c] = Idle] /\ list' = SubSeq(list, n + 1, Len(list))
        /\ backend = "redis"
        /\ UNCHANGED <<backend, table, counter, snapshot, writer, started>>
    BY <1>1, <1>11 DEF Trim, Begun
  <2>4. JoinsTyped'
    BY <1>11, <1>13, CutIsTyped DEF Trim
  <2>2. n \in Nat /\ Len(list) \in Nat
    BY <1>1, <1>2, <2>1, FS_CardinalityType DEF RedisNumbers
  <2>3. list' \in Seq(Entry) /\ ToSet(list') \subseteq ToSet(list)
    <3> HIDE DEF n
    <3>1. /\ SubSeq(list, n + 1, Len(list)) \in Seq(Entry)
          /\ ToSet(SubSeq(list, n + 1, Len(list))) = {list[i] : i \in (n + 1) .. Len(list)}
      BY <1>2, <2>2, TrimLeavesTheRest
    <3>2. list' \in Seq(Entry) /\ ToSet(list') = {list[i] : i \in (n + 1) .. Len(list)}
      BY <2>1, <3>1
    <3>3. DOMAIN list = 1 .. Len(list) /\ (n + 1) .. Len(list) \subseteq 1 .. Len(list)
      BY <1>2, <2>2
    <3> QED BY <3>2, <3>3 DEF ToSet
  <2> QED BY <1>1, <1>2, <1>3, <1>4, <1>5, <1>13, <2>1, <2>3, <2>4, SweepNumbers DEF NumberInv
<1>12. CASE SweepDies(c)
  <2>1. /\ sweep' = [sweep EXCEPT ![c] = Idle]
        /\ UNCHANGED <<backend, table, list, counter, snapshot, writer, join, started>>
    BY <1>12 DEF SweepDies, store
  <2> QED BY <1>1, <1>2, <1>3, <1>4, <1>5, <2>1, <1>13, <1>14, SweepNumbers DEF NumberInv
<1> QED BY <1>6, <1>7, <1>9, <1>10, <1>11, <1>12 DEF SweepStep

(* The steps of a join only read. *)
LEMMA JoinKeepsNumbers ==
  ASSUME NumberInv, NEW j \in Joins, JoinStep(j)
  PROVE  NumberInv'
<1>1. TypeOK /\ OwnKeys /\ PostgresNumbers /\ RedisNumbers /\ Begun
  BY DEF NumberInv
<1>2. UNCHANGED <<backend, table, list, counter, snapshot, writer, sweep, started>>
  BY DEF JoinStep, ReadHead, ReadSnapshot, ReadRest, store
<1>7. HistoryTyped'
  BY <1>1, HistoryIsTyped DEF Next
<1>3. Head1 \in Nat /\ Served \subseteq Entry /\ \A after : Since(after) \subseteq Entry
  BY <1>1, HeadIsTop, ReadsAreTyped
<1>4. join' \in [Joins -> [pc : {"new", "head", "snapshot", "welcomed"}, head : Nat,
                           snap : Snap, got : SUBSET Entry, before : SUBSET Entry,
                         cut : BOOLEAN]]
  <2> DEFINE Joining == [pc : {"new", "head", "snapshot", "welcomed"}, head : Nat,
                         snap : Snap, got : SUBSET Entry, before : SUBSET Entry,
                         cut : BOOLEAN]
  <2>1. join \in [Joins -> Joining] /\ join[j] \in Joining /\ snapshot \in Snap
    BY <1>1 DEF TypeOK
  <2>2. CASE ReadHead(j)
    BY <1>3, <2>1, <2>2 DEF ReadHead
  <2>3. CASE ReadSnapshot(j)
    BY <2>1, <2>3 DEF ReadSnapshot
  <2>4. CASE ReadRest(j)
    <3>1. join[j].snap.folded \cup Since(join[j].snap.version) \in SUBSET Entry
      BY <1>3, <2>1 DEF Snap
    <3> QED BY <2>1, <2>4, <3>1 DEF ReadRest
  <2> QED BY <2>2, <2>3, <2>4 DEF JoinStep
<1>5. TypeOK'
  BY <1>1, <1>2, <1>4, <1>7 DEF TypeOK, HistoryTyped, Entry, Snap
<1>6. OwnKeys' /\ PostgresNumbers' /\ RedisNumbers' /\ Begun'
  BY <1>1, <1>2
     DEF OwnKeys, PostgresNumbers, RedisNumbers, Begun, Capped, Counted, Folded, Rows, Pending
<1> QED BY <1>5, <1>6 DEF NumberInv

(* The seed numbers its snapshot itself. *)
LEMMA SeedKeepsNumbers ==
  ASSUME NumberInv, Seed
  PROVE  NumberInv'
<1> DEFINE e == [seq |-> SeedLength, op |-> SeedText]
<1>1. TypeOK /\ OwnKeys /\ PostgresNumbers /\ RedisNumbers /\ Begun
  BY DEF NumberInv
<1>2. /\ backend = "postgres" /\ UNCHANGED <<backend, table, list, counter, writer, sweep, join, started>>
      /\ snapshot' = [version |-> SeedLength, folded |-> {e}]
  BY DEF Seed
<1>3. snapshot' \in Snap
  BY <1>2, SharedStoreAssumption DEF Snap, Entry
<1>4. Capped(snapshot')
  BY <1>2, SharedStoreAssumption DEF Capped
<1>7. HistoryTyped'
  BY <1>1, HistoryIsTyped DEF Next
<1>5. TypeOK'
  BY <1>1, <1>2, <1>3, <1>7 DEF TypeOK, HistoryTyped, Entry, Snap
<1>6. OwnKeys' /\ PostgresNumbers' /\ RedisNumbers' /\ Begun'
  BY <1>1, <1>2, <1>4
     DEF OwnKeys, PostgresNumbers, RedisNumbers, Begun, Capped, Folded, Pending
<1> QED BY <1>5, <1>6 DEF NumberInv

(* Numbers stay below the head under every step. *)
LEMMA NumbersInvariant == Spec => []NumberInv
<1>1. NumberInv /\ [Next]_vars => NumberInv'
  <2> SUFFICES ASSUME NumberInv, [Next]_vars PROVE NumberInv'
    OBVIOUS
  <2>1. CASE Next
    BY <2>1, AppendKeepsNumbers, SweepKeepsNumbers, JoinKeepsNumbers, SeedKeepsNumbers DEF Next
  <2>2. CASE UNCHANGED vars
    BY <2>2 DEF vars, store, history, NumberInv, TypeOK, OwnKeys, PostgresNumbers, RedisNumbers, Begun,
                Capped, Counted, Folded, Rows, Pending
  <2> QED BY <2>1, <2>2
<1> QED BY <1>1, InitNumbers, PTL DEF Spec

(* Every variable keeps its type (store.ts, redis.ts, postgres.ts).        *)
THEOREM TypeCorrect == Spec => []TypeOK
<1>1. NumberInv => TypeOK
  BY DEF NumberInv
<1> QED BY <1>1, NumbersInvariant, PTL

(* The head is never behind an operation of the log, whatever appends,     *)
(* sweeps and seeds interleave.                                            *)
THEOREM HeadCoversTheLog == Spec => []HeadCovers
<1>1. NumberInv => HeadCovers
  <2> SUFFICES ASSUME NumberInv, NEW e \in Served PROVE e.seq <= Head1
    BY DEF HeadCovers
  <2>1. TypeOK /\ OwnKeys /\ PostgresNumbers /\ RedisNumbers
    BY DEF NumberInv
  <2>2. e \in Entry /\ e.seq \in Nat /\ Head1 \in Nat /\ snapshot.version \in Nat
    BY <2>1, ReadsAreTyped, HeadIsTop DEF Entry, TypeOK, Snap
  <2>3. e \in Rows \/ e \in snapshot.folded
    BY DEF Served, Since
  <2>4. CASE backend = "redis"
    BY <2>1, <2>3, <2>4, HeadIsTop DEF RedisNumbers, Counted
  <2>5. CASE backend = "postgres"
    <3>1. snapshot.version <= Head1 /\ \A f \in table : f.seq <= Head1
      BY <2>1, <2>5, HeadIsTop
    <3>2. Rows = table
      BY <2>1, <2>5 DEF OwnKeys, Rows, ToSet
    <3>3. CASE e \in snapshot.folded
      BY <2>1, <2>2, <2>5, <3>1, <3>3 DEF PostgresNumbers, Capped
    <3> QED BY <2>3, <3>1, <3>2, <3>3
  <2> QED BY <2>1, <2>4, <2>5 DEF OwnKeys
<1> QED BY <1>1, NumbersInvariant, PTL

-----------------------------------------------------------------------------
(* One sweep at a time *)

(* HeadIsTop of the state after a step. *)
LEMMA HeadIsTopNext ==
  TypeOK' /\ OwnKeys' =>
    /\ Head1' \in Nat
    /\ backend' = "redis" => Head1' = counter'
    /\ backend' = "postgres" => /\ snapshot'.version <= Head1'
                                /\ \A e \in table' : e.seq <= Head1'
<1> DEFINE Top == /\ Head1 \in Nat
                  /\ backend = "redis" => Head1 = counter
                  /\ backend = "postgres" =>
                       snapshot.version <= Head1 /\ \A e \in table : e.seq <= Head1
<1>1. (TypeOK /\ OwnKeys => Top)'
  <2>1. TypeOK /\ OwnKeys => Top
    BY HeadIsTop
  <2> HIDE DEF Top
  <2> QED BY <2>1, PTL
<1> QED BY <1>1

(* What is damaged is not mended. *)
LEMMA DamageStays == Next /\ Intact' => Intact
<1> SUFFICES ASSUME Next, Intact' PROVE Intact
  OBVIOUS
<1>1. ASSUME NEW w \in Writers, AppendStep(w) PROVE UNCHANGED <<overlapped, reseeded>>
  BY <1>1 DEF AppendStep, TakeNumber, Store, LoseRace, AppendDies, history
<1>2. ASSUME NEW c \in Sweeps, SweepStep(c) PROVE Intact
  <2>1. CASE StartSweep(c)
    BY <2>1 DEF StartSweep, Intact
  <2>2. CASE ReadLog(c) \/ Replace(c) \/ SaveSnapshot(c) \/ Trim(c) \/ SweepDies(c)
    <3>1. UNCHANGED <<overlapped, reseeded>>
      BY <2>2 DEF ReadLog, Replace, SaveSnapshot, Trim, SweepDies, history
    <3> QED BY <3>1 DEF Intact
  <2> QED BY <1>2, <2>1, <2>2 DEF SweepStep
<1>3. ASSUME NEW j \in Joins, JoinStep(j) PROVE UNCHANGED <<overlapped, reseeded>>
  BY <1>3 DEF JoinStep, ReadHead, ReadSnapshot, ReadRest, history
<1>4. ASSUME Seed PROVE Intact
  <2> DEFINE used == \E w \in Writers : writer[w].pc # "new"
  <2>1. overlapped' = overlapped /\ reseeded' = (reseeded \/ used)
    BY <1>4 DEF Seed
  <2> HIDE DEF used
  <2> QED BY <2>1, Zenon DEF Intact
<1>5. UNCHANGED <<overlapped, reseeded>> => Intact
  BY DEF Intact
<1> QED BY <1>1, <1>2, <1>3, <1>4, <1>5 DEF Next

(* While a sweep takes a step, no other one is under way, before or after. *)
LEMMA StepsAlone ==
  ASSUME TypeOK, Alone, NEW c \in Sweeps, SweepStep(c), Intact'
  PROVE  /\ \A d \in Sweeps \ {c} : sweep[d].pc = "idle" /\ sweep'[d] = sweep[d]
         /\ Alone'
<1>1. \A d \in Sweeps \ {c} : sweep'[d] = sweep[d]
  BY DEF SweepStep, StartSweep, ReadLog, Replace, SaveSnapshot, Trim, SweepDies, TypeOK
<1>2. \A d \in Sweeps \ {c} : sweep[d].pc = "idle"
  <2>1. CASE StartSweep(c)
    BY <2>1 DEF StartSweep, Intact
  <2>2. CASE ~ StartSweep(c)
    <3>1. sweep[c].pc # "idle"
      BY <2>2 DEF SweepStep, ReadLog, Replace, SaveSnapshot, Trim, SweepDies
    <3> QED BY <3>1 DEF Alone
  <2> QED BY <2>1, <2>2
<1> QED BY <1>1, <1>2 DEF Alone

(* What a sweep leaves its record as. *)
LEMMA SweepGoesOn ==
  ASSUME TypeOK, NEW c \in Sweeps
  PROVE  /\ StartSweep(c) => sweep'[c] = [pc |-> "loaded", prev |-> snapshot, rows |-> {}, last |-> 0]
         /\ ReadLog(c) /\ Since(sweep[c].prev.version) # {} =>
              sweep'[c] = [pc |-> "folded", prev |-> sweep[c].prev,
                           rows |-> Since(sweep[c].prev.version),
                           last |-> LastSeq(sweep[c].prev.version)]
         /\ ReadLog(c) /\ Since(sweep[c].prev.version) = {} => sweep'[c] = Idle
         /\ SaveSnapshot(c) => sweep'[c] = [pc |-> "saved", prev |-> sweep[c].prev,
                                            rows |-> sweep[c].rows, last |-> sweep[c].last]
         /\ Replace(c) \/ Trim(c) \/ SweepDies(c) => sweep'[c] = Idle
<1>1. StartSweep(c) => sweep'[c] = [pc |-> "loaded", prev |-> snapshot, rows |-> {}, last |-> 0]
  BY DEF StartSweep, TypeOK
<1>2. ReadLog(c) /\ Since(sweep[c].prev.version) # {} =>
        sweep'[c] = [pc |-> "folded", prev |-> sweep[c].prev,
                     rows |-> Since(sweep[c].prev.version),
                     last |-> LastSeq(sweep[c].prev.version)]
  BY DEF ReadLog, TypeOK
<1>3. ReadLog(c) /\ Since(sweep[c].prev.version) = {} => sweep'[c] = Idle
  BY DEF ReadLog, TypeOK
<1>4. SaveSnapshot(c) => sweep'[c] = [pc |-> "saved", prev |-> sweep[c].prev,
                                      rows |-> sweep[c].rows, last |-> sweep[c].last]
  BY DEF SaveSnapshot, TypeOK
<1>5. Replace(c) \/ Trim(c) \/ SweepDies(c) => sweep'[c] = Idle
  BY DEF Replace, Trim, SweepDies, TypeOK
<1> QED BY <1>1, <1>2, <1>3, <1>4, <1>5

(* A seed that leaves the store intact meets one that is not in use. *)
LEMMA SeedMeetsNothing ==
  ASSUME NumberInv, SweepInOrder, Known, Seed, Intact'
  PROVE  /\ \A w \in Writers : writer[w].pc = "new"
         /\ backend = "postgres" /\ table = {} /\ Rows = {} /\ Rows' = {}
         /\ snapshot.version <= SeedLength
         /\ \A e \in snapshot.folded : Seeded(e)
         /\ \A j \in Joins : \A e \in join[j].before : Seeded(e)
         /\ \A c \in Sweeps : sweep[c].pc = "idle"
<1>1. TypeOK /\ OwnKeys /\ Begun
  BY DEF NumberInv
<1>2. /\ \A w \in Writers : writer[w].pc = "new"
      /\ backend = "postgres" /\ UNCHANGED <<table, list>>
  BY DEF Seed, Intact
<1>3. \A e : ~ Appended(e)
  BY <1>2 DEF Appended, Stored
<1>4. Rows = {} /\ table = {} /\ Rows' = {}
  BY <1>2, <1>3 DEF Known, Rows
<1>5. \A c \in Sweeps : sweep[c].pc = "idle"
  <2>1. \A c \in Sweeps : sweep[c].pc \in {"idle", "loaded", "folded", "saved"}
    BY <1>1 DEF TypeOK
  <2> QED BY <1>1, <1>2, <1>4, <2>1 DEF SweepInOrder, Begun
<1> QED BY <1>2, <1>3, <1>4, <1>5 DEF Known, Stored

(* The one sweep works on the snapshot there is, and no seed comes while   *)
(* it does: it began with operations in the log.                           *)
LEMMA SweepStaysInOrder ==
  ASSUME NumberInv, Alone, SweepInOrder, Known, Next, Intact'
  PROVE  SweepInOrder'
<1>1. TypeOK /\ OwnKeys /\ Begun
  BY DEF NumberInv
<1>2. \A c \in Sweeps : sweep[c] \in [pc : {"idle", "loaded", "folded", "saved"},
                                      prev : Snap, rows : SUBSET Entry, last : Nat]
  BY <1>1 DEF TypeOK
<1>3. Idle.pc = "idle"
  BY DEF Idle
<1>4. ASSUME NEW w \in Writers, AppendStep(w) PROVE SweepInOrder'
  <2>1. /\ UNCHANGED <<backend, snapshot, sweep>>
        /\ table \subseteq table' /\ Rows \subseteq Rows'
    <3>1. CASE Store(w)
      <4>1. Rows \subseteq Rows'
        BY <1>1, <3>1, StoreAddsItsRow DEF Store, Begun
      <4> QED BY <3>1, <4>1 DEF Store
    <3>2. CASE ~ Store(w)
      BY <1>4, <3>2 DEF AppendStep, TakeNumber, LoseRace, AppendDies, store, Rows
    <3> QED BY <3>1, <3>2
  <2> QED BY <2>1 DEF SweepInOrder, Since
<1>5. ASSUME NEW c \in Sweeps, SweepStep(c) PROVE SweepInOrder'
  <2>1. \A d \in Sweeps \ {c} : sweep'[d].pc = "idle"
    BY <1>1, <1>5, StepsAlone
  <2>2. CASE StartSweep(c)
    <3>1. sweep'[c].pc = "loaded" /\ sweep'[c].prev = snapshot
      <4>1. sweep'[c] = [pc |-> "loaded", prev |-> snapshot, rows |-> {}, last |-> 0]
        BY <1>1, <2>2, SweepGoesOn
      <4> QED BY <4>1
    <3>2. backend = "postgres" => table # {}
      <4>1. MinOps \in Nat /\ MinOps > 0 /\ snapshot.version \in Nat /\ Head1 \in Nat
        BY <1>1, SharedStoreAssumption, HeadIsTop DEF TypeOK, Snap
      <4>2. Head1 # snapshot.version
        BY <2>2, <4>1 DEF StartSweep
      <4> QED BY <1>1, <4>2, HeadIsTop DEF Numbers
    <3>3. UNCHANGED <<backend, table, snapshot>>
      BY <2>2 DEF StartSweep, store
    <3> QED BY <2>1, <3>1, <3>2, <3>3 DEF SweepInOrder
  <2>3. CASE ReadLog(c)
    <3> DEFINE base == sweep[c].prev.version
    <3>1. /\ sweep[c].prev = snapshot /\ (backend = "postgres" => table # {})
          /\ UNCHANGED <<backend, table, list, snapshot>>
      BY <2>3 DEF ReadLog, SweepInOrder, store
    <3>2. CASE Since(base) = {}
      <4>1. sweep'[c] = Idle
        BY <1>1, <2>3, <3>2, SweepGoesOn
      <4> QED BY <1>3, <2>1, <4>1 DEF SweepInOrder
    <3>3. CASE Since(base) # {}
      <4>1. sweep'[c] = [pc |-> "folded", prev |-> sweep[c].prev, rows |-> Since(base),
                         last |-> LastSeq(base)]
        BY <1>1, <2>3, <3>3, SweepGoesOn
      <4>2. base \in Nat /\ base = snapshot.version
        BY <1>1, <3>1 DEF TypeOK, Snap
      <4>3. LastSeq(base) \in Numbers(Since(base))
        BY <1>1, <3>3, <4>2, LastIsOfARow
      <4>4. Since(snapshot.version)' = Since(base)
        BY <3>1, <4>2 DEF Since, Rows
      <4> HIDE DEF base
      <4> QED BY <2>1, <3>1, <4>1, <4>3, <4>4 DEF SweepInOrder, Numbers
    <3> QED BY <3>2, <3>3
  <2>4. CASE Replace(c) \/ SaveSnapshot(c) \/ Trim(c) \/ SweepDies(c)
    <3>1. sweep'[c].pc \in {"idle", "saved"}
      <4>1. CASE SaveSnapshot(c)
        <5>1. sweep'[c] = [pc |-> "saved", prev |-> sweep[c].prev, rows |-> sweep[c].rows,
                           last |-> sweep[c].last]
          BY <1>1, <4>1, SweepGoesOn
        <5> QED BY <5>1
      <4>2. CASE Replace(c) \/ Trim(c) \/ SweepDies(c)
        <5>1. sweep'[c] = Idle
          BY <1>1, <4>2, SweepGoesOn
        <5> QED BY <1>3, <5>1
      <4> QED BY <2>4, <4>1, <4>2
    <3> QED BY <2>1, <3>1 DEF SweepInOrder
  <2> QED BY <1>5, <2>2, <2>3, <2>4 DEF SweepStep
<1>6. ASSUME NEW j \in Joins, JoinStep(j) PROVE SweepInOrder'
  <2>1. UNCHANGED <<backend, table, list, snapshot, sweep>>
    BY <1>6 DEF JoinStep, ReadHead, ReadSnapshot, ReadRest, store
  <2> QED BY <2>1 DEF SweepInOrder, Since, Rows, Numbers
<1>7. ASSUME Seed PROVE SweepInOrder'
  <2>1. \A c \in Sweeps : sweep'[c].pc = "idle"
    BY <1>7, SeedMeetsNothing DEF Seed
  <2> QED BY <2>1 DEF SweepInOrder
<1> QED BY <1>4, <1>5, <1>6, <1>7 DEF Next

(* No step of the log lowers its head: a snapshot's version is the number  *)
(* of an operation it folds.                                               *)
LEMMA HeadKept ==
  ASSUME NumberInv, NumberInv', SweepInOrder, Known, Next, Intact'
  PROVE  Head1' >= Head1
<1>1. TypeOK /\ OwnKeys /\ TypeOK' /\ OwnKeys' /\ PostgresNumbers /\ Begun
  BY DEF NumberInv
<1>2. Head1 \in Nat /\ Head1' \in Nat /\ backend' = backend
  <2>1. backend' = backend
    BY DEF Next, AppendStep, TakeNumber, Store, LoseRace, AppendDies, SweepStep, StartSweep,
           ReadLog, Replace, SaveSnapshot, Trim, SweepDies, JoinStep, ReadHead, ReadSnapshot,
           ReadRest, Seed
  <2> QED BY <1>1, <2>1, HeadIsTop, HeadIsTopNext
<1>3. CASE backend = "redis"
  <2>1. counter' = counter \/ counter' = counter + 1
    BY DEF Next, AppendStep, TakeNumber, Store, LoseRace, AppendDies, SweepStep, StartSweep,
           ReadLog, Replace, SaveSnapshot, Trim, SweepDies, JoinStep, ReadHead, ReadSnapshot,
           ReadRest, Seed, store
  <2>2. counter \in Nat /\ Head1 = counter /\ Head1' = counter'
    BY <1>1, <1>2, <1>3, HeadIsTop, HeadIsTopNext
  <2> QED BY <2>1, <2>2
<1>4. CASE backend = "postgres"
  <2>1. /\ Head1 = snapshot.version \/ \E e \in table : Head1 = e.seq
        /\ snapshot'.version <= Head1' /\ \A e \in table' : e.seq <= Head1'
        /\ snapshot.version \in Nat /\ snapshot'.version \in Nat
    BY <1>1, <1>2, <1>4, HeadIsTop, HeadIsTopNext DEF Numbers, TypeOK, Snap
  <2>2. CASE table \subseteq table' /\ snapshot' = snapshot
    BY <1>2, <2>1, <2>2
  <2>3. ASSUME NEW c \in Sweeps, Replace(c) PROVE Head1' >= Head1
    <3>1. /\ snapshot'.version = sweep[c].last /\ sweep[c].last \in Nat
          /\ sweep[c].last > snapshot.version
          /\ table' = {e \in table : e.seq > sweep[c].last}
      <4>1. snapshot' = Folded(c) /\ table' = {e \in table : e.seq > sweep[c].last}
            /\ sweep[c].pc = "folded"
        BY <2>3 DEF Replace
      <4>2. PICK e \in Since(snapshot.version) : e.seq = sweep[c].last
        BY <4>1 DEF SweepInOrder, Numbers
      <4>3. snapshot'.version = sweep[c].last /\ sweep[c].last \in Nat
        BY <1>1, <4>1 DEF Folded, TypeOK
      <4> QED BY <4>1, <4>2, <4>3 DEF Since
    <3>2. \A e \in table : e.seq <= Head1'
      <4> SUFFICES ASSUME NEW e \in table PROVE e.seq <= Head1'
        OBVIOUS
      <4>1. e.seq \in Nat
        BY <1>1 DEF TypeOK, Entry
      <4> QED BY <1>2, <2>1, <3>1, <4>1
    <3> QED BY <1>2, <2>1, <3>1, <3>2
  <2>4. ASSUME Seed PROVE Head1' >= Head1
    <3>1. table = {} /\ snapshot.version <= SeedLength /\ snapshot'.version = SeedLength
      BY <2>4, SeedMeetsNothing DEF Seed
    <3>2. Head1 = snapshot.version
      BY <2>1, <3>1
    <3> QED BY <1>2, <2>1, <3>1, <3>2
  <2>5. \/ table \subseteq table' /\ snapshot' = snapshot
        \/ \E c \in Sweeps : Replace(c)
        \/ Seed
    BY <1>1, <1>4 DEF Next, AppendStep, TakeNumber, Store, LoseRace, AppendDies, SweepStep,
       StartSweep, ReadLog, SaveSnapshot, Trim, SweepDies, JoinStep, ReadHead, ReadSnapshot,
       ReadRest, store, Begun
  <2> QED BY <2>2, <2>3, <2>4, <2>5
<1> QED BY <1>1, <1>3, <1>4 DEF OwnKeys


-----------------------------------------------------------------------------
(* What is served stays served *)

(* Only an append that is half done is newly outrun, or no longer, and it  *)
(* has nothing in the store.                                               *)
LEMMA OutrunHaveNothing ==
  ASSUME NumberInv, Known, HistoryTyped',
         \A w \in Writers : Pending(w) \/ (w \in outrun' <=> w \in outrun)
  PROVE  /\ \A e \in Rows \cup snapshot.folded : e.op \in outrun' <=> e.op \in outrun
         /\ \A j \in Joins : \A e \in join[j].before : e.op \in outrun' <=> e.op \in outrun
<1>1. outrun \subseteq Writers /\ outrun' \subseteq Writers
  BY DEF NumberInv, TypeOK, HistoryTyped
<1>2. ASSUME NEW e, Appended(e) \/ Seeded(e) PROVE e.op \in outrun' <=> e.op \in outrun
  <2>1. CASE Appended(e)
    BY <2>1 DEF Appended, Stored, Pending
  <2>2. CASE Seeded(e)
    BY <1>1, <2>2, SharedStoreAssumption DEF Seeded
  <2> QED BY <1>2, <2>1, <2>2
<1> QED BY <1>2 DEF Known

(* A step of an append that stores nothing. *)
LEMMA WriterMoves ==
  ASSUME NumberInv, LogInv, HistoryTyped', NEW w \in Writers,
         UNCHANGED <<backend, table, list, snapshot, sweep, join>>,
         \A v \in Writers \ {w} : writer'[v] = writer[v],
         writer[w].pc # "stored", writer'[w].pc # "stored",
         \/ outrun' = outrun
         \/ outrun' = outrun \ {w} /\ writer[w].pc = "numbered" /\ writer'[w].pc # "numbered",
         writer'[w].pc = "numbered" =>
           /\ writer'[w].seq > snapshot.version
           /\ \A c \in Sweeps : sweep[c].pc = "folded" => writer'[w].seq > Folded(c).version
           /\ backend = "redis" =>
                /\ writer'[w].seq \notin Numbers(Served)
                /\ \A v \in Writers : writer[v].seq # writer'[w].seq
  PROVE  LogInv' /\ Kept(Served)' = Kept(Served)
<1>1. /\ Alone /\ SweepInOrder /\ FoldedBelow /\ TrimsFolded /\ OwnNumbers
      /\ Known /\ JoinsKeep /\ AckedStays
  BY DEF LogInv
<1>2. Rows' = Rows /\ Served' = Served /\ \A c \in Sweeps : Folded(c)' = Folded(c)
  BY DEF Rows, Served, Since, Folded
<1>3. /\ \A e \in Rows \cup snapshot.folded : e.op \in outrun' <=> e.op \in outrun
      /\ \A j \in Joins : \A e \in join[j].before : e.op \in outrun' <=> e.op \in outrun
  <2>1. \A v \in Writers : Pending(v) \/ (v \in outrun' <=> v \in outrun)
    BY DEF Pending
  <2> QED BY <1>1, <2>1, OutrunHaveNothing
<1>4. Served \subseteq Rows \cup snapshot.folded
  BY DEF Served, Since
<1>5. Kept(Served)' = Kept(Served) /\ Kept(Rows)' = Kept(Rows)
  BY <1>2, <1>3, <1>4 DEF Kept
<1>6. \A j \in Joins : Kept(join[j].before)' = Kept(join[j].before)
  BY <1>3 DEF Kept
<1>7. Alone' /\ SweepInOrder'
  BY <1>1, <1>2 DEF Alone, SweepInOrder, Since, Numbers
<1>8. \A v \in Writers : v \in outrun' /\ v # w <=> v \in outrun /\ v # w
  OBVIOUS
<1>9. FoldedBelow'
  <2>1. NothingBelow(snapshot)'
    <3>1. NothingBelow(snapshot)
      BY <1>1 DEF FoldedBelow
    <3>2. \A v \in Writers \ outrun' : Pending(v)' => writer'[v].seq > snapshot.version
      BY <1>8, <3>1 DEF NothingBelow, Pending
    <3> QED BY <1>5, <3>1, <3>2 DEF NothingBelow
  <2>2. ASSUME NEW c \in Sweeps, sweep'[c].pc = "folded" PROVE NothingBelow(Folded(c))'
    <3>1. NothingBelow(Folded(c)) /\ Folded(c)' = Folded(c) /\ sweep[c].pc = "folded"
      BY <1>1, <1>2, <2>2 DEF FoldedBelow
    <3>2. \A v \in Writers \ outrun' : Pending(v)' => writer'[v].seq > Folded(c).version
      BY <1>8, <3>1 DEF NothingBelow, Pending
    <3> QED BY <1>5, <3>1, <3>2 DEF NothingBelow
  <2> QED BY <2>1, <2>2 DEF FoldedBelow
<1>10. TrimsFolded'
  <2> SUFFICES ASSUME backend = "redis", NEW n \in Nat, NEW folded, FrontFolded(n, folded)
               PROVE  FrontFolded(n, folded)'
    <3>1. backend = "redis" => \A c \in Sweeps : Cardinality(sweep[c].rows) \in Nat
      BY FS_CardinalityType DEF NumberInv, RedisNumbers
    <3> QED BY <1>1, <1>2, <3>1 DEF TrimsFolded, FrontFolded
  <2>1. list \in Seq(Entry) /\ Len(list) \in Nat
    BY DEF NumberInv, TypeOK
  <2>2. \A i \in 1 .. n : list[i] \in Rows
    BY <2>1 DEF FrontFolded, Rows, ToSet
  <2> QED BY <1>3, <2>2 DEF FrontFolded
<1>11. OwnNumbers'
  BY <1>1, <1>2 DEF OwnNumbers, Pending, Numbers
<1>12. Known'
  BY <1>1, <1>2 DEF Known, Appended, Seeded, Stored
<1>13. JoinsKeep'
  BY <1>1, <1>2, <1>6 DEF JoinsKeep, Since
<1>14. AckedStays'
  BY <1>1, <1>2, <1>8 DEF AckedStays, Stored, IsServed
<1> QED BY <1>5, <1>7, <1>9, <1>10, <1>11, <1>12, <1>13, <1>14 DEF LogInv

(* A number just taken is above all that is stored or folded. *)
LEMMA TakenIsNew ==
  ASSUME NumberInv, LogInv, NEW w \in Writers, TakeNumber(w)
  PROVE  LogInv' /\ Kept(Served)' = Kept(Served)
<1>1. TypeOK /\ OwnKeys /\ PostgresNumbers /\ RedisNumbers
  BY DEF NumberInv
<1>2. SweepInOrder
  BY DEF LogInv
<1>3. /\ Head1 \in Nat /\ (backend = "redis" => Head1 = counter)
      /\ backend = "postgres" => snapshot.version <= Head1 /\ \A e \in table : e.seq <= Head1
  BY <1>1, HeadIsTop
<1>4. /\ UNCHANGED <<backend, table, list, snapshot, sweep, join>> /\ outrun' = outrun
      /\ writer[w].pc = "new"
      /\ writer'[w].pc = "numbered" /\ writer'[w].seq = Head1 + 1
      /\ \A v \in Writers \ {w} : writer'[v] = writer[v]
  BY <1>1 DEF TakeNumber, TypeOK, history
<1>5. snapshot.version \in Nat /\ snapshot.version < Head1 + 1
  BY <1>1, <1>3 DEF RedisNumbers, TypeOK, Snap, OwnKeys
<1>6. \A c \in Sweeps : sweep[c].pc = "folded" => Head1 + 1 > Folded(c).version
  <2> SUFFICES ASSUME NEW c \in Sweeps, sweep[c].pc = "folded" PROVE Head1 + 1 > sweep[c].last
    BY DEF Folded
  <2>1. PICK e \in Rows : e.seq = sweep[c].last
    BY <1>2 DEF SweepInOrder, Numbers, Since
  <2>2. e.seq \in Nat
    BY <1>1, ReadsAreTyped DEF Entry
  <2>3. e.seq <= Head1
    <3>1. backend = "postgres" => Rows = table
      BY <1>1 DEF OwnKeys, Rows, ToSet
    <3> QED BY <1>1, <1>3, <3>1 DEF RedisNumbers, Counted, OwnKeys
  <2> QED BY <1>3, <2>1, <2>2, <2>3
<1>7. ASSUME backend = "redis"
      PROVE  Head1 + 1 \notin Numbers(Served) /\ \A v \in Writers : writer[v].seq # Head1 + 1
  <2>1. \A v \in Writers : writer[v].seq \in Nat /\ writer[v].seq < Head1 + 1
    BY <1>1, <1>3, <1>7 DEF RedisNumbers, TypeOK
  <2>2. \A e \in Served : e.seq \in Nat /\ e.seq < Head1 + 1
    <3>1. Served \subseteq Entry /\ Served \subseteq Rows \cup snapshot.folded
      BY <1>1, ReadsAreTyped DEF Served, Since
    <3>2. \A e \in Served : e.seq \in Nat /\ e.seq <= Head1
      BY <1>1, <1>3, <1>7, <3>1 DEF RedisNumbers, Counted, Entry
    <3> QED BY <1>3, <3>2
  <2> QED BY <1>3, <2>1, <2>2 DEF Numbers
<1>8. HistoryTyped'
  BY <1>1, <1>4 DEF TakeNumber, history, TypeOK, HistoryTyped
<1> QED BY <1>4, <1>5, <1>6, <1>7, <1>8, WriterMoves

(* An append that gives up, or starts again, leaves the log alone. *)
LEMMA GivingUpKeepsLog ==
  ASSUME NumberInv, LogInv, NEW w \in Writers, LoseRace(w) \/ AppendDies(w)
  PROVE  LogInv' /\ Kept(Served)' = Kept(Served)
<1>1. TypeOK
  BY DEF NumberInv
<1>2. /\ UNCHANGED <<backend, table, list, snapshot, sweep, join>>
      /\ \A v \in Writers \ {w} : writer'[v] = writer[v]
  BY <1>1 DEF LoseRace, AppendDies, store, TypeOK
<1>3. writer[w].pc = "numbered"
  BY DEF LoseRace, AppendDies, Pending
<1>4. writer'[w].pc \in {"new", "failed"}
  BY <1>1 DEF LoseRace, AppendDies, TypeOK
<1>5. outrun' = outrun \/ outrun' = outrun \ {w}
  BY DEF LoseRace, AppendDies, history
<1>6. HistoryTyped'
  BY <1>1, HistoryIsTyped DEF Next, AppendStep
<1> QED BY <1>2, <1>3, <1>4, <1>5, <1>6, WriterMoves

(* A stored operation is served, under a number nothing else has, unless a *)
(* compaction has outrun it.                                               *)
LEMMA StoredIsServed ==
  ASSUME NumberInv, LogInv, NEW w \in Writers, Store(w)
  PROVE  LogInv' /\ (Kept(Served)' = Kept(Served) \/ Grows)
<1> DEFINE e == [seq |-> writer[w].seq, op |-> w]
<1>1. TypeOK /\ OwnKeys /\ PostgresNumbers /\ RedisNumbers /\ Begun
  BY DEF NumberInv
<1>2. /\ Alone /\ SweepInOrder /\ FoldedBelow /\ TrimsFolded /\ OwnNumbers
      /\ Known /\ JoinsKeep /\ AckedStays
  BY DEF LogInv
<1>3. /\ UNCHANGED <<backend, counter, snapshot, sweep, join>> /\ outrun' = outrun
      /\ Pending(w) /\ writer[w].seq > 0 /\ writer[w].seq \in Nat
      /\ writer'[w].pc = "stored" /\ writer'[w].seq = writer[w].seq
      /\ \A v \in Writers \ {w} : writer'[v] = writer[v]
  BY <1>1 DEF Store, Begun, TypeOK, history
<1>4. Rows' = Rows \cup {e} /\ table \subseteq table'
  BY <1>1, <1>3, StoreAddsItsRow DEF Store
<1>5. Served \subseteq Served' /\ Served' \subseteq Served \cup {e}
  BY <1>3, <1>4 DEF Served, Since
<1>6. \A v \in Writers : Pending(v)' => v # w /\ Pending(v) /\ writer'[v].seq = writer[v].seq
  BY <1>3 DEF Pending
<1>7. ASSUME w \notin outrun
      PROVE  /\ writer[w].seq > snapshot.version /\ Served' = Served \cup {e}
             /\ Kept(Served)' = Kept(Served) \cup {e} /\ Grows
  <2>1. writer[w].seq > snapshot.version
    BY <1>2, <1>3, <1>7 DEF FoldedBelow, NothingBelow
  <2>2. Served' = Served \cup {e}
    BY <1>3, <1>4, <2>1 DEF Served, Since
  <2>3. Kept(Served)' = Kept(Served) \cup {e}
    BY <1>3, <1>7, <2>2 DEF Kept
  <2>4. \A f \in Served : f.seq # e.seq
    <3>1. CASE backend = "redis"
      BY <1>2, <1>3, <3>1 DEF OwnNumbers, Numbers
    <3>2. CASE backend = "postgres"
      <4>1. Rows = table /\ e.seq \notin Numbers(table)
        BY <1>1, <3>2 DEF OwnKeys, Rows, ToSet, Store
      <4>2. \A f \in snapshot.folded : f.seq <= snapshot.version /\ f.seq \in Nat
        BY <1>1, <3>2 DEF PostgresNumbers, Capped, TypeOK, Snap, Entry
      <4>3. snapshot.version \in Nat
        BY <1>1 DEF TypeOK, Snap
      <4>4. \A f \in snapshot.folded : f.seq # e.seq
        BY <1>3, <2>1, <4>2, <4>3
      <4> QED BY <4>1, <4>4 DEF Served, Since, Numbers
    <3> QED BY <1>1, <3>1, <3>2 DEF OwnKeys
  <2>5. e \notin Kept(Served) /\ \A f \in Kept(Served) : f.seq # e.seq
    BY <2>4 DEF Kept
  <2> QED BY <2>1, <2>2, <2>3, <2>5 DEF Grows
<1>8. ASSUME w \in outrun PROVE Kept(Served)' = Kept(Served)
  BY <1>3, <1>5, <1>8 DEF Kept
<1>9. Alone' /\ SweepInOrder'
  BY <1>2, <1>3, <1>4 DEF Alone, SweepInOrder, Since
<1>10. FoldedBelow'
  <2>1. ASSUME NEW snap, NothingBelow(snap), snap = snapshot \/ \E c \in Sweeps : snap = Folded(c)
        PROVE  /\ \A f \in Kept(Rows)' : f.seq <= snap.version => f \in snap.folded
               /\ \A v \in Writers \ outrun' : Pending(v)' => writer'[v].seq > snap.version
    <3>1. snap.version \in Nat
      BY <1>1, <2>1 DEF TypeOK, Folded, Snap
    <3>2. w \notin outrun => writer[w].seq > snap.version
      BY <1>3, <2>1 DEF NothingBelow
    <3>3. \A f \in Kept(Rows)' : f \in Kept(Rows) \/ (f = e /\ w \notin outrun)
      BY <1>3, <1>4 DEF Kept
    <3>4. \A f \in Kept(Rows)' : f.seq <= snap.version => f \in snap.folded
      BY <1>3, <2>1, <3>1, <3>2, <3>3 DEF NothingBelow
    <3> QED BY <1>3, <1>6, <2>1, <3>4 DEF NothingBelow
  <2>2. NothingBelow(snapshot)'
    BY <1>2, <1>3, <2>1 DEF FoldedBelow, NothingBelow
  <2>3. ASSUME NEW c \in Sweeps, sweep'[c].pc = "folded" PROVE NothingBelow(Folded(c))'
    <3>1. NothingBelow(Folded(c)) /\ Folded(c)' = Folded(c)
      BY <1>2, <1>3, <2>3 DEF FoldedBelow, Folded
    <3> QED BY <2>1, <3>1 DEF NothingBelow
  <2> QED BY <2>2, <2>3 DEF FoldedBelow
<1>11. TrimsFolded'
  <2> SUFFICES ASSUME backend = "redis", NEW n, NEW folded, FrontFolded(n, folded), n \in Nat
               PROVE  FrontFolded(n, folded)'
    <3>1. \A c \in Sweeps : Folded(c)' = Folded(c)
      BY <1>3 DEF Folded
    <3>2. backend = "redis" => \A c \in Sweeps : Cardinality(sweep[c].rows) \in Nat
      BY <1>1, FS_CardinalityType DEF RedisNumbers
    <3> QED BY <1>2, <1>3, <3>1, <3>2 DEF TrimsFolded
  <2>1. e \in Entry /\ list \in Seq(Entry) /\ list' = Append(list, e)
    BY <1>1, <1>3 DEF Store, TypeOK, Entry
  <2>2. /\ Len(list) \in Nat /\ Len(list') = Len(list) + 1
        /\ \A i \in 1 .. Len(list) : list'[i] = list[i]
    BY <2>1, AppendProperties
  <2> QED BY <1>3, <2>2 DEF FrontFolded
<1>12. OwnNumbers'
  <2> SUFFICES ASSUME backend = "redis", NEW u \in Writers \ {w}, Pending(u)
               PROVE  /\ writer[u].seq \notin Numbers(Served')
                      /\ \A v \in Writers \ {w} : Pending(v) /\ writer[v].seq = writer[u].seq => v = u
    BY <1>3 DEF OwnNumbers, Pending, Numbers
  <2>1. writer[u].seq # e.seq
    BY <1>2, <1>3 DEF OwnNumbers
  <2> QED BY <1>2, <1>5, <2>1 DEF OwnNumbers, Numbers
<1>13. Known'
  <2>1. \A f : Appended(f) => Appended(f)'
    BY <1>3 DEF Appended, Stored
  <2>2. Appended(e)' /\ Stored(w)'
    BY <1>3 DEF Appended, Stored
  <2> QED BY <1>2, <1>3, <1>4, <2>1, <2>2 DEF Known, Seeded
<1>14. JoinsKeep'
  <2>1. \A j \in Joins : Kept(join[j].before)' = Kept(join[j].before)
    BY <1>3 DEF Kept
  <2>2. \A after : Since(after) \subseteq Since(after)'
    BY <1>4 DEF Since
  <2> QED BY <1>2, <1>3, <1>5, <2>1, <2>2 DEF JoinsKeep
<1>15. AckedStays'
  <2>1. ASSUME NEW v \in Writers \ outrun, Stored(v)' PROVE [seq |-> writer'[v].seq, op |-> v] \in Served'
    <3>1. CASE v = w
      BY <1>3, <1>7, <2>1, <3>1
    <3>2. CASE v # w
      BY <1>2, <1>3, <1>5, <2>1, <3>2 DEF AckedStays, Stored, IsServed
    <3> QED BY <3>1, <3>2
  <2> QED BY <1>3, <2>1 DEF AckedStays, IsServed
<1> QED BY <1>7, <1>8, <1>9, <1>10, <1>11, <1>12, <1>13, <1>14, <1>15 DEF LogInv

(* Reading the log: what the sweep will fold is all there is at or below   *)
(* the version it will write, but for what it has just outrun.             *)
LEMMA ReadLogKeepsLog ==
  ASSUME NumberInv, LogInv, NEW c \in Sweeps, ReadLog(c), Intact'
  PROVE  /\ FoldedBelow' /\ TrimsFolded' /\ Kept(Served)' = Kept(Served)
         /\ OwnNumbers' /\ Known' /\ JoinsKeep' /\ AckedStays'
<1> DEFINE rows == Since(snapshot.version)
           last == LastSeq(snapshot.version)
<1>1. TypeOK /\ OwnKeys /\ RedisNumbers
  BY DEF NumberInv
<1>2. /\ Alone /\ SweepInOrder /\ FoldedBelow /\ TrimsFolded /\ OwnNumbers
      /\ Known /\ JoinsKeep /\ AckedStays
  BY DEF LogInv
<1>3. \A d \in Sweeps \ {c} : sweep[d].pc = "idle" /\ sweep'[d] = sweep[d]
  BY <1>1, <1>2, StepsAlone DEF SweepStep
<1>4. /\ UNCHANGED <<backend, table, list, snapshot, writer, join>>
      /\ sweep[c].prev = snapshot
      /\ outrun' = outrun \cup (IF rows = {} THEN {} ELSE HalfDone(last))
  BY <1>2 DEF ReadLog, store, SweepInOrder
<1>5. Rows' = Rows /\ Served' = Served /\ Served \subseteq Rows \cup snapshot.folded
  BY <1>4 DEF Rows, Served, Since
<1>6. /\ outrun \subseteq outrun'
      /\ \A w \in Writers : w \in outrun' /\ w \notin outrun => Pending(w)
  <2>1. \A w \in HalfDone(last) : Pending(w)
    BY DEF HalfDone
  <2> HIDE DEF rows, last
  <2> QED BY <1>4, <2>1
<1>7. HistoryTyped'
  BY <1>1, HistoryIsTyped DEF Next, SweepStep
<1>8. /\ \A e \in Rows \cup snapshot.folded : e.op \in outrun' <=> e.op \in outrun
      /\ \A j \in Joins : \A e \in join[j].before : e.op \in outrun' <=> e.op \in outrun
  <2>1. \A w \in Writers : Pending(w) \/ (w \in outrun' <=> w \in outrun)
    BY <1>6
  <2> QED BY <1>2, <1>7, <2>1, OutrunHaveNothing
<1>9. /\ Kept(Served)' = Kept(Served) /\ Kept(Rows)' = Kept(Rows)
      /\ \A j \in Joins : Kept(join[j].before)' = Kept(join[j].before)
  BY <1>4, <1>5, <1>8 DEF Kept
<1>10. NothingBelow(snapshot)'
  <2>1. NothingBelow(snapshot)
    BY <1>2 DEF FoldedBelow
  <2> QED BY <1>4, <1>6, <1>9, <2>1 DEF NothingBelow, Pending
<1>11. FoldedBelow' /\ TrimsFolded'
  <2>1. CASE rows = {}
    <3>1. sweep'[c].pc = "idle"
      BY <1>1, <1>4, <2>1 DEF ReadLog, TypeOK, Idle
    <3> QED BY <1>3, <1>10, <3>1 DEF FoldedBelow, TrimsFolded
  <2>2. CASE rows # {}
    <3>1. sweep'[c] = [pc |-> "folded", prev |-> snapshot, rows |-> rows, last |-> last]
      BY <1>1, <1>4, <2>2, SweepGoesOn
    <3>2. Folded(c)'.version = last /\ Folded(c)'.folded = snapshot.folded \cup rows
      BY <3>1 DEF Folded
    <3>3. \A e \in Rows : e \in snapshot.folded \cup rows \/ e.op \in outrun
      <4> SUFFICES ASSUME NEW e \in Rows, ~ (e.seq > snapshot.version), e.op \notin outrun
                   PROVE  e \in snapshot.folded
        BY DEF Since
      <4>1. e.seq \in Nat /\ snapshot.version \in Nat
        BY <1>1, ReadsAreTyped DEF Entry, TypeOK, Snap
      <4> QED BY <1>2, <4>1 DEF FoldedBelow, NothingBelow, Kept
    <3>4. NothingBelow(Folded(c))'
      <4>1. \A e \in Kept(Rows)' : e \in snapshot.folded \cup rows
        BY <1>9, <3>3 DEF Kept
      <4>2. ASSUME NEW w \in Writers \ outrun', Pending(w) PROVE writer[w].seq > last
        <5>1. w \notin HalfDone(last)
          BY <1>4, <2>2, <4>2
        <5>2. writer[w].seq \in Nat /\ last \in Nat
          <6>1. snapshot.version \in Nat
            BY <1>1 DEF TypeOK, Snap
          <6>2. last \in Numbers(rows) /\ rows \subseteq Entry
            BY <1>1, <2>2, <6>1, LastIsOfARow, ReadsAreTyped
          <6> QED BY <1>1, <6>2 DEF Numbers, Entry, TypeOK
        <5> QED BY <4>2, <5>1, <5>2 DEF HalfDone
      <4> HIDE DEF rows, last
      <4> QED BY <1>4, <3>2, <4>1, <4>2 DEF NothingBelow, Pending
    <3>5. backend = "redis" => FrontFolded(Cardinality(rows), snapshot.folded \cup rows)
      <4> SUFFICES ASSUME backend = "redis"
                   PROVE  FrontFolded(Cardinality(rows), snapshot.folded \cup rows)
        OBVIOUS
      <4>1. Rows = ToSet(list) /\ list \in Seq(Entry) /\ rows \subseteq ToSet(list)
        BY <1>1 DEF OwnKeys, Rows, TypeOK, Since
      <4>2. IsFiniteSet(ToSet(list)) /\ Cardinality(ToSet(list)) <= Len(list)
        BY <4>1, ListIsFinite
      <4>3. /\ Cardinality(rows) <= Cardinality(ToSet(list))
            /\ Cardinality(rows) \in Nat /\ Cardinality(ToSet(list)) \in Nat
        BY <4>1, <4>2, FS_Subset, FS_CardinalityType
      <4>4. Cardinality(rows) <= Len(list) /\ Len(list) \in Nat
        BY <4>1, <4>2, <4>3
      <4>5. \A i \in 1 .. Len(list) : list[i] \in Rows
        BY <4>1 DEF ToSet
      <4> HIDE DEF rows
      <4> QED BY <3>3, <4>3, <4>4, <4>5 DEF FrontFolded
    <3>6. TrimsFolded'
      <4>1. sweep'[c].pc = "folded" /\ sweep'[c].rows = rows
        BY <3>1
      <4> HIDE DEF rows
      <4> QED BY <1>3, <1>4, <1>6, <3>2, <3>5, <4>1 DEF TrimsFolded, FrontFolded
    <3> QED BY <1>3, <1>10, <3>4, <3>6 DEF FoldedBelow
  <2> QED BY <2>1, <2>2
<1>12. OwnNumbers' /\ Known'
  BY <1>2, <1>4, <1>5 DEF OwnNumbers, Pending, Numbers, Known, Appended, Seeded, Stored
<1>13. JoinsKeep'
  BY <1>2, <1>4, <1>5, <1>9 DEF JoinsKeep, Since
<1>14. AckedStays'
  BY <1>2, <1>4, <1>5, <1>6 DEF AckedStays, Stored, IsServed
<1> QED BY <1>9, <1>11, <1>12, <1>13, <1>14

(* The snapshot a sweep writes serves what the one before and the rows did *)
LEMMA FoldedServesTheSame ==
  ASSUME NumberInv, LogInv, NEW c \in Sweeps, sweep[c].pc = "folded"
  PROVE  /\ Kept(Folded(c).folded \cup Since(Folded(c).version)) = Kept(Served)
         /\ Folded(c).folded \cup Since(Folded(c).version) \subseteq Served
         /\ \E f \in Rows : f.seq = Folded(c).version
<1>1. TypeOK
  BY DEF NumberInv
<1>2. SweepInOrder /\ FoldedBelow
  BY DEF LogInv
<1>3. /\ sweep[c].prev = snapshot /\ sweep[c].rows \subseteq Since(snapshot.version)
      /\ sweep[c].last \in Numbers(sweep[c].rows)
  BY <1>2 DEF SweepInOrder
<1>4. PICK f \in Rows : f.seq = sweep[c].last /\ f.seq > snapshot.version
  BY <1>3 DEF Numbers, Since
<1>5. \A e \in Rows : e.seq \in Nat
  BY <1>1, ReadsAreTyped DEF Entry
<1>6. snapshot.version \in Nat
  BY <1>1 DEF TypeOK, Snap
<1>7. \A e \in Kept(Rows) : e.seq <= sweep[c].last => e \in snapshot.folded \cup sweep[c].rows
  BY <1>2, <1>3 DEF FoldedBelow, NothingBelow, Folded
<1>8. \A e \in Rows : e.seq > sweep[c].last => e.seq > snapshot.version
  BY <1>4, <1>5, <1>6
<1>9. \A e \in Rows : e.seq > sweep[c].last \/ e.seq <= sweep[c].last
  BY <1>4, <1>5
<1>10. snapshot.folded \cup sweep[c].rows \cup {e \in Rows : e.seq > sweep[c].last}
         \subseteq snapshot.folded \cup {e \in Rows : e.seq > snapshot.version}
  BY <1>3, <1>8 DEF Since
<1>11. \A e \in Kept(snapshot.folded \cup {e \in Rows : e.seq > snapshot.version}) :
         e \in snapshot.folded \cup sweep[c].rows \cup {g \in Rows : g.seq > sweep[c].last}
  BY <1>7, <1>9 DEF Kept
<1>12. /\ Folded(c).version = sweep[c].last
       /\ Folded(c).folded = snapshot.folded \cup sweep[c].rows
  BY <1>3 DEF Folded
<1>13. Folded(c).folded \cup Since(Folded(c).version) \subseteq Served
  BY <1>10, <1>12 DEF Served, Since
<1>14. Kept(Folded(c).folded \cup Since(Folded(c).version)) = Kept(Served)
  BY <1>10, <1>11, <1>12 DEF Served, Since, Kept
<1> QED BY <1>4, <1>12, <1>13, <1>14

(* A step of a sweep that removes rows, or replaces the snapshot, and      *)
(* serves no less than before to whom it concerns.                         *)
LEMMA SameLog ==
  ASSUME NumberInv, LogInv, UNCHANGED <<backend, writer, outrun>>,
         Kept(Served)' = Kept(Served), Served' \subseteq Served, Rows' \subseteq Rows,
         \A e \in snapshot'.folded : e \in Served,
         snapshot' = snapshot \/ \E f \in Rows : f.seq = snapshot'.version,
         JoinsTyped', \A j \in Joins :
           /\ join'[j].pc = join[j].pc /\ join'[j].snap = join[j].snap
           /\ join'[j].got = join[j].got /\ join'[j].before = join[j].before
           /\ ~ join'[j].cut => ~ join[j].cut
           /\ join[j].pc = "snapshot" /\ ~ join'[j].cut => join[j].snap = snapshot' \/ Rows' = Rows
  PROVE  OwnNumbers' /\ Known' /\ JoinsKeep' /\ AckedStays'
<1>1. OwnNumbers /\ Known /\ JoinsKeep /\ AckedStays
  BY DEF LogInv
<1>2. OwnNumbers'
  BY <1>1 DEF OwnNumbers, Pending, Numbers
<1>3. Known'
  <2>1. \A e : (Appended(e) => Appended(e)') /\ (Seeded(e) => Seeded(e)')
    BY DEF Appended, Seeded, Stored
  <2>2. \A e \in Served : Appended(e) \/ Seeded(e)
    BY <1>1 DEF Known, Served, Since
  <2>3. \A e \in Rows' : Appended(e)'
    BY <1>1, <2>1 DEF Known
  <2>4. \A e \in snapshot'.folded : Appended(e)' \/ Seeded(e)'
    BY <2>1, <2>2
  <2>5. \A j \in Joins : \A e \in join'[j].before : Appended(e)' \/ Seeded(e)'
    BY <1>1, <2>1 DEF Known
  <2>6. snapshot'.version <= SeedLength \/ \E w \in Writers : Stored(w)'
    <3>1. CASE snapshot' = snapshot
      BY <1>1, <3>1 DEF Known, Stored
    <3>2. CASE \E f \in Rows : f.seq = snapshot'.version
      BY <1>1, <3>2 DEF Known, Appended, Stored
    <3> QED BY <3>1, <3>2
  <2> QED BY <2>3, <2>4, <2>5, <2>6 DEF Known
<1>4. JoinsKeep'
  <2> SUFFICES ASSUME NEW j \in Joins
               PROVE  /\ Kept(join[j].before) \subseteq Served'
                      /\ join[j].pc = "snapshot" /\ ~ join'[j].cut =>
                           Kept(join[j].before) \subseteq
                             join[j].snap.folded \cup Since(join[j].snap.version)'
                      /\ join[j].pc = "welcomed" /\ ~ join'[j].cut =>
                           Kept(join[j].before) \subseteq join[j].got
    BY DEF JoinsKeep, Kept, Since
  <2>1. Kept(join[j].before) \subseteq Served'
    BY <1>1 DEF JoinsKeep, Kept
  <2>2. ASSUME join[j].pc = "snapshot", ~ join'[j].cut
        PROVE  Kept(join[j].before) \subseteq join[j].snap.folded \cup Since(join[j].snap.version)'
    <3>1. CASE join[j].snap = snapshot'
      BY <2>1, <3>1 DEF Served, Since
    <3>2. CASE Rows' = Rows
      BY <1>1, <2>2, <3>2 DEF JoinsKeep, Since
    <3> QED BY <2>2, <3>1, <3>2
  <2> QED BY <1>1, <2>1, <2>2 DEF JoinsKeep
<1>5. AckedStays'
  <2> SUFFICES ASSUME NEW w \in Writers \ outrun, Stored(w)
               PROVE  [seq |-> writer[w].seq, op |-> w] \in Served'
    BY DEF AckedStays, IsServed, Stored
  <2>1. [seq |-> writer[w].seq, op |-> w] \in Kept(Served)
    BY <1>1 DEF AckedStays, IsServed, Kept
  <2> QED BY <2>1 DEF Kept
<1> QED BY <1>2, <1>3, <1>4, <1>5

(* Writing the snapshot, with the rows deleted in the same transaction or  *)
(* with the list still there.                                              *)
LEMMA WriteKeepsLog ==
  ASSUME NumberInv, LogInv, NEW c \in Sweeps, Replace(c) \/ SaveSnapshot(c), Intact'
  PROVE  /\ FoldedBelow' /\ TrimsFolded' /\ Kept(Served)' = Kept(Served)
         /\ OwnNumbers' /\ Known' /\ JoinsKeep' /\ AckedStays'
<1>1. TypeOK /\ OwnKeys
  BY DEF NumberInv
<1>2. Alone /\ FoldedBelow /\ TrimsFolded
  BY DEF LogInv
<1>3. \A d \in Sweeps \ {c} : sweep[d].pc = "idle" /\ sweep'[d] = sweep[d]
  BY <1>1, <1>2, StepsAlone DEF SweepStep
<1>4. /\ sweep[c].pc = "folded" /\ snapshot' = Folded(c) /\ UNCHANGED <<backend, list, writer>>
      /\ outrun' = outrun
      /\ table' \subseteq table /\ (backend = "redis" => table' = table)
      /\ \A e \in table : e.seq > sweep[c].last => e \in table'
      /\ sweep'[c].pc \in {"idle", "saved"}
      /\ backend = "redis" => sweep'[c].rows = sweep[c].rows
  <2>1. CASE Replace(c)
    BY <1>1, <2>1 DEF Replace, TypeOK, Idle, history
  <2>2. CASE SaveSnapshot(c)
    BY <1>1, <2>2 DEF SaveSnapshot, TypeOK, history
  <2> QED BY <2>1, <2>2
<1>5. Folded(c).version = sweep[c].last /\ NothingBelow(Folded(c))
  BY <1>2, <1>4 DEF Folded, FoldedBelow
<1>6. Rows' \subseteq Rows /\ Since(Folded(c).version) = Since(snapshot.version)'
  BY <1>4, <1>5 DEF Rows, Since
<1>7. Served' = Folded(c).folded \cup Since(Folded(c).version)
  BY <1>4, <1>6 DEF Served
<1>8. /\ Kept(Served)' = Kept(Served) /\ Served' \subseteq Served
      /\ \E f \in Rows : f.seq = Folded(c).version
  <2>1. Kept(Served)' = Kept(Folded(c).folded \cup Since(Folded(c).version))
    BY <1>4, <1>7 DEF Kept
  <2> QED BY <1>4, <1>7, <2>1, FoldedServesTheSame
<1>9. NothingBelow(snapshot)'
  BY <1>4, <1>5, <1>6 DEF NothingBelow, Pending, Kept
<1>10. FoldedBelow'
  BY <1>3, <1>4, <1>9 DEF FoldedBelow
<1>11. TrimsFolded'
  <2> SUFFICES ASSUME backend = "redis"
               PROVE  FrontFolded(Cardinality(sweep[c].rows), snapshot'.folded)
    BY <1>3, <1>4 DEF TrimsFolded, FrontFolded
  <2> QED BY <1>2, <1>4 DEF TrimsFolded
<1>12. /\ JoinsTyped'
       /\ \A j \in Joins :
            /\ join'[j].pc = join[j].pc /\ join'[j].snap = join[j].snap
            /\ join'[j].got = join[j].got /\ join'[j].before = join[j].before
            /\ ~ join'[j].cut => ~ join[j].cut
            /\ join[j].pc = "snapshot" /\ ~ join'[j].cut => join[j].snap = snapshot' \/ Rows' = Rows
  <2>1. JoinsTyped
    BY <1>1 DEF TypeOK, JoinsTyped
  <2>2. CASE Replace(c)
    <3>1. CutJoins(Folded(c))
      BY <2>2 DEF Replace
    <3>2. JoinsTyped' /\ \A j \in Joins :
            /\ join'[j].pc = join[j].pc /\ join'[j].snap = join[j].snap
            /\ join'[j].got = join[j].got /\ join'[j].before = join[j].before
            /\ ~ join'[j].cut => ~ join[j].cut /\ (join[j].pc = "snapshot" => join[j].snap = Folded(c))
      BY <2>1, <3>1, CutIsTyped
    <3> QED BY <1>4, <3>2
  <2>3. CASE SaveSnapshot(c)
    BY <2>1, <2>3 DEF SaveSnapshot, JoinsTyped, Rows, Snap, Entry
  <2> QED BY <2>2, <2>3
<1>13. \A e \in snapshot'.folded : e \in Served
  BY <1>8 DEF Served
<1> QED BY <1>4, <1>6, <1>8, <1>10, <1>11, <1>12, <1>13, SameLog

(* LTRIM drops entries that are folded, or were outrun. *)
LEMMA TrimKeepsLog ==
  ASSUME NumberInv, LogInv, NEW c \in Sweeps, Trim(c), Intact'
  PROVE  /\ FoldedBelow' /\ TrimsFolded' /\ Kept(Served)' = Kept(Served)
         /\ OwnNumbers' /\ Known' /\ JoinsKeep' /\ AckedStays'
<1> DEFINE n == Cardinality(sweep[c].rows)
<1>1. TypeOK /\ OwnKeys /\ RedisNumbers /\ Begun
  BY DEF NumberInv
<1>2. Alone /\ FoldedBelow /\ TrimsFolded
  BY DEF LogInv
<1>3. \A d \in Sweeps \ {c} : sweep[d].pc = "idle" /\ sweep'[d] = sweep[d]
  BY <1>1, <1>2, StepsAlone DEF SweepStep
<1>4. /\ sweep[c].pc = "saved" /\ sweep'[c].pc = "idle" /\ backend = "redis" /\ outrun' = outrun
      /\ list' = SubSeq(list, n + 1, Len(list)) /\ UNCHANGED <<backend, table, snapshot, writer>>
  BY <1>1 DEF Trim, Begun, TypeOK, Idle, history
<1>5. n \in Nat /\ FrontFolded(n, snapshot.folded) /\ list \in Seq(Entry)
  BY <1>1, <1>2, <1>4, FS_CardinalityType DEF RedisNumbers, TrimsFolded, TypeOK
<1>6. Rows = {list[i] : i \in 1 .. Len(list)} /\ Rows' = {list[i] : i \in (n + 1) .. Len(list)}
  <2>1. DOMAIN list = 1 .. Len(list) /\ table = {}
    BY <1>1, <1>4, <1>5 DEF OwnKeys
  <2> HIDE DEF n
  <2>2. ToSet(SubSeq(list, n + 1, Len(list))) = {list[i] : i \in (n + 1) .. Len(list)}
    BY <1>5, TrimLeavesTheRest
  <2> QED BY <1>4, <2>1, <2>2 DEF Rows, ToSet
<1> HIDE DEF n
<1>7. Rows' \subseteq Rows /\ \A e \in Rows : e \in Rows' \/ e \in snapshot.folded \/ e.op \in outrun
  <2>1. Len(list) \in Nat
    BY <1>5
  <2>2. (n + 1) .. Len(list) \subseteq 1 .. Len(list)
    BY <1>5, <2>1
  <2>3. \A i \in 1 .. Len(list) : i \in (n + 1) .. Len(list) \/ i \in 1 .. n
    BY <1>5, <2>1
  <2> QED BY <1>5, <1>6, <2>2, <2>3 DEF FrontFolded
<1>8. Kept(Served)' = Kept(Served) /\ Served' \subseteq Served
  BY <1>4, <1>7 DEF Served, Since, Kept
<1>9. NothingBelow(snapshot)'
  BY <1>2, <1>4, <1>7 DEF FoldedBelow, NothingBelow, Pending, Kept
<1>10. FoldedBelow' /\ TrimsFolded'
  BY <1>3, <1>4, <1>9 DEF FoldedBelow, TrimsFolded
<1>11. JoinsTyped' /\ \A j \in Joins :
         /\ join'[j].pc = join[j].pc /\ join'[j].snap = join[j].snap
         /\ join'[j].got = join[j].got /\ join'[j].before = join[j].before
         /\ ~ join'[j].cut => ~ join[j].cut /\ (join[j].pc = "snapshot" => join[j].snap = snapshot)
  <2>1. JoinsTyped /\ CutJoins(snapshot)
    BY <1>1 DEF TypeOK, JoinsTyped, Trim
  <2> QED BY <2>1, CutIsTyped
<1>12. \A e \in snapshot'.folded : e \in Served
  BY <1>4 DEF Served
<1> QED BY <1>4, <1>7, <1>8, <1>10, <1>11, <1>12, SameLog

(* A sweep that starts or dies leaves the log alone. *)
LEMMA StartOrDieKeepsLog ==
  ASSUME NumberInv, LogInv, NEW c \in Sweeps, StartSweep(c) \/ SweepDies(c), Intact'
  PROVE  /\ FoldedBelow' /\ TrimsFolded' /\ Kept(Served)' = Kept(Served)
         /\ OwnNumbers' /\ Known' /\ JoinsKeep' /\ AckedStays'
<1>1. TypeOK
  BY DEF NumberInv
<1>2. /\ Alone /\ FoldedBelow /\ TrimsFolded /\ OwnNumbers
      /\ Known /\ JoinsKeep /\ AckedStays
  BY DEF LogInv
<1>3. \A d \in Sweeps \ {c} : sweep[d].pc = "idle" /\ sweep'[d] = sweep[d]
  BY <1>1, <1>2, StepsAlone DEF SweepStep
<1>4. /\ UNCHANGED <<backend, table, list, snapshot, writer, join>> /\ outrun' = outrun
      /\ sweep'[c].pc \in {"idle", "loaded"}
  <2>1. CASE StartSweep(c)
    <3>1. sweep'[c] = [pc |-> "loaded", prev |-> snapshot, rows |-> {}, last |-> 0]
      BY <1>1, <2>1, SweepGoesOn
    <3> QED BY <2>1, <3>1 DEF StartSweep, store
  <2>2. CASE SweepDies(c)
    BY <1>1, <2>2 DEF SweepDies, store, TypeOK, Idle, history
  <2> QED BY <2>1, <2>2
<1>5. Rows' = Rows /\ Served' = Served
  BY <1>4 DEF Rows, Served, Since
<1>6. Kept(Served)' = Kept(Served) /\ Kept(Rows)' = Kept(Rows)
  BY <1>4, <1>5 DEF Kept
<1>7. NothingBelow(snapshot)'
  BY <1>2, <1>4, <1>6 DEF FoldedBelow, NothingBelow, Pending
<1>8. FoldedBelow' /\ TrimsFolded'
  BY <1>3, <1>4, <1>7 DEF FoldedBelow, TrimsFolded
<1>9. OwnNumbers' /\ Known' /\ AckedStays'
  BY <1>2, <1>4, <1>5 DEF OwnNumbers, Pending, Numbers, Known, Appended, Seeded, Stored, AckedStays, IsServed
<1>10. JoinsKeep'
  BY <1>2, <1>4, <1>5 DEF JoinsKeep, Kept, Since
<1> QED BY <1>6, <1>8, <1>9, <1>10

(* A sweep changes nothing of what is served to a join. *)
LEMMA SweepKeepsLog ==
  ASSUME NumberInv, LogInv, NEW c \in Sweeps, SweepStep(c), Intact'
  PROVE  LogInv' /\ Kept(Served)' = Kept(Served)
<1>1. /\ FoldedBelow' /\ TrimsFolded' /\ Kept(Served)' = Kept(Served)
      /\ OwnNumbers' /\ Known' /\ JoinsKeep' /\ AckedStays'
  BY ReadLogKeepsLog, WriteKeepsLog, TrimKeepsLog, StartOrDieKeepsLog DEF SweepStep
<1>2. SweepInOrder'
  BY SweepStaysInOrder DEF Next, LogInv
<1>3. Alone'
  BY StepsAlone DEF LogInv, NumberInv
<1> QED BY <1>1, <1>2, <1>3 DEF LogInv

(* What a join leaves its record as. *)
LEMMA JoinGoesOn ==
  ASSUME TypeOK, NEW j \in Joins, JoinStep(j)
  PROVE  /\ \A i \in Joins \ {j} : join'[i] = join[i]
         /\ ReadHead(j) => /\ join'[j].pc = "head" /\ join'[j].before = Served
         /\ ReadSnapshot(j) =>
              /\ join'[j].pc = "snapshot" /\ join'[j].snap = snapshot
              /\ join'[j].before = join[j].before
         /\ ReadRest(j) =>
              /\ join'[j].pc = "welcomed" /\ join'[j].before = join[j].before
              /\ join'[j].cut = join[j].cut
              /\ join'[j].got = join[j].snap.folded \cup Since(join[j].snap.version)
<1> DEFINE Joining == [pc : {"new", "head", "snapshot", "welcomed"}, head : Nat, snap : Snap,
                       got : SUBSET Entry, before : SUBSET Entry, cut : BOOLEAN]
<1>1. join \in [Joins -> Joining] /\ join[j] \in Joining
  BY DEF TypeOK
<1>2. CASE ReadHead(j)
  <2> DEFINE r == [pc |-> "head", head |-> Head1, snap |-> join[j].snap, got |-> join[j].got,
                   before |-> Served, cut |-> join[j].cut]
  <2>1. [[[join[j] EXCEPT !.pc = "head"] EXCEPT !.head = Head1] EXCEPT !.before = Served] = r
    <3> DEFINE p == [join[j] EXCEPT !.pc = "head"]
               q == [p EXCEPT !.head = Head1]
    <3>1. p = [pc |-> "head", head |-> join[j].head, snap |-> join[j].snap, got |-> join[j].got,
              before |-> join[j].before, cut |-> join[j].cut]
      BY <1>1
    <3> HIDE DEF p
    <3>2. q = [pc |-> "head", head |-> Head1, snap |-> join[j].snap, got |-> join[j].got,
              before |-> join[j].before, cut |-> join[j].cut]
      BY <3>1
    <3> HIDE DEF q
    <3>3. [q EXCEPT !.before = Served] = r
      BY <3>2
    <3> QED BY <3>3 DEF p, q
  <2>2. join' = [join EXCEPT ![j] = r]
    BY <1>1, <1>2, <2>1 DEF ReadHead
  <2>3. r.pc = "head" /\ r.before = Served
    OBVIOUS
  <2> HIDE DEF r
  <2>4. ~ ReadSnapshot(j) /\ ~ ReadRest(j)
    BY <1>2 DEF ReadHead, ReadSnapshot, ReadRest
  <2> QED BY <1>1, <2>2, <2>3, <2>4
<1>3. CASE ReadSnapshot(j)
  <2> DEFINE r == [pc |-> "snapshot", head |-> join[j].head, snap |-> snapshot,
                   got |-> join[j].got, before |-> join[j].before, cut |-> join[j].cut]
  <2>1. [[join[j] EXCEPT !.pc = "snapshot"] EXCEPT !.snap = snapshot] = r
    <3> DEFINE p == [join[j] EXCEPT !.pc = "snapshot"]
    <3>1. p = [pc |-> "snapshot", head |-> join[j].head, snap |-> join[j].snap, got |-> join[j].got,
              before |-> join[j].before, cut |-> join[j].cut]
      BY <1>1
    <3> HIDE DEF p
    <3>2. [p EXCEPT !.snap = snapshot] = r
      BY <3>1
    <3> QED BY <3>2 DEF p
  <2>2. join' = [join EXCEPT ![j] = r]
    BY <1>1, <1>3, <2>1 DEF ReadSnapshot
  <2>3. r.pc = "snapshot" /\ r.snap = snapshot /\ r.before = join[j].before
    OBVIOUS
  <2> HIDE DEF r
  <2>4. ~ ReadHead(j) /\ ~ ReadRest(j)
    BY <1>3 DEF ReadHead, ReadSnapshot, ReadRest
  <2> QED BY <1>1, <2>2, <2>3, <2>4
<1>4. CASE ReadRest(j)
  <2> DEFINE got == join[j].snap.folded \cup Since(join[j].snap.version)
             r == [pc |-> "welcomed", head |-> join[j].head, snap |-> join[j].snap,
                   got |-> got, before |-> join[j].before, cut |-> join[j].cut]
  <2>1. [[join[j] EXCEPT !.pc = "welcomed"] EXCEPT !.got = got] = r
    <3> DEFINE p == [join[j] EXCEPT !.pc = "welcomed"]
    <3>1. p = [pc |-> "welcomed", head |-> join[j].head, snap |-> join[j].snap, got |-> join[j].got,
              before |-> join[j].before, cut |-> join[j].cut]
      BY <1>1
    <3> HIDE DEF p
    <3>2. [p EXCEPT !.got = got] = r
      BY <3>1
    <3> QED BY <3>2 DEF p
  <2>2. join' = [join EXCEPT ![j] = r]
    BY <1>1, <1>4, <2>1 DEF ReadRest
  <2>3. r.pc = "welcomed" /\ r.got = got /\ r.before = join[j].before /\ r.cut = join[j].cut
    OBVIOUS
  <2> HIDE DEF r
  <2>4. ~ ReadHead(j) /\ ~ ReadSnapshot(j)
    BY <1>4 DEF ReadHead, ReadSnapshot, ReadRest
  <2> QED BY <1>1, <2>2, <2>3, <2>4
<1> QED BY <1>2, <1>3, <1>4 DEF JoinStep

(* A join only reads; what it found is served from then on. *)
LEMMA JoinKeepsLog ==
  ASSUME NumberInv, LogInv, NEW j \in Joins, JoinStep(j)
  PROVE  LogInv' /\ Kept(Served)' = Kept(Served)
<1>1. /\ Alone /\ SweepInOrder /\ FoldedBelow /\ TrimsFolded /\ OwnNumbers
      /\ Known /\ JoinsKeep /\ AckedStays
  BY DEF LogInv
<1>2. UNCHANGED <<backend, table, list, snapshot, sweep, writer>> /\ outrun' = outrun
  BY DEF JoinStep, ReadHead, ReadSnapshot, ReadRest, store, history
<1>3. Rows' = Rows /\ Served' = Served /\ \A c \in Sweeps : Folded(c)' = Folded(c)
  BY <1>2 DEF Rows, Served, Since, Folded
<1>4. Kept(Served)' = Kept(Served) /\ Kept(Rows)' = Kept(Rows)
  BY <1>2, <1>3 DEF Kept
<1>5. Alone' /\ SweepInOrder' /\ FoldedBelow' /\ TrimsFolded'
  BY <1>1, <1>2, <1>3, <1>4
     DEF Alone, SweepInOrder, Since, Numbers, FoldedBelow, NothingBelow, Pending, TrimsFolded, FrontFolded
<1>6. OwnNumbers' /\ AckedStays'
  BY <1>1, <1>2, <1>3 DEF OwnNumbers, AckedStays, IsServed, Stored, Pending, Numbers
<1>7. /\ \A i \in Joins \ {j} : join'[i] = join[i]
      /\ join'[j].before = Served \/ join'[j].before = join[j].before
  BY JoinGoesOn DEF NumberInv, JoinStep
<1>8. Known'
  <2>1. \A e \in Served : Appended(e) \/ Seeded(e)
    BY <1>1 DEF Known, Served, Since
  <2>2. \A i \in Joins : \A e \in join'[i].before : Appended(e) \/ Seeded(e)
    BY <1>1, <1>7, <2>1 DEF Known
  <2> QED BY <1>1, <1>2, <1>3, <2>2 DEF Known, Appended, Seeded, Stored
<1>9. JoinsKeep'
  <2> DEFINE Keeps(i) ==
        /\ Kept(join'[i].before) \subseteq Served
        /\ join'[i].pc = "snapshot" /\ ~ join'[i].cut =>
             Kept(join'[i].before) \subseteq join'[i].snap.folded \cup Since(join'[i].snap.version)
        /\ join'[i].pc = "welcomed" /\ ~ join'[i].cut => Kept(join'[i].before) \subseteq join'[i].got
  <2>1. ASSUME NEW i \in Joins \ {j} PROVE Keeps(i)
    BY <1>1, <1>7, <2>1 DEF JoinsKeep
  <2>2. Keeps(j)
    <3>1. Kept(Served) \subseteq Served
      BY DEF Kept
    <3>2. Kept(join'[j].before) \subseteq Served
      <4>1. Kept(join[j].before) \subseteq Served
        BY <1>1 DEF JoinsKeep
      <4> QED BY <1>7, <3>1, <4>1
    <3>3. CASE ReadHead(j)
      <4>1. join'[j].pc = "head"
        BY <3>3, JoinGoesOn DEF NumberInv
      <4> QED BY <3>2, <4>1
    <3>4. CASE ReadSnapshot(j)
      <4>1. join'[j].pc = "snapshot" /\ join'[j].snap = snapshot
        BY <3>4, JoinGoesOn DEF NumberInv
      <4> QED BY <3>2, <4>1 DEF Served
    <3>5. CASE ReadRest(j)
      <4>1. /\ join'[j].pc = "welcomed" /\ join'[j].before = join[j].before
            /\ join'[j].cut = join[j].cut
            /\ join'[j].got = join[j].snap.folded \cup Since(join[j].snap.version)
        BY <3>5, JoinGoesOn DEF NumberInv
      <4>2. join[j].pc = "snapshot"
        BY <3>5 DEF ReadRest
      <4> QED BY <1>1, <3>2, <4>1, <4>2 DEF JoinsKeep
    <3> QED BY <3>3, <3>4, <3>5 DEF JoinStep
  <2>3. \A i \in Joins : Keeps(i)
    BY <2>1, <2>2
  <2>4. \A after : Since(after)' = Since(after)
    BY <1>3 DEF Since
  <2> QED BY <1>2, <1>3, <2>3, <2>4 DEF JoinsKeep, Kept
<1> QED BY <1>4, <1>5, <1>6, <1>8, <1>9 DEF LogInv

(* A seed that comes first puts its text into an empty log; the next one   *)
(* finds it there.                                                         *)
LEMMA SeedKeepsLog ==
  ASSUME NumberInv, LogInv, Seed, Intact'
  PROVE  LogInv' /\ (Kept(Served)' = Kept(Served) \/ Grows)
<1> DEFINE e == [seq |-> SeedLength, op |-> SeedText]
<1>1. TypeOK /\ OwnKeys /\ Begun
  BY DEF NumberInv
<1>2. /\ Alone /\ SweepInOrder /\ FoldedBelow /\ TrimsFolded /\ OwnNumbers
      /\ Known /\ JoinsKeep /\ AckedStays
  BY DEF LogInv
<1>3. /\ \A w \in Writers : writer[w].pc = "new"
      /\ backend = "postgres" /\ table = {} /\ Rows = {} /\ Rows' = {}
      /\ snapshot.version <= SeedLength
      /\ \A f \in snapshot.folded : Seeded(f)
      /\ \A j \in Joins : \A f \in join[j].before : Seeded(f)
      /\ \A c \in Sweeps : sweep[c].pc = "idle"
  BY <1>2, SeedMeetsNothing
<1>4. /\ snapshot'.version = SeedLength /\ snapshot'.folded = {e}
      /\ UNCHANGED <<backend, table, list, writer, sweep, join>> /\ outrun' = outrun
  BY DEF Seed
<1>5. Served = snapshot.folded /\ Served' = {e} /\ \A f \in Served : f = e
  BY <1>3, <1>4 DEF Served, Since, Seeded
<1>6. SeedText \notin outrun
  BY <1>1, SharedStoreAssumption DEF TypeOK
<1>7. Kept(Served)' = {e} /\ Kept(Served) = Served
  BY <1>4, <1>5, <1>6 DEF Kept
<1>8. Kept(Served)' = Kept(Served) \/ Grows
  <2>1. CASE e \in Served
    BY <1>5, <1>7, <2>1
  <2>2. CASE e \notin Served
    <3>1. Kept(Served) = {}
      BY <1>5, <1>7, <2>2
    <3> QED BY <1>7, <3>1 DEF Grows
  <2> QED BY <2>1, <2>2
<1>9. Alone' /\ SweepInOrder' /\ FoldedBelow' /\ TrimsFolded'
  BY <1>3, <1>4 DEF Alone, SweepInOrder, FoldedBelow, NothingBelow, Pending, TrimsFolded, Kept
<1>10. OwnNumbers' /\ AckedStays'
  BY <1>3, <1>4 DEF OwnNumbers, AckedStays, Stored, Pending
<1>11. Known'
  <2>1. Seeded(e)' /\ SeedLength <= SeedLength
    BY SharedStoreAssumption DEF Seeded
  <2> QED BY <1>3, <1>4, <2>1 DEF Known, Seeded
<1>12. JoinsKeep'
  <2>1. \A j \in Joins : Kept(join[j].before)' = Kept(join[j].before)
    BY <1>4 DEF Kept
  <2>2. \A j \in Joins : Kept(join[j].before) \subseteq Served'
    BY <1>3, <1>5 DEF Kept, Seeded
  <2>3. \A after : Since(after)' = Since(after)
    BY <1>3 DEF Since
  <2> QED BY <1>2, <1>4, <2>1, <2>2, <2>3 DEF JoinsKeep
<1> QED BY <1>8, <1>9, <1>10, <1>11, <1>12 DEF LogInv

(* The log is empty at first. *)
LEMMA InitLog == Init => LogInv /\ Intact /\ Log!Init
<1> SUFFICES ASSUME Init PROVE LogInv /\ Intact /\ Log!Init
  OBVIOUS
<1>1. Rows = {} /\ Served = {} /\ snapshot.version = 0 /\ snapshot.folded = {} /\ outrun = {}
  BY DEF Init, Rows, ToSet, Served, Since, NoSnapshot
<1>2. /\ \A w \in Writers : writer[w].pc = "new"
      /\ \A c \in Sweeps : sweep[c].pc = "idle"
      /\ \A j \in Joins : join[j].before = {}
  BY DEF Init, Idle
<1>3. Alone /\ SweepInOrder /\ FoldedBelow /\ TrimsFolded
  BY <1>1, <1>2 DEF Alone, SweepInOrder, FoldedBelow, NothingBelow, Pending, TrimsFolded, Kept
<1>4. OwnNumbers /\ JoinsKeep /\ AckedStays
  BY <1>1, <1>2 DEF OwnNumbers, JoinsKeep, AckedStays, Stored, Pending, Kept
<1>5. Known
  BY <1>1, <1>2, SharedStoreAssumption DEF Known
<1>6. Intact = TRUE
  BY DEF Init, Intact
<1>7. Kept(Served) = {}
  BY <1>1 DEF Kept
<1> QED BY <1>3, <1>4, <1>5, <1>6, <1>7 DEF LogInv, Log!Init

(* A stored operation, or the seed, is an Append of the log. *)
LEMMA GrowsIsAppend == Grows /\ Intact /\ Intact' => Log!Append
<1> SUFFICES ASSUME Grows, Intact, Intact' PROVE Log!Append
  OBVIOUS
<1>1. Intact' = Intact
  BY DEF Intact
<1> QED BY <1>1 DEF Grows, Log!Append

(* While nothing is damaged, every step serves to a join what was served,  *)
(* or adds one operation to it.                                            *)
LEMMA StepKeepsLog ==
  ASSUME NumberInv, LogInv, Next, Intact'
  PROVE  LogInv' /\ (Kept(Served)' = Kept(Served) \/ Grows)
<1>1. ASSUME NEW w \in Writers, AppendStep(w)
      PROVE  LogInv' /\ (Kept(Served)' = Kept(Served) \/ Grows)
  BY <1>1, TakenIsNew, StoredIsServed, GivingUpKeepsLog DEF AppendStep
<1>2. ASSUME NEW c \in Sweeps, SweepStep(c) PROVE LogInv' /\ Kept(Served)' = Kept(Served)
  BY <1>2, SweepKeepsLog
<1>3. ASSUME NEW j \in Joins, JoinStep(j) PROVE LogInv' /\ Kept(Served)' = Kept(Served)
  BY <1>3, JoinKeepsLog
<1> QED BY <1>1, <1>2, <1>3, SeedKeepsLog DEF Next

(* Nothing moves in a stuttering step. *)
LEMMA StutterKeepsLog ==
  UNCHANGED vars => /\ Intact' = Intact /\ Kept(Served)' = Kept(Served)
                    /\ (LogInv => LogInv')
<1> SUFFICES ASSUME UNCHANGED vars
             PROVE  Intact' = Intact /\ Kept(Served)' = Kept(Served) /\ (LogInv => LogInv')
  OBVIOUS
<1>1. /\ UNCHANGED <<backend, table, list, snapshot, writer, sweep, join>>
      /\ UNCHANGED <<outrun, overlapped, reseeded>>
  BY DEF vars, store, history
<1>2. Rows' = Rows /\ Served' = Served /\ \A c \in Sweeps : Folded(c)' = Folded(c)
  BY <1>1 DEF Rows, Served, Since, Folded
<1>3. Kept(Served)' = Kept(Served) /\ Kept(Rows)' = Kept(Rows) /\ Intact' = Intact
  BY <1>1, <1>2 DEF Kept, Intact
<1>4. Alone /\ SweepInOrder /\ FoldedBelow /\ TrimsFolded
        => Alone' /\ SweepInOrder' /\ FoldedBelow' /\ TrimsFolded'
  BY <1>1, <1>2, <1>3
     DEF Alone, SweepInOrder, Since, Numbers, FoldedBelow, NothingBelow, Pending, TrimsFolded, FrontFolded
<1>5. OwnNumbers /\ Known /\ AckedStays => OwnNumbers' /\ Known' /\ AckedStays'
  BY <1>1, <1>2
     DEF OwnNumbers, AckedStays, IsServed, Stored, Pending, Numbers, Known, Appended, Seeded
<1>6. JoinsKeep => JoinsKeep'
  BY <1>1, <1>2 DEF JoinsKeep, Kept, Since
<1> QED BY <1>3, <1>4, <1>5, <1>6 DEF LogInv

(* The whole invariant of a store. *)
LEMMA LogInvariant == Spec => [](NumberInv /\ (Intact => LogInv))
<1>1. NumberInv /\ (Intact => LogInv) /\ [Next]_vars => (Intact => LogInv)'
  <2>1. NumberInv /\ (Intact => LogInv) /\ Next => (Intact => LogInv)'
    BY DamageStays, StepKeepsLog
  <2>2. (Intact => LogInv) /\ UNCHANGED vars => (Intact => LogInv)'
    BY StutterKeepsLog
  <2> QED BY <2>1, <2>2
<1> QED BY <1>1, InitLog, NumbersInvariant, PTL DEF Spec

(* The head of a store that is not damaged never falls: the since a client *)
(* was told stays comparable (store.ts:25-26).                             *)
THEOREM HeadDoesNotFall == Spec => HeadNeverFalls
<1>1. NumberInv /\ NumberInv' /\ (Intact => LogInv) /\ [Next]_vars => [Intact' => Head1' >= Head1]_vars
  <2>1. NumberInv /\ NumberInv' /\ (Intact => LogInv) /\ Next => (Intact' => Head1' >= Head1)
    BY DamageStays, HeadKept DEF LogInv
  <2> QED BY <2>1
<1> QED BY <1>1, LogInvariant, PTL DEF Spec, HeadNeverFalls

(* An acknowledged operation is served to every later join under the       *)
(* number its client was told, wherever appends lose races, sweeps stop    *)
(* half way or the list is trimmed (hub.ts:38-40, store.ts:23-28): unless  *)
(* a compaction has outrun it, or the store is damaged.                    *)
THEOREM AckedStaysServed == Spec => []AckedIsServed
<1>1. (Intact => LogInv) => AckedIsServed
  BY DEF LogInv, AckedStays, AckedIsServed
<1> QED BY <1>1, LogInvariant, PTL

(* A join is sent all that was served when it began and not outrun, unless *)
(* a compaction cut in between its reads (hub.ts:100-115).                 *)
THEOREM JoinSeesTheLog == Spec => []JoinSeesLog
<1>1. (Intact => LogInv) => JoinSeesLog
  BY DEF LogInv, JoinsKeep, JoinSeesLog
<1> QED BY <1>1, LogInvariant, PTL

(* Both stores, with their races, retries, compactions and crashes,        *)
(* implement one log that grows by one operation at a time and forgets     *)
(* none, until it is damaged (store.ts:8-32).                              *)
THEOREM StoreImplementsLog == Spec => ImplementsLog
<1>1. NumberInv /\ (Intact => LogInv) /\ [Next]_vars
        => [Log!Append \/ Log!Damage]_<<Kept(Served), Intact>>
  <2>1. ASSUME NumberInv, Intact => LogInv, Next
        PROVE  [Log!Append \/ Log!Damage]_<<Kept(Served), Intact>>
    <3>1. CASE Intact'
      <4>1. Intact /\ LogInv
        BY <2>1, <3>1, DamageStays
      <4>2. Intact' = Intact
        BY <3>1, <4>1 DEF Intact
      <4>3. Kept(Served)' = Kept(Served) \/ Grows
        BY <2>1, <3>1, <4>1, StepKeepsLog
      <4>4. Grows => Log!Append
        BY <3>1, <4>1, GrowsIsAppend
      <4> QED BY <4>2, <4>3, <4>4
    <3>2. CASE ~ Intact'
      <4>1. Intact' = FALSE
        BY <3>2 DEF Intact
      <4> QED BY <4>1 DEF Log!Damage
    <3> QED BY <3>1, <3>2
  <2>2. UNCHANGED vars => UNCHANGED <<Kept(Served), Intact>>
    BY StutterKeepsLog
  <2> QED BY <2>1, <2>2
<1> QED BY <1>1, InitLog, LogInvariant, PTL DEF Spec, ImplementsLog, Log!Spec

=============================================================================
