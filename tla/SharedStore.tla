---------------------------- MODULE SharedStore -----------------------------
(***************************************************************************)
(* The stores that server instances share: PostgresDocStore (apps/server/  *)
(* src/postgres.ts) and RedisDocStore (redis.ts), for one plain-text       *)
(* document, with the sweep that compacts (server.ts) and the reads of a   *)
(* first join (hub.ts).  backend says which of the two index.ts opened.    *)
(* Everything the code sends to the database is a step of its own, so the  *)
(* handlers of all instances interleave; under READ COMMITTED the INSERT   *)
(* of an append reads its number in one step and meets the primary key in  *)
(* the next.  A snapshot is the set of stored operations folded into it.   *)
(*                                                                         *)
(* Writers are calls of append (each with an operation of its own), Joins  *)
(* the joins, Sweeps the sweeps that can be under way together: one per    *)
(* instance, or more when a sweep outlasts its interval.                   *)
(* Bounds: MaxSweeps compactions are started; MaxAttempts (6 in the code). *)
(* SeedText is the demo text of seed.ts, stored at once as a snapshot of   *)
(* SeedLength operations.                                                  *)
(*                                                                         *)
(* Three things make these stores forget, and history variables say when   *)
(* they happened: a compaction reads past the number of an append that is  *)
(* half done, two sweeps are under way together, the seed is run again.    *)
(***************************************************************************)
EXTENDS Naturals, SequencesExt, FiniteSetsExt

CONSTANTS Backends, Writers, Joins, Sweeps, MaxSweeps, MaxAttempts, MinOps, SeedText, SeedLength

ASSUME SharedStoreAssumption ==
  /\ Backends \subseteq {"postgres", "redis"}
  /\ MaxSweeps \in Nat /\ MaxAttempts \in Nat \ {0} /\ MinOps \in Nat \ {0}
  /\ SeedText \notin Writers /\ SeedLength \in Nat \ {0}

VARIABLES
  backend,    \* never changes
  table,      \* Postgres: the rows of document_ops, [seq, op]
  list,       \* Redis: the key ops, [seq, op] in order of arrival
  counter,    \* Redis: the key seq
  snapshot,   \* document_snapshots, or the key snap: [version, folded]
  writer,     \* [pc, seq, tries] of each append
  sweep,      \* [pc, prev, rows, last] of each compaction
  join,       \* [pc, head, snap, got, before, cut] of each join
  started,    \* compactions started
  outrun,     \* history: the appends whose number a compaction read past,
  overlapped, \*   whether two sweeps were under way together,
  reseeded    \*   whether the seed was run on a document in use

store == <<table, list, counter, snapshot>>
history == <<outrun, overlapped, reseeded>>
vars == <<backend, store, writer, sweep, join, started, history>>

NoSnapshot == [version |-> 0, folded |-> {}]
Idle == [pc |-> "idle", prev |-> NoSnapshot, rows |-> {}, last |-> 0]

Init ==
  /\ backend \in Backends
  /\ table = {} /\ list = <<>> /\ counter = 0
  /\ snapshot = NoSnapshot
  /\ writer = [w \in Writers |-> [pc |-> "new", seq |-> 0, tries |-> 0]]
  /\ sweep = [c \in Sweeps |-> Idle]
  /\ join = [j \in Joins |->
       [pc |-> "new", head |-> 0, snap |-> NoSnapshot, got |-> {}, before |-> {}, cut |-> FALSE]]
  /\ started = 0
  /\ outrun = {} /\ overlapped = FALSE /\ reseeded = FALSE

-----------------------------------------------------------------------------
(* Reads *)

Rows == table \cup ToSet(list)

(* A slip: the operation right after the snapshot is skipped. *)
SinceSkipsOne(after) == {e \in Rows : e.seq > after + 1}

Since(after) == {e \in Rows : e.seq > after}

Numbers(rows) == {e.seq : e \in rows}

(* A slip: the head is read from the operations alone. *)
HeadOfTable == IF backend = "redis" THEN counter ELSE Max({0} \cup Numbers(table))

Head1 ==
  IF backend = "redis" THEN counter ELSE Max({snapshot.version} \cup Numbers(table))

(* The number of the last operation of Since(after): rows come in order of *)
(* their numbers, a list in order of arrival.                              *)
LastSeq(after) ==
  IF backend = "redis"
  THEN list[Max({i \in DOMAIN list : list[i].seq > after})].seq
  ELSE Max(Numbers(Since(after)))

-----------------------------------------------------------------------------
(* append *)

Pending(w) == writer[w].pc = "numbered"

(* Postgres: the statement's snapshot gives head + 1; Redis: INCR. *)
TakeNumber(w) ==
  /\ writer[w].pc = "new"
  /\ writer' = [writer EXCEPT ![w].pc = "numbered", ![w].seq = Head1 + 1]
  /\ counter' = IF backend = "redis" THEN counter + 1 ELSE counter
  /\ UNCHANGED <<backend, table, list, snapshot, sweep, join, started, history>>

(* The row goes in unless its number is taken; or RPUSH. *)
Store(w) ==
  /\ Pending(w)
  /\ LET e == [seq |-> writer[w].seq, op |-> w] IN
     \/ /\ backend = "postgres" /\ e.seq \notin Numbers(table)
        /\ table' = table \cup {e} /\ UNCHANGED list
     \/ /\ backend = "redis"
        /\ list' = Append(list, e) /\ UNCHANGED table
  /\ writer' = [writer EXCEPT ![w].pc = "stored"]
  /\ UNCHANGED <<backend, counter, snapshot, sweep, join, started, history>>

(* A slip: one attempt too many. *)
LoseRaceOnceMore(w) ==
  /\ Pending(w) /\ backend = "postgres" /\ writer[w].seq \in Numbers(table)
  /\ writer' = [writer EXCEPT ![w].tries = @ + 1,
                  ![w].pc = IF writer[w].tries = MaxAttempts THEN "failed" ELSE "new"]
  /\ UNCHANGED <<backend, store, sweep, join, started, history>>

(* Unique violation: try again, or answer with an error. *)
LoseRace(w) ==
  /\ Pending(w) /\ backend = "postgres" /\ writer[w].seq \in Numbers(table)
  /\ writer' = [writer EXCEPT ![w].tries = @ + 1,
                  ![w].pc = IF writer[w].tries + 1 = MaxAttempts THEN "failed" ELSE "new"]
  /\ outrun' = outrun \ {w}
  /\ UNCHANGED <<backend, store, sweep, join, started, overlapped, reseeded>>

(* The instance dies between the two steps, or the second one fails. *)
AppendDies(w) ==
  /\ Pending(w)
  /\ writer' = [writer EXCEPT ![w].pc = "failed"]
  /\ UNCHANGED <<backend, store, sweep, join, started, history>>

-----------------------------------------------------------------------------
(* The sweep *)

(* Past the threshold, compact loads the snapshot ... *)
StartSweep(c) ==
  /\ sweep[c].pc = "idle" /\ started < MaxSweeps
  /\ Head1 >= snapshot.version + MinOps
  /\ sweep' = [sweep EXCEPT ![c] = [pc |-> "loaded", prev |-> snapshot, rows |-> {}, last |-> 0]]
  /\ started' = started + 1
  /\ overlapped' = (overlapped \/ \E d \in Sweeps : sweep[d].pc # "idle")
  /\ UNCHANGED <<backend, store, writer, join, outrun, reseeded>>

(* The appends that will put their operation where it is not looked for. *)
HalfDone(last) == {w \in Writers : Pending(w) /\ writer[w].seq <= last}

(* ... reads what follows it (nothing: there is nothing to fold) ... *)
ReadLog(c) ==
  /\ sweep[c].pc = "loaded"
  /\ LET base == sweep[c].prev.version
         rows == Since(base)
     IN  /\ sweep' = [sweep EXCEPT ![c] =
           IF rows = {} THEN Idle
           ELSE [pc |-> "folded", prev |-> sweep[c].prev, rows |-> rows, last |-> LastSeq(base)]]
         /\ outrun' = outrun \cup IF rows = {} THEN {} ELSE HalfDone(LastSeq(base))
  /\ UNCHANGED <<backend, store, writer, join, started, overlapped, reseeded>>

(* A slip: what the previous snapshot held is not folded again. *)
FoldedAnew(c) == [version |-> sweep[c].last, folded |-> sweep[c].rows]

Folded(c) ==
  [version |-> sweep[c].last, folded |-> sweep[c].prev.folded \cup sweep[c].rows]

(* A join that has read another snapshot will miss the rows that go. *)
CutJoins(snap) ==
  join' = [j \in Joins |->
    [join[j] EXCEPT !.cut = @ \/ (join[j].pc = "snapshot" /\ join[j].snap # snap)]]

(* ... and in Postgres writes the snapshot and deletes the rows at once, *)
Replace(c) ==
  /\ sweep[c].pc = "folded" /\ backend = "postgres"
  /\ snapshot' = Folded(c)
  /\ table' = {e \in table : e.seq > sweep[c].last}
  /\ sweep' = [sweep EXCEPT ![c] = Idle]
  /\ CutJoins(Folded(c))
  /\ UNCHANGED <<backend, list, counter, writer, started, history>>

(* in Redis first sets the snapshot, *)
SaveSnapshot(c) ==
  /\ sweep[c].pc = "folded" /\ backend = "redis"
  /\ snapshot' = Folded(c)
  /\ sweep' = [sweep EXCEPT ![c].pc = "saved"]
  /\ UNCHANGED <<backend, table, list, counter, writer, join, started, history>>

(* A slip: the list is emptied. *)
TrimAll(c) ==
  /\ sweep[c].pc = "saved"
  /\ list' = <<>>
  /\ sweep' = [sweep EXCEPT ![c] = Idle]
  /\ CutJoins(snapshot)
  /\ UNCHANGED <<backend, table, counter, snapshot, writer, started, history>>

(* then drops as many entries from the front as were folded. *)
Trim(c) ==
  /\ sweep[c].pc = "saved"
  /\ list' = SubSeq(list, Cardinality(sweep[c].rows) + 1, Len(list))
  /\ sweep' = [sweep EXCEPT ![c] = Idle]
  /\ CutJoins(snapshot)
  /\ UNCHANGED <<backend, table, counter, snapshot, writer, started, history>>

(* The instance dies, or a command fails: the next sweep starts over. *)
SweepDies(c) ==
  /\ sweep[c].pc # "idle"
  /\ sweep' = [sweep EXCEPT ![c] = Idle]
  /\ UNCHANGED <<backend, store, writer, join, started, history>>

-----------------------------------------------------------------------------
(* What a first join is sent when nothing happens between its reads. *)
Served == snapshot.folded \cup Since(snapshot.version)

ReadHead(j) ==
  /\ join[j].pc = "new"
  /\ join' = [join EXCEPT ![j].pc = "head", ![j].head = Head1, ![j].before = Served]
  /\ UNCHANGED <<backend, store, writer, sweep, started, history>>

ReadSnapshot(j) ==
  /\ join[j].pc = "head"
  /\ join' = [join EXCEPT ![j].pc = "snapshot", ![j].snap = snapshot]
  /\ UNCHANGED <<backend, store, writer, sweep, started, history>>

ReadRest(j) ==
  /\ join[j].pc = "snapshot"
  /\ join' = [join EXCEPT ![j].pc = "welcomed",
       ![j].got = join[j].snap.folded \cup Since(join[j].snap.version)]
  /\ UNCHANGED <<backend, store, writer, sweep, started, history>>

(* The seed writes a snapshot of its text, whatever there is. *)
Seed ==
  /\ backend = "postgres"
  /\ snapshot' = [version |-> SeedLength, folded |-> {[seq |-> SeedLength, op |-> SeedText]}]
  /\ reseeded' = (reseeded \/ \E w \in Writers : writer[w].pc # "new")
  /\ UNCHANGED <<backend, table, list, counter, writer, sweep, join, started, outrun, overlapped>>

AppendStep(w) == TakeNumber(w) \/ Store(w) \/ LoseRace(w) \/ AppendDies(w)
SweepStep(c) ==
  StartSweep(c) \/ ReadLog(c) \/ Replace(c) \/ SaveSnapshot(c) \/ Trim(c) \/ SweepDies(c)
JoinStep(j) == ReadHead(j) \/ ReadSnapshot(j) \/ ReadRest(j)

Next ==
  \/ \E w \in Writers : AppendStep(w)
  \/ \E c \in Sweeps : SweepStep(c)
  \/ \E j \in Joins : JoinStep(j)
  \/ Seed

Spec == Init /\ [][Next]_vars

-----------------------------------------------------------------------------
Entry == [seq : Nat \ {0}, op : Writers \cup {SeedText}]
Snap == [version : Nat, folded : SUBSET Entry]

TypeOK ==
  /\ backend \in Backends
  /\ table \subseteq Entry /\ list \in Seq(Entry)
  /\ counter \in Nat
  /\ snapshot \in Snap
  /\ writer \in [Writers -> [pc : {"new", "numbered", "stored", "failed"},
                             seq : Nat, tries : 0 .. MaxAttempts]]
  /\ sweep \in [Sweeps -> [pc : {"idle", "loaded", "folded", "saved"},
                           prev : Snap, rows : SUBSET Entry, last : Nat]]
  /\ join \in [Joins -> [pc : {"new", "head", "snapshot", "welcomed"}, head : Nat, snap : Snap,
                         got : SUBSET Entry, before : SUBSET Entry, cut : BOOLEAN]]
  /\ started \in 0 .. MaxSweeps
  /\ outrun \subseteq Writers /\ overlapped \in BOOLEAN /\ reseeded \in BOOLEAN
  /\ \A w \in Writers : writer[w].pc = "new" => writer[w].tries < MaxAttempts

(* The head is never behind an operation of the log: no client's since is  *)
(* beyond what it has to ask for (store.ts:25-26, postgres.ts:91-100).     *)
HeadCovers == \A e \in Served : e.seq <= Head1

Intact == ~ overlapped /\ ~ reseeded

(* The head never falls, so that a client's since stays comparable, while  *)
(* one sweep runs at a time and the seed comes first.                      *)
HeadNeverFalls == [][Intact' => Head1' >= Head1]_vars

Stored(w) == writer[w].pc = "stored"
IsServed(w) == [seq |-> writer[w].seq, op |-> w] \in Served

(* An operation whose append returned is served to every later join, under *)
(* the number the clients were told, whatever was compacted meanwhile and  *)
(* wherever a compaction died (hub.ts:38-40, store.ts:23-28): unless a     *)
(* compaction had read past its number before it was stored, sweeps were   *)
(* under way together, or the seed was run again.                          *)
AckedIsServed == Intact => \A w \in Writers \ outrun : Stored(w) => IsServed(w)

Kept(rows) == {e \in rows : e.op \notin outrun}

(* A join is sent all that was served when it began, although it reads the *)
(* snapshot and the rest in two statements (hub.ts:100-115), if no         *)
(* compaction removed rows in between that its snapshot does not hold.     *)
JoinSeesLog ==
  Intact => \A j \in Joins :
    join[j].pc = "welcomed" /\ ~ join[j].cut => Kept(join[j].before) \subseteq join[j].got

(* "Every op is persisted once and reaches every current and future room   *)
(* member" (hub.ts:38-40), without any of these exceptions.                *)
EveryOpReaches ==
  /\ \A w \in Writers : Stored(w) => IsServed(w)
  /\ \A j \in Joins : join[j].pc = "welcomed" => join[j].before \subseteq join[j].got

(* Compaction, its failures and the races of appends implement one log.    *)
Log == INSTANCE OpLog WITH log <- Kept(Served), intact <- Intact, Op <- Writers \cup {SeedText}
ImplementsLog == Log!Spec
=============================================================================
