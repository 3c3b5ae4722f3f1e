-------------- MODULE ClientsTyping -----------------------------------------
(***************************************************************************)
(* What every action of Clients and of the Hub it composes does, queue by  *)
(* queue, and the part of the inductive invariant that says what kind of   *)
(* thing is where: the types of the queues and of the clients' records     *)
(* (Typed), one number for each edit (Numbered), what a socket can be      *)
(* (Sockets), one replica to a socket (Names), and numbers that are the    *)
(* log's (Heads).                                                          *)
(*                                                                         *)
(* The lemmas ...Effect state an action's step as facts about sets - what  *)
(* is on its way up and down each socket, what its handlers have yet to    *)
(* do, what is between the instances - and keep the types. The proofs in   *)
(* ClientsProofs and ClientsSharing use those and no queue. The lemmas     *)
(* ...Step say of every action at once what can become of one kind of      *)
(* thing.                                                                  *)
(***************************************************************************)
EXTENDS Clients, BasicLemmas

-----------------------------------------------------------------------------
(* Types *)

Edits == 1 .. Cardinality(Client)
(* A replica is a client and how often its page was opened. *)
ReplicaId == Client \X Nat

JoinMsgs == [type : {"join"}, replica : ReplicaId, since : Nat]
UpMsgs == JoinMsgs \cup [type : {"op"}, op : SUBSET Edits] \cup {AwarenessMsg}

StoredMsgs == [type : {"stored"}, seq : Nat, op : SUBSET Edits]
PeerMsgs == [type : {"awareness", "leave"}, replica : ReplicaId]
DownMsgs ==
  [type : {"welcome"}, ops : SUBSET Edits, head : Nat] \cup StoredMsgs \cup PeerMsgs
    \cup [type : {"error"}, code : {"none", "forbidden-read", "forbidden-write"}]

JoinTasks == [pc : {"authorize join", "welcome"}, msg : JoinMsgs]
OpTasks == [pc : {"authorize op", "append"}, op : SUBSET Edits]
SpreadTasks == [pc : {"spread"}, seq : Nat, op : SUBSET Edits]
Tasks1 == JoinTasks \cup OpTasks \cup SpreadTasks

(* The types of the hub and of the sockets. *)
HubTyped ==
  /\ setting \in Settings
  /\ sock \in [Conn -> {"new", "open", "left", "closed"}]
  /\ up \in [Conn -> Seq(UpMsgs)] /\ down \in [Conn -> Seq(DownMsgs)]
  /\ bound \in [Conn -> {NoReplica} \cup ReplicaId] /\ room \subseteq Conn
  /\ tasks \in [Conn -> Seq(Tasks1)] /\ bus \in [Instance -> Seq(StoredMsgs \cup PeerMsgs)]
  /\ log \in Seq(SUBSET Edits)

(* The types of what clients hold, on the page and on disk. *)
LocalTyped ==
  /\ cur \in [Client -> 0 .. MaxConns] /\ mount \in [Client -> Nat]
  /\ doc \in [Client -> SUBSET Edits] /\ head \in [Client -> Nat]
  /\ outbox \in [Client -> SUBSET Edits]
  /\ disk \in [Client -> [doc : SUBSET Edits, head : Nat, outbox : SUBSET Edits]]
  /\ denied \subseteq Client /\ quit \subseteq Client
  /\ presence \in [Client -> SUBSET ReplicaId] /\ fresh \in [Client -> SUBSET ReplicaId]
  /\ issued \in [Client -> SUBSET Edits] /\ waived \subseteq Edits
  /\ breaks \in 0 .. MaxBreaks /\ awareness \in Nat

(* The types of the history of what sockets missed. *)
HarmTyped ==
  /\ missed \in [Client -> SUBSET Edits] /\ rebuffed \in [Client -> SUBSET Edits]
  /\ unjoined \subseteq Client /\ failures \in Nat

Typed == HubTyped /\ LocalTyped /\ HarmTyped

(* What is on its way up and down a socket, what its handlers have yet to  *)
(* do, and what instance i has yet to hear from the others.                *)
Ups(c) == ToSet(up[c])
Downs(c) == ToSet(down[c])
Tasks(c) == ToSet(tasks[c])
Bus(i) == ToSet(bus[i])

(* Edits are numbered from 1, and each is one author's only one, and       *)
(* no outbox holds another's.                                              *)
Numbered ==
  /\ \E n \in Nat : UNION {issued[p] : p \in Client} = 1 .. n
  /\ \A p \in Client : \A e, f \in issued[p] : e = f
  /\ \A p, q \in Client : p # q => issued[p] \cap issued[q] = {}
  /\ \A p \in Client : outbox[p] \cup disk[p].outbox \subseteq issued[p]

(* A client's present socket is its last and the only one that may be      *)
(* open, a new one is untouched, and at most one message is on its way     *)
(* down, to an open one.                                                   *)
Sockets ==
  /\ \A c \in Conn :
       /\ c[2] > cur[c[1]] => sock[c] = "new"
       /\ c[2] # cur[c[1]] => sock[c] # "open"
       /\ sock[c] = "new" =>
            up[c] = <<>> /\ tasks[c] = <<>> /\ bound[c] = NoReplica /\ c \notin room
       /\ sock[c] # "open" => down[c] = <<>>
       /\ Len(down[c]) <= 1
  /\ \A p \in quit : ~ Online(p)

(* The joins a socket has asked for that are not answered yet. *)
Joining == {"authorize join", "welcome"}
Asked(c) == {m \in Ups(c) : m.type = "join"} \cup {t.msg : t \in {s \in Tasks(c) : s.pc \in Joining}}
(* The replicas a socket is, or asks to be. *)
NamesOf(c) == {m.replica : m \in Asked(c)} \cup ({bound[c]} \ {NoReplica})

(* There is one for each socket: its client's, for an open one the present. *)
Names ==
  /\ \A c \in Conn : \A r \in NamesOf(c) :
       /\ r[1] = c[1]
       /\ sock[c] = "open" => r = ReplicaOf(c[1])
       /\ \A s \in NamesOf(c) : s = r
  /\ room \subseteq {c \in Conn : bound[c] # NoReplica}

(* x is an entry of the log under its number. *)
LogsOne(x) == x.seq \in 1 .. Len(log) /\ log[x.seq] = x.op

(* No number is above the head of the log, and each is its entry's. *)
Heads ==
  /\ \A p \in Client : head[p] <= Len(log) /\ disk[p].head <= Len(log)
  /\ \A c \in Conn :
       /\ \A m \in Asked(c) : m.since <= Len(log)
       /\ \A m \in Downs(c) : /\ m.type = "welcome" => m.head <= Len(log)
                              /\ m.type = "stored" => LogsOne(m)
       /\ \A t \in Tasks(c) : t.pc = "spread" => LogsOne(t)
  /\ \A i \in Instance : \A m \in Bus(i) : m.type = "stored" => LogsOne(m)
-----------------------------------------------------------------------------
(* Sockets and messages *)

(* A connection is a client and the number of its socket. *)
LEMMA ConnFacts ==
  /\ \A c \in Conn : c[1] \in Client /\ c[2] \in 1 .. MaxConns /\ c = <<c[1], c[2]>>
  /\ \A p \in Client : \A n \in 1 .. MaxConns :
       <<p, n>> \in Conn /\ <<p, n>>[1] = p /\ <<p, n>>[2] = n
  /\ MaxConns \in Nat
BY HubAssumption DEF Conn

(* A replica is not the mark of a socket that has not joined. *)
LEMMA ReplicaFacts ==
  /\ \A r \in ReplicaId : r # NoReplica /\ r[1] \in Client
  /\ Typed => \A p \in Client : ReplicaOf(p) \in ReplicaId /\ ReplicaOf(p)[1] = p
<1>1. \A p \in Client, n \in Nat : <<p, n>> # <<>> /\ <<p, n>>[1] = p
  <2> SUFFICES ASSUME NEW p \in Client, NEW n \in Nat PROVE <<p, n>> # <<>>
    OBVIOUS
  <2>1. Len(<<p, n>>) = 2 /\ Len(<<>>) = 0
    OBVIOUS
  <2> QED BY <2>1
<1> QED BY <1>1 DEF ReplicaId, NoReplica, Typed, HubTyped, LocalTyped, ReplicaOf

(* A client that is online has an open socket, its last. *)
LEMMA OnlineFacts ==
  ASSUME Typed, NEW p \in Client, Online(p)
  PROVE  Sock(p) \in Conn /\ Sock(p)[1] = p /\ Sock(p)[2] = cur[p] /\ sock[Sock(p)] = "open"
<1>1. cur[p] \in 1 .. MaxConns
  BY ConnFacts DEF Typed, HubTyped, LocalTyped, Online
<1> QED BY <1>1, ConnFacts DEF Online, Sock

(* A socket that is open is the present one of its client. *)
LEMMA OpenFacts ==
  ASSUME Typed, Sockets, NEW c \in Conn, sock[c] = "open"
  PROVE  Online(c[1]) /\ c = Sock(c[1]) /\ c[1] \in Client
<1>1. c[2] = cur[c[1]] /\ c[1] \in Client /\ c[2] \in 1 .. MaxConns /\ c = <<c[1], c[2]>>
  BY ConnFacts DEF Sockets
<1> QED BY <1>1, ConnFacts DEF Online, Sock

(* What is sent is a message. *)
LEMMA MessageFacts ==
  /\ \A r \in ReplicaId, n \in Nat :
       /\ JoinMsg(r, n) \in JoinMsgs /\ JoinMsg(r, n) \in UpMsgs
       /\ JoinMsg(r, n).type = "join" /\ JoinMsg(r, n).replica = r /\ JoinMsg(r, n).since = n
  /\ \A edits \in SUBSET Edits :
       OpMsg(edits) \in UpMsgs /\ OpMsg(edits).type = "op" /\ OpMsg(edits).op = edits
  /\ AwarenessMsg \in UpMsgs /\ AwarenessMsg.type = "awareness"
  /\ \A edits \in SUBSET Edits, n \in Nat :
       /\ WelcomeMsg(edits, n) \in DownMsgs /\ WelcomeMsg(edits, n).type = "welcome"
       /\ WelcomeMsg(edits, n).ops = edits /\ WelcomeMsg(edits, n).head = n
       /\ StoredMsg(n, edits) \in StoredMsgs /\ StoredMsg(n, edits) \in DownMsgs
       /\ StoredMsg(n, edits).type = "stored"
       /\ StoredMsg(n, edits).seq = n /\ StoredMsg(n, edits).op = edits
  /\ \A type \in {"awareness", "leave"}, r \in ReplicaId :
       /\ PeerMsg(type, r) \in PeerMsgs /\ PeerMsg(type, r) \in DownMsgs
       /\ PeerMsg(type, r).type = type /\ PeerMsg(type, r).replica = r
  /\ \A code \in {"none", "forbidden-read", "forbidden-write"} :
       /\ ErrorMsg(code) \in DownMsgs /\ ErrorMsg(code).type = "error"
       /\ ErrorMsg(code).code = code
<1>1. \A r \in ReplicaId, n \in Nat : JoinMsg(r, n) \in JoinMsgs
  BY DEF JoinMsg, JoinMsgs
<1>2. \A edits \in SUBSET Edits, n \in Nat : StoredMsg(n, edits) \in StoredMsgs
  BY DEF StoredMsg, StoredMsgs
<1>3. \A type \in {"awareness", "leave"}, r \in ReplicaId : PeerMsg(type, r) \in PeerMsgs
  BY DEF PeerMsg, PeerMsgs
<1>4. \A edits \in SUBSET Edits, n \in Nat : WelcomeMsg(edits, n) \in DownMsgs
  BY DEF WelcomeMsg, DownMsgs
<1>5. \A code \in {"none", "forbidden-read", "forbidden-write"} : ErrorMsg(code) \in DownMsgs
  BY DEF ErrorMsg, DownMsgs
<1>6. \A edits \in SUBSET Edits : OpMsg(edits) \in UpMsgs
  BY DEF OpMsg, UpMsgs
<1>7. StoredMsgs \subseteq DownMsgs /\ PeerMsgs \subseteq DownMsgs /\ JoinMsgs \subseteq UpMsgs
      /\ AwarenessMsg \in UpMsgs
  BY DEF DownMsgs, UpMsgs
<1> QED BY <1>1, <1>2, <1>3, <1>4, <1>5, <1>6, <1>7
        DEF JoinMsg, OpMsg, AwarenessMsg, WelcomeMsg, StoredMsg, PeerMsg, ErrorMsg

(* What a message of each type carries. *)
LEMMA FieldFacts ==
  /\ \A m \in UpMsgs :
       /\ m.type = "join" => m \in JoinMsgs /\ m.replica \in ReplicaId /\ m.since \in Nat
       /\ m.type = "op" => m.op \in SUBSET Edits
  /\ \A m \in DownMsgs :
       /\ m.type = "welcome" => m.ops \in SUBSET Edits /\ m.head \in Nat
       /\ m.type = "stored" => m \in StoredMsgs /\ m = StoredMsg(m.seq, m.op)
                              /\ m.seq \in Nat /\ m.op \in SUBSET Edits
       /\ m.type \in {"awareness", "leave"} =>
            m \in PeerMsgs /\ m.replica \in ReplicaId /\ m = PeerMsg(m.type, m.replica)
       /\ m.type = "error" => m = ErrorMsg(m.code)
                              /\ m.code \in {"none", "forbidden-read", "forbidden-write"}
       /\ m.type \in {"welcome", "stored", "awareness", "leave", "error"}
  /\ \A t \in Tasks1 :
       /\ t.pc \in {"authorize join", "welcome"} =>
            t \in JoinTasks /\ t.msg \in JoinMsgs /\ t.msg.type = "join"
              /\ t.msg.replica \in ReplicaId /\ t.msg.since \in Nat
       /\ t.pc \in {"authorize op", "append"} => t \in OpTasks /\ t.op \in SUBSET Edits
       /\ t.pc = "spread" => t \in SpreadTasks /\ t.seq \in Nat /\ t.op \in SUBSET Edits
<1>1. \A m \in UpMsgs :
       /\ m.type = "join" => m \in JoinMsgs /\ m.replica \in ReplicaId /\ m.since \in Nat
       /\ m.type = "op" => m.op \in SUBSET Edits
  BY DEF UpMsgs, JoinMsgs, AwarenessMsg
<1>2. \A m \in DownMsgs :
       /\ m.type = "welcome" => m.ops \in SUBSET Edits /\ m.head \in Nat
       /\ m.type = "stored" => m \in StoredMsgs /\ m = StoredMsg(m.seq, m.op)
                              /\ m.seq \in Nat /\ m.op \in SUBSET Edits
       /\ m.type \in {"awareness", "leave"} =>
            m \in PeerMsgs /\ m.replica \in ReplicaId /\ m = PeerMsg(m.type, m.replica)
       /\ m.type = "error" => m = ErrorMsg(m.code)
                              /\ m.code \in {"none", "forbidden-read", "forbidden-write"}
       /\ m.type \in {"welcome", "stored", "awareness", "leave", "error"}
  BY DEF DownMsgs, StoredMsgs, PeerMsgs, StoredMsg, PeerMsg, ErrorMsg
<1>3. \A t \in Tasks1 :
       /\ t.pc \in {"authorize join", "welcome"} =>
            t \in JoinTasks /\ t.msg \in JoinMsgs /\ t.msg.type = "join"
              /\ t.msg.replica \in ReplicaId /\ t.msg.since \in Nat
       /\ t.pc \in {"authorize op", "append"} => t \in OpTasks /\ t.op \in SUBSET Edits
       /\ t.pc = "spread" => t \in SpreadTasks /\ t.seq \in Nat /\ t.op \in SUBSET Edits
  BY DEF Tasks1, JoinTasks, OpTasks, SpreadTasks, JoinMsgs
<1> QED BY <1>1, <1>2, <1>3

-----------------------------------------------------------------------------
(* What the building blocks of the actions do to the queues *)

(* The server takes the first message off the wire. *)
LEMMA ReadsTakesOne ==
  ASSUME Typed, NEW c \in Conn, NEW type, Reads(c, type)
  PROVE  /\ sock[c] \in {"open", "left"}
         /\ Head(up[c]) \in UpMsgs /\ Head(up[c]) \in Ups(c) /\ Head(up[c]).type = type
         /\ up' \in [Conn -> Seq(UpMsgs)]
         /\ Ups(c) = {Head(up[c])} \cup Ups(c)'
         /\ \A d \in Conn \ {c} : up'[d] = up[d] /\ Ups(d)' = Ups(d)
         /\ UNCHANGED <<setting, sock>>
<1>1. up[c] \in Seq(UpMsgs) /\ up[c] # <<>>
  BY DEF Typed, HubTyped, LocalTyped, Reads
<1>2. up' = [up EXCEPT ![c] = Tail(up[c])]
  BY DEF Reads
<1>3. /\ Head(up[c]) \in UpMsgs /\ Head(up[c]) \in ToSet(up[c]) /\ Tail(up[c]) \in Seq(UpMsgs)
      /\ ToSet(up[c]) = {Head(up[c])} \cup ToSet(Tail(up[c]))
  BY <1>1, TailElements
<1>4. up' \in [Conn -> Seq(UpMsgs)] /\ up'[c] = Tail(up[c]) /\ \A d \in Conn \ {c} : up'[d] = up[d]
  BY <1>2, <1>3 DEF Typed, HubTyped, LocalTyped
<1> QED BY <1>3, <1>4 DEF Reads, Ups

(* send puts the message on its way to the open ones of the sockets, and   *)
(* to no other.                                                            *)
LEMMA SendReaches ==
  ASSUME Typed, NEW S, NEW msg \in DownMsgs, SendTo(S, msg)
  PROVE  /\ down' \in [Conn -> Seq(DownMsgs)]
         /\ \A c \in Conn : c \in S /\ sock[c] = "open" =>
              down'[c] = Append(down[c], msg) /\ Downs(c)' = Downs(c) \cup {msg}
                /\ Len(down'[c]) = Len(down[c]) + 1
         /\ \A c \in Conn : ~ (c \in S /\ sock[c] = "open") =>
              down'[c] = down[c] /\ Downs(c)' = Downs(c)
<1>1. \A c \in Conn : down[c] \in Seq(DownMsgs)
  BY DEF Typed, HubTyped, LocalTyped
<1>2. \A c \in Conn : /\ Append(down[c], msg) \in Seq(DownMsgs)
                      /\ ToSet(Append(down[c], msg)) = ToSet(down[c]) \cup {msg}
                      /\ Len(Append(down[c], msg)) = Len(down[c]) + 1
  BY <1>1, AppendElements
<1>3. down' = [c \in Conn |->
         IF c \in S /\ sock[c] = "open" THEN Append(down[c], msg) ELSE down[c]]
  BY DEF SendTo
<1> QED BY <1>1, <1>2, <1>3 DEF Downs

(* publish puts the message on its way to every other instance.            *)
LEMMA PublishReaches ==
  ASSUME Typed, NEW i, NEW msg \in StoredMsgs \cup PeerMsgs, Publish(i, msg)
  PROVE  /\ bus' \in [Instance -> Seq(StoredMsgs \cup PeerMsgs)]
         /\ \A j \in Instance : j # i =>
              bus'[j] = Append(bus[j], msg) /\ Bus(j)' = Bus(j) \cup {msg}
         /\ \A j \in Instance : j = i => bus'[j] = bus[j] /\ Bus(j)' = Bus(j)
<1>1. \A j \in Instance : bus[j] \in Seq(StoredMsgs \cup PeerMsgs)
  BY DEF Typed, HubTyped, LocalTyped
<1>2. \A j \in Instance : /\ Append(bus[j], msg) \in Seq(StoredMsgs \cup PeerMsgs)
                          /\ ToSet(Append(bus[j], msg)) = ToSet(bus[j]) \cup {msg}
  BY <1>1, AppendElements
<1>3. bus' = [j \in Instance |-> IF j = i THEN bus[j] ELSE Append(bus[j], msg)]
  BY DEF Publish
<1> QED BY <1>1, <1>2, <1>3 DEF Bus

(* A handler that waits is a task more of its socket. *)
LEMMA SuspendAdds ==
  ASSUME Typed, NEW c \in Conn, NEW task \in Tasks1, Suspend(c, task)
  PROVE  /\ tasks' \in [Conn -> Seq(Tasks1)]
         /\ Tasks(c)' = Tasks(c) \cup {task}
         /\ \A d \in Conn \ {c} : tasks'[d] = tasks[d] /\ Tasks(d)' = Tasks(d)
<1>1. tasks[c] \in Seq(Tasks1) /\ tasks' = [tasks EXCEPT ![c] = Append(tasks[c], task)]
  BY DEF Typed, HubTyped, LocalTyped, Suspend
<1>2. /\ Append(tasks[c], task) \in Seq(Tasks1)
      /\ ToSet(Append(tasks[c], task)) = ToSet(tasks[c]) \cup {task}
  BY <1>1, AppendElements
<1> QED BY <1>1, <1>2 DEF Tasks, Typed, HubTyped, LocalTyped

(* A handler that goes on takes the place of its task. *)
LEMMA ResumeReplaces ==
  ASSUME Typed, NEW c \in Conn, NEW i \in DOMAIN tasks[c], NEW task \in Tasks1,
         Resume(c, i, task)
  PROVE  /\ tasks' \in [Conn -> Seq(Tasks1)]
         /\ tasks[c][i] \in Tasks1 /\ tasks[c][i] \in Tasks(c) /\ task \in Tasks(c)'
         /\ Tasks(c)' \subseteq Tasks(c) \cup {task}
         /\ Tasks(c) \subseteq Tasks(c)' \cup {tasks[c][i]}
         /\ \A d \in Conn \ {c} : tasks'[d] = tasks[d] /\ Tasks(d)' = Tasks(d)
<1>1. tasks[c] \in Seq(Tasks1) /\ tasks' = [tasks EXCEPT ![c] = [tasks[c] EXCEPT ![i] = task]]
  BY DEF Typed, HubTyped, LocalTyped, Resume
<1> DEFINE t == [tasks[c] EXCEPT ![i] = task]
<1>2. /\ t \in Seq(Tasks1)
      /\ tasks[c][i] \in Tasks1 /\ tasks[c][i] \in ToSet(tasks[c]) /\ task \in ToSet(t)
      /\ ToSet(t) \subseteq ToSet(tasks[c]) \cup {task}
      /\ ToSet(tasks[c]) \subseteq ToSet(t) \cup {tasks[c][i]}
  BY <1>1, ReplaceElements
<1> HIDE DEF t
<1> QED BY <1>1, <1>2 DEF Tasks, Typed, HubTyped, LocalTyped, t

(* A handler that is done takes its task with it. *)
LEMMA FinishRemoves ==
  ASSUME Typed, NEW c \in Conn, NEW i \in DOMAIN tasks[c], Finish(c, i)
  PROVE  /\ tasks' \in [Conn -> Seq(Tasks1)]
         /\ tasks[c][i] \in Tasks1 /\ tasks[c][i] \in Tasks(c)
         /\ Tasks(c)' \subseteq Tasks(c)
         /\ Tasks(c) \subseteq Tasks(c)' \cup {tasks[c][i]}
         /\ \A d \in Conn \ {c} : tasks'[d] = tasks[d] /\ Tasks(d)' = Tasks(d)
<1>1. tasks[c] \in Seq(Tasks1) /\ tasks' = [tasks EXCEPT ![c] = RemoveAt(tasks[c], i)]
  BY DEF Typed, HubTyped, LocalTyped, Finish
<1>2. /\ RemoveAt(tasks[c], i) \in Seq(Tasks1)
      /\ tasks[c][i] \in Tasks1 /\ tasks[c][i] \in ToSet(tasks[c])
      /\ ToSet(RemoveAt(tasks[c], i)) \subseteq ToSet(tasks[c])
      /\ ToSet(tasks[c]) \subseteq ToSet(RemoveAt(tasks[c], i)) \cup {tasks[c][i]}
  BY <1>1, RemoveElements
<1> QED BY <1>1, <1>2 DEF Tasks, Typed, HubTyped, LocalTyped

(* msg, the first on the way to p, is read. *)
HeardBy(p, msg) ==
  \A d \in Conn :
    /\ d = Sock(p) => /\ msg \in Downs(d) /\ Downs(d) = {msg} \cup Downs(d)'
                      /\ Len(down'[d]) = Len(down[d]) - 1
                      /\ Len(down[d]) <= 1 => down'[d] = <<>> /\ Downs(d)' = {}
    /\ d # Sock(p) => down'[d] = down[d] /\ Downs(d)' = Downs(d)

(* A client hears the first message that reached its socket. *)
LEMMA HearsTakesOne ==
  ASSUME Typed, NEW p \in Client, NEW type, Hears(p, type)
  PROVE  /\ Online(p) /\ Sock(p) \in Conn
         /\ Head(down[Sock(p)]) \in DownMsgs /\ Head(down[Sock(p)]).type = type
         /\ down' \in [Conn -> Seq(DownMsgs)]
         /\ HeardBy(p, Head(down[Sock(p)]))
<1> DEFINE c == Sock(p)
           msg == Head(down[c])
<1>1. Online(p) /\ c \in Conn /\ down[c] \in Seq(DownMsgs) /\ down[c] # <<>> /\ msg.type = type
  BY OnlineFacts DEF Typed, HubTyped, Hears
<1>2. down' = [down EXCEPT ![c] = Tail(down[c])]
  BY DEF Hears
<1> HIDE DEF c
<1>3. /\ msg \in DownMsgs /\ msg \in ToSet(down[c]) /\ Tail(down[c]) \in Seq(DownMsgs)
      /\ ToSet(down[c]) = {msg} \cup ToSet(Tail(down[c]))
      /\ Len(Tail(down[c])) = Len(down[c]) - 1 /\ Len(down[c]) \in Nat
  BY <1>1, TailElements, EmptySeq
<1>4. Len(down[c]) <= 1 => Tail(down[c]) = <<>> /\ ToSet(Tail(down[c])) = {}
  <2>1. Len(down[c]) <= 1 => Tail(down[c]) = <<>>
    BY <1>3, EmptySeq
  <2> QED BY <2>1 DEF ToSet
<1> HIDE DEF msg
<1>5. down' \in [Conn -> Seq(DownMsgs)] /\ down'[c] = Tail(down[c])
      /\ \A d \in Conn \ {c} : down'[d] = down[d]
  BY <1>1, <1>2, <1>3 DEF Typed, HubTyped
<1>6. \A d \in Conn :
        /\ d = c => /\ msg \in Downs(d) /\ Downs(d) = {msg} \cup Downs(d)'
                    /\ Len(down'[d]) = Len(down[d]) - 1
                    /\ Len(down[d]) <= 1 => down'[d] = <<>> /\ Downs(d)' = {}
        /\ d # c => down'[d] = down[d] /\ Downs(d)' = Downs(d)
  BY <1>3, <1>4, <1>5 DEF Downs
<1> QED BY <1>1, <1>3, <1>5, <1>6 DEF HeardBy, c, msg

(* Messages, written to the present socket of an online client. *)
SentUp(p, msgs) ==
  \A d \in Conn :
    /\ Online(p) /\ d = Sock(p) =>
         /\ Ups(d)' = Ups(d) \cup msgs
         /\ up[d] # <<>> => up'[d] # <<>> /\ Head(up'[d]) = Head(up[d])
    /\ ~ (Online(p) /\ d = Sock(p)) => up'[d] = up[d] /\ Ups(d)' = Ups(d)

(* What a client sends is put behind what is on its way, if it is online.  *)
LEMMA SentAdds ==
  ASSUME Typed, NEW p \in Client, NEW msgs \in Seq(UpMsgs), up' = Sent(p, msgs)
  PROVE  up' \in [Conn -> Seq(UpMsgs)] /\ SentUp(p, ToSet(msgs))
<1>1. CASE ~ Online(p)
  BY <1>1 DEF Sent, SentUp, Typed, HubTyped, Ups
<1>2. CASE Online(p)
  <2> DEFINE c == Sock(p)
  <2>1. c \in Conn /\ up[c] \in Seq(UpMsgs) /\ up' = [up EXCEPT ![c] = up[c] \o msgs]
    BY <1>2, OnlineFacts DEF Sent, Typed, HubTyped
  <2> HIDE DEF c
  <2>2. /\ up[c] \o msgs \in Seq(UpMsgs) /\ ToSet(up[c] \o msgs) = ToSet(up[c]) \cup ToSet(msgs)
        /\ up[c] # <<>> => up[c] \o msgs # <<>> /\ Head(up[c] \o msgs) = Head(up[c])
    BY <2>1, ConcatElements
  <2>3. up'[c] = up[c] \o msgs /\ \A d \in Conn \ {c} : up'[d] = up[d]
    BY <2>1 DEF Typed, HubTyped
  <2>4. \A d \in Conn :
          /\ d = c => /\ Ups(d)' = Ups(d) \cup ToSet(msgs)
                      /\ up[d] # <<>> => up'[d] # <<>> /\ Head(up'[d]) = Head(up[d])
          /\ d # c => up'[d] = up[d] /\ Ups(d)' = Ups(d)
    BY <2>2, <2>3 DEF Ups
  <2>5. up' \in [Conn -> Seq(UpMsgs)]
    BY <2>1, <2>2 DEF Typed, HubTyped
  <2> QED BY <1>2, <2>4, <2>5 DEF SentUp, c
<1> QED BY <1>1, <1>2

(* p has left its socket. *)
Left(p) ==
  \A d \in Conn :
    /\ d = Sock(p) => /\ sock'[d] = "left" /\ down'[d] = <<>> /\ Downs(d)' = {}
                      /\ Ups(d)' \subseteq Ups(d)
    /\ d # Sock(p) => /\ sock'[d] = sock[d] /\ up'[d] = up[d] /\ down'[d] = down[d]
                      /\ Ups(d)' = Ups(d) /\ Downs(d)' = Downs(d)

(* A socket that is left keeps the first of what was on its way up, and    *)
(* nothing on its way down.                                                *)
LEMMA LeaveDrops ==
  ASSUME Typed, NEW p \in Client, Online(p), NEW k \in 0 .. Len(up[Sock(p)]), Leave(p, k)
  PROVE  /\ Sock(p) \in Conn
         /\ up' \in [Conn -> Seq(UpMsgs)] /\ down' \in [Conn -> Seq(DownMsgs)]
         /\ sock' \in [Conn -> {"new", "open", "left", "closed"}]
         /\ Left(p)
<1> DEFINE c == Sock(p)
<1>1. c \in Conn /\ up[c] \in Seq(UpMsgs) /\ k \in 0 .. Len(up[c])
  BY OnlineFacts DEF Typed, HubTyped
<1>2. /\ up' = [up EXCEPT ![c] = SubSeq(up[c], 1, k)]
      /\ sock' = [sock EXCEPT ![c] = "left"] /\ down' = [down EXCEPT ![c] = <<>>]
  BY DEF Leave
<1> HIDE DEF c
<1>3. SubSeq(up[c], 1, k) \in Seq(UpMsgs) /\ ToSet(SubSeq(up[c], 1, k)) \subseteq ToSet(up[c])
  BY <1>1, PrefixElements
<1>4. /\ up' \in [Conn -> Seq(UpMsgs)] /\ down' \in [Conn -> Seq(DownMsgs)]
      /\ sock' \in [Conn -> {"new", "open", "left", "closed"}]
      /\ sock'[c] = "left" /\ down'[c] = <<>> /\ up'[c] = SubSeq(up[c], 1, k)
      /\ \A d \in Conn \ {c} : sock'[d] = sock[d] /\ up'[d] = up[d] /\ down'[d] = down[d]
  BY <1>1, <1>2, <1>3 DEF Typed, HubTyped
<1>5. ToSet(down'[c]) = {}
  BY <1>4 DEF ToSet
<1>6. \A d \in Conn :
        /\ d = c => /\ sock'[d] = "left" /\ down'[d] = <<>> /\ Downs(d)' = {}
                    /\ Ups(d)' \subseteq Ups(d)
        /\ d # c => /\ sock'[d] = sock[d] /\ up'[d] = up[d] /\ down'[d] = down[d]
                    /\ Ups(d)' = Ups(d) /\ Downs(d)' = Downs(d)
  BY <1>3, <1>4, <1>5 DEF Ups, Downs
<1> QED BY <1>1, <1>4, <1>6 DEF Left, c

(* One message is a queue. *)
LEMMA OneMessage ==
  ASSUME NEW S, NEW m \in S
  PROVE  /\ <<m>> \in Seq(S) /\ ToSet(<<m>>) = {m} /\ <<m>> # <<>> /\ Head(<<m>>) = m
<1>1. <<m>> \in Seq(S) /\ DOMAIN <<m>> = {1} /\ <<m>>[1] = m /\ Len(<<m>>) = 1 /\ Head(<<m>>) = m
  OBVIOUS
<1> QED BY <1>1 DEF ToSet

-----------------------------------------------------------------------------
(* Type correctness, with the numbering of the edits that it needs *)

(* What the log holds is edits. *)
LEMMA LogFacts ==
  ASSUME Typed
  PROVE  /\ Len(log) \in Nat
         /\ \A k \in 1 .. Len(log) : log[k] \in SUBSET Edits
         /\ \A n \in Nat : OpsSince(n) \in SUBSET Edits
         /\ \A n \in Nat : \A e : e \in OpsSince(n) <=> \E k \in 1 .. Len(log) : n < k /\ e \in log[k]
<1>1. Len(log) \in Nat /\ \A k \in 1 .. Len(log) : log[k] \in SUBSET Edits
  BY DEF Typed, HubTyped, LocalTyped
<1>2. \A n \in Nat : (n + 1) .. Len(log) = {k \in 1 .. Len(log) : n < k}
  BY <1>1
<1>3. \A n \in Nat : \A e : e \in OpsSince(n) <=> \E k \in 1 .. Len(log) : n < k /\ e \in log[k]
  BY <1>2 DEF OpsSince
<1>4. \A n \in Nat : OpsSince(n) \in SUBSET Edits
  BY <1>1, <1>3
<1> QED BY <1>1, <1>3, <1>4

(* The number of a new edit: one more than the edits there are, of which   *)
(* each is another author's only one.                                      *)
LEMMA NewEdit ==
  ASSUME Typed, Numbered, NEW p \in Client, issued[p] = {}
  PROVE  /\ Cardinality(UNION {issued[q] : q \in Client}) + 1 \in Edits
         /\ \A q \in Client : Cardinality(UNION {issued[r] : r \in Client}) + 1 \notin issued[q]
         /\ UNION {issued[q] : q \in Client} = 1 .. Cardinality(UNION {issued[q] : q \in Client})
<1> DEFINE U == UNION {issued[q] : q \in Client}
           others == Client \ {p}
<1>1. PICK n \in Nat : U = 1 .. n
  BY DEF Numbered
<1>2. Cardinality(U) = n /\ IsFiniteSet(1 .. n) /\ Cardinality(1 .. n) = n
  <2>1. IsFiniteSet(1 .. n) /\ Cardinality(1 .. n) = IF 1 > n THEN 0 ELSE n - 1 + 1
    BY FS_Interval
  <2> HIDE DEF U
  <2> QED BY <1>1, <2>1
<1>3. IsFiniteSet(Client) /\ Cardinality(Client) \in Nat
  BY ClientsAssumption, FS_CardinalityType
<1>4. IsFiniteSet(others) /\ Cardinality(others) = Cardinality(Client) - 1
  BY <1>3, FS_RemoveElement
<1>5. n <= Cardinality(others)
  <2> DEFINE author == [e \in 1 .. n |-> CHOOSE q \in Client : e \in issued[q]]
  <2>1. \A e \in 1 .. n : author[e] \in Client /\ e \in issued[author[e]]
    BY <1>1
  <2>2. author \in [1 .. n -> others]
    BY <2>1
  <2>3. \A e, f \in 1 .. n : author[e] = author[f] => e = f
    BY <2>1 DEF Numbered
  <2> HIDE DEF author, others
  <2>4. ~ (Cardinality(others) < Cardinality(1 .. n))
    BY <2>2, <2>3, <1>2, <1>4, FS_PigeonHole
  <2> QED BY <2>4, <1>2, <1>3, <1>4
<1>6. n + 1 \in Edits
  BY <1>3, <1>4, <1>5 DEF Edits
<1>7. \A q \in Client : n + 1 \notin issued[q]
  <2>1. n + 1 \notin U
    BY <1>1
  <2> QED BY <2>1
<1> QED BY <1>1, <1>2, <1>6, <1>7

(* The edits of a set, each in a message of its own. *)
LEMMA InOrderFacts ==
  ASSUME NEW S \in SUBSET Edits, \A e, f \in S : e = f
  PROVE  /\ [i \in DOMAIN InOrder(S) |-> OpMsg({InOrder(S)[i]})] \in Seq(UpMsgs)
         /\ ToSet([i \in DOMAIN InOrder(S) |-> OpMsg({InOrder(S)[i]})]) = {OpMsg({e}) : e \in S}
<1> DEFINE box == InOrder(S)
           msgs == [i \in DOMAIN box |-> OpMsg({box[i]})]
<1>1. CASE S = {}
  <2>1. Cardinality(S) = 0
    BY <1>1, FS_EmptySet
  <2>2. \A s \in [1 .. 0 -> S] : s = <<>>
    BY SeqDef, EmptySeq
  <2>3. box = <<>>
    <3> DEFINE L(s) == \A i, j \in DOMAIN s : i < j => s[i] < s[j]
    <3>1. <<>> \in [1 .. 0 -> S] /\ L(<<>>)
      OBVIOUS
    <3>2. box = CHOOSE s \in [1 .. 0 -> S] : L(s)
      BY <2>1 DEF InOrder
    <3> HIDE DEF box, L
    <3>3. box \in [1 .. 0 -> S]
      BY <3>1, <3>2
    <3> QED BY <3>3, <2>2
  <2> HIDE DEF box
  <2>4. msgs \in Seq(UpMsgs) /\ DOMAIN msgs = {}
    <3>1. DOMAIN box = {}
      BY <2>3
    <3>2. msgs \in [1 .. 0 -> UpMsgs]
      BY <3>1
    <3> HIDE DEF msgs
    <3> QED BY <3>2, SeqDef
  <2> HIDE DEF msgs
  <2>5. ToSet(msgs) = {}
    BY <2>4 DEF ToSet
  <2> QED BY <2>4, <2>5, <1>1 DEF box, msgs
<1>2. ASSUME NEW e \in S PROVE msgs \in Seq(UpMsgs) /\ ToSet(msgs) = {OpMsg({f}) : f \in S}
  <2>1. S = {e} /\ Cardinality(S) = 1
    <3>1. S = {e}
      OBVIOUS
    <3> QED BY <3>1, FS_Singleton
  <2>2. DOMAIN box = {1} /\ box[1] = e
    <3> DEFINE L(s) == \A i, j \in DOMAIN s : i < j => s[i] < s[j]
    <3>1. [i \in 1 .. 1 |-> e] \in [1 .. 1 -> S] /\ L([i \in 1 .. 1 |-> e])
      OBVIOUS
    <3>2. box = CHOOSE s \in [1 .. 1 -> S] : L(s)
      BY <2>1 DEF InOrder
    <3> HIDE DEF box, L
    <3>3. box \in [1 .. 1 -> S]
      BY <3>1, <3>2
    <3> QED BY <3>3, <2>1
  <2> HIDE DEF box
  <2>3. OpMsg({e}) \in UpMsgs
    BY MessageFacts
  <2>4. DOMAIN msgs = {1} /\ msgs[1] = OpMsg({e})
    BY <2>2
  <2>5. msgs \in [1 .. 1 -> UpMsgs]
    BY <2>2, <2>3
  <2> HIDE DEF msgs
  <2>6. msgs \in Seq(UpMsgs)
    <3>1. [1 .. 1 -> UpMsgs] \subseteq Seq(UpMsgs)
      BY SeqDef
    <3> QED BY <2>5, <3>1
  <2> QED BY <2>1, <2>4, <2>6 DEF ToSet
<1> QED BY <1>1, <1>2

-----------------------------------------------------------------------------
(* What each action does, queue by queue, and that the types are kept *)

(* A kind of queue that a step leaves alone. *)
UpsKept == \A d \in Conn : up'[d] = up[d] /\ Ups(d)' = Ups(d)
DownsKept == \A d \in Conn : down'[d] = down[d] /\ Downs(d)' = Downs(d)
TasksKept == \A d \in Conn : tasks'[d] = tasks[d] /\ Tasks(d)' = Tasks(d)
BusKept == \A j \in Instance : bus'[j] = bus[j] /\ Bus(j)' = Bus(j)

(* msg, read off the wire of c. *)
TakenOff(c, msg) ==
  /\ sock[c] \in {"open", "left"} /\ msg \in Ups(c) /\ up[c] # <<>> /\ msg = Head(up[c])
  /\ Ups(c) = {msg} \cup Ups(c)' /\ up'[c] = Tail(up[c])
  /\ \A d \in Conn \ {c} : up'[d] = up[d] /\ Ups(d)' = Ups(d)
  /\ UNCHANGED <<setting, sock>>

(* msg, sent to the open ones of a set of sockets. *)
SentDown(S, msg) ==
  /\ \A c \in Conn : c \in S /\ sock[c] = "open" =>
       down'[c] = Append(down[c], msg) /\ Downs(c)' = Downs(c) \cup {msg}
         /\ Len(down'[c]) = Len(down[c]) + 1
  /\ \A c \in Conn : ~ (c \in S /\ sock[c] = "open") => down'[c] = down[c] /\ Downs(c)' = Downs(c)

(* msg, published by instance i: every other instance is to hear it. *)
Published(i, msg) ==
  /\ \A j \in Instance : j # i => bus'[j] = Append(bus[j], msg) /\ Bus(j)' = Bus(j) \cup {msg}
  /\ \A j \in Instance : j = i => bus'[j] = bus[j] /\ Bus(j)' = Bus(j)

(* A handler of c suspended on task. *)
Suspended(c, task) ==
  /\ Tasks(c)' = Tasks(c) \cup {task}
  /\ \A d \in Conn \ {c} : tasks'[d] = tasks[d] /\ Tasks(d)' = Tasks(d)

(* old, a task of c, goes on as new. *)
Resumed(c, old, new) ==
  /\ old \in Tasks(c) /\ new \in Tasks(c)'
  /\ Tasks(c)' \subseteq Tasks(c) \cup {new} /\ Tasks(c) \subseteq Tasks(c)' \cup {old}
  /\ \A d \in Conn \ {c} : tasks'[d] = tasks[d] /\ Tasks(d)' = Tasks(d)

(* old, a task of c, done: nothing of it is left to do. *)
Finished(c, old) ==
  /\ old \in Tasks(c)
  /\ Tasks(c)' \subseteq Tasks(c) /\ Tasks(c) \subseteq Tasks(c)' \cup {old}
  /\ \A d \in Conn \ {c} : tasks'[d] = tasks[d] /\ Tasks(d)' = Tasks(d)

(* Queues that a step does not name hold what they held: up the sockets, *)
LEMMA UpsUnchanged == UNCHANGED up => UpsKept
BY DEF UpsKept, Ups
(* down the sockets, *)
LEMMA DownsUnchanged == UNCHANGED down => DownsKept
BY DEF DownsKept, Downs
(* in the handlers, *)
LEMMA TasksUnchanged == UNCHANGED tasks => TasksKept
BY DEF TasksKept, Tasks
(* and between the instances. *)
LEMMA BusUnchanged == UNCHANGED bus => BusKept
BY DEF BusKept, Bus

(* c, let into the room as replica. *)
Entered(c, replica) ==
  /\ \A d \in Conn \ {c} : bound'[d] = bound[d]
  /\ bound'[c] = replica
  /\ room' = room \cup {c}

(* A socket that enters is bound to its replica and in the room.           *)
LEMMA EnterBinds ==
  ASSUME Typed, NEW c \in Conn, NEW r \in ReplicaId, Enter(c, r)
  PROVE  /\ bound' \in [Conn -> {NoReplica} \cup ReplicaId] /\ room' \subseteq Conn
         /\ Entered(c, r)
BY DEF Typed, HubTyped, Enter, Entered

(* A join is taken off the wire, and the authorizer asked or the socket    *)
(* let in.                                                                 *)
LEMMA OnJoinEffect ==
  ASSUME Typed, NEW c \in Conn, OnJoin(c)
  PROVE  /\ HubTyped'
         /\ DownsKept /\ BusKept /\ UNCHANGED <<down, bus, log>>
         /\ \E msg \in JoinMsgs, task \in JoinTasks :
              /\ TakenOff(c, msg) /\ msg.type = "join" /\ msg.replica \in ReplicaId
              /\ Suspended(c, task) /\ task.msg = msg
              /\ task.pc = IF enforce THEN "authorize join" ELSE "welcome"
              /\ IF enforce THEN UNCHANGED <<bound, room>> ELSE Entered(c, msg.replica)
<1> DEFINE msg == Head(up[c])
           task == [pc |-> IF enforce THEN "authorize join" ELSE "welcome", msg |-> msg]
<1>1. Reads(c, "join") /\ UNCHANGED <<down, bus, log>>
  BY DEF OnJoin
<1>2. /\ sock[c] \in {"open", "left"} /\ msg \in Ups(c) /\ msg.type = "join"
      /\ up' \in [Conn -> Seq(UpMsgs)]
      /\ TakenOff(c, msg) /\ msg \in UpMsgs
  BY <1>1, ReadsTakesOne DEF TakenOff, Reads, Typed, HubTyped
<1>3. msg \in JoinMsgs /\ msg.replica \in ReplicaId
  BY <1>2, FieldFacts
<1> HIDE DEF msg
<1>4. /\ task \in JoinTasks /\ task \in Tasks1 /\ task.msg = msg
      /\ task.pc = IF enforce THEN "authorize join" ELSE "welcome"
  BY <1>3 DEF JoinTasks, Tasks1
<1>5. Suspend(c, task) /\ IF enforce THEN UNCHANGED <<bound, room>> ELSE Enter(c, msg.replica)
  BY DEF OnJoin, msg
<1> HIDE DEF task
<1>6. tasks' \in [Conn -> Seq(Tasks1)] /\ Suspended(c, task)
  BY <1>4, <1>5, SuspendAdds DEF Suspended
<1>7. /\ IF enforce THEN UNCHANGED <<bound, room>> ELSE Entered(c, msg.replica)
      /\ bound' \in [Conn -> {NoReplica} \cup ReplicaId] /\ room' \subseteq Conn
  BY <1>3, <1>5, EnterBinds DEF Typed, HubTyped
<1>8. HubTyped'
  BY <1>1, <1>2, <1>6, <1>7 DEF Typed, HubTyped, TakenOff
<1> QED BY <1>1, <1>2, <1>3, <1>4, <1>6, <1>7, <1>8, DownsUnchanged, BusUnchanged

(* The authorizer lets a socket in or refuses it. *)
LEMMA JoinAuthorizedEffect ==
  ASSUME Typed, NEW c \in Conn, NEW i \in DOMAIN tasks[c], JoinAuthorized(c, i)
  PROVE  /\ HubTyped'
         /\ UpsKept /\ BusKept /\ UNCHANGED <<setting, sock, up, bus, log>>
         /\ \E old \in JoinTasks :
              /\ old.pc = "authorize join" /\ old \in Tasks(c) /\ old.msg \in JoinMsgs
              /\ old.msg.replica \in ReplicaId /\ old.msg.type = "join"
              /\ \/ /\ role[c[1]] = "none"
                    /\ SentDown({c}, ErrorMsg("forbidden-read")) /\ Finished(c, old)
                    /\ UNCHANGED <<bound, room>>
                 \/ /\ role[c[1]] # "none"
                    /\ Entered(c, old.msg.replica) /\ UNCHANGED down /\ DownsKept
                    /\ \E new \in JoinTasks :
                         new.pc = "welcome" /\ new.msg = old.msg /\ Resumed(c, old, new)
<1> DEFINE old == tasks[c][i]
           new == [old EXCEPT !.pc = "welcome"]
<1>1. old.pc = "authorize join" /\ UNCHANGED <<setting, sock, up, bus, log>>
  BY DEF JoinAuthorized
<1>2. tasks[c] \in Seq(Tasks1) /\ old \in Tasks1 /\ old \in Tasks(c)
  BY DEF Typed, HubTyped, Tasks, ToSet
<1>3. /\ old \in JoinTasks /\ old.msg \in JoinMsgs
      /\ old.msg.replica \in ReplicaId /\ old.msg.type = "join"
  BY <1>1, <1>2, FieldFacts
<1>4. new \in JoinTasks /\ new.pc = "welcome" /\ new.msg = old.msg /\ new \in Tasks1
  BY <1>3 DEF JoinTasks, Tasks1
<1>5. \/ /\ role[c[1]] = "none"
         /\ SendTo({c}, ErrorMsg("forbidden-read")) /\ Finish(c, i) /\ UNCHANGED <<bound, room>>
      \/ /\ role[c[1]] # "none"
         /\ Enter(c, old.msg.replica) /\ Resume(c, i, new) /\ UNCHANGED down
  BY DEF JoinAuthorized
<1> HIDE DEF new
<1>6. CASE role[c[1]] = "none"
  <2>1. /\ down' \in [Conn -> Seq(DownMsgs)] /\ SentDown({c}, ErrorMsg("forbidden-read"))
    BY <1>5, <1>6, SendReaches, MessageFacts DEF SentDown
  <2>2. tasks' \in [Conn -> Seq(Tasks1)] /\ Finished(c, old)
    BY <1>5, <1>6, FinishRemoves DEF Finished
  <2>3. HubTyped'
    BY <1>1, <1>5, <1>6, <2>1, <2>2 DEF Typed, HubTyped
  <2> QED BY <1>1, <1>2, <1>3, <1>5, <1>6, <2>1, <2>2, <2>3, UpsUnchanged, BusUnchanged
<1>7. CASE role[c[1]] # "none"
  <2>1. tasks' \in [Conn -> Seq(Tasks1)] /\ Resumed(c, old, new)
    BY <1>4, <1>5, <1>7, ResumeReplaces DEF Resumed
  <2>2. /\ bound' \in [Conn -> {NoReplica} \cup ReplicaId] /\ room' \subseteq Conn
        /\ Entered(c, old.msg.replica)
    BY <1>3, <1>5, <1>7, EnterBinds
  <2>3. HubTyped'
    BY <1>1, <1>5, <1>7, <2>1, <2>2 DEF Typed, HubTyped
  <2> HIDE DEF old
  <2> QED BY <1>1, <1>2, <1>3, <1>4, <1>5, <1>7, <2>1, <2>2, <2>3, UpsUnchanged, BusUnchanged, DownsUnchanged
<1> QED BY <1>6, <1>7

(* A welcome brings what was logged after the head the client joined from. *)
LEMMA SendWelcomeEffect ==
  ASSUME Typed, NEW c \in Conn, NEW i \in DOMAIN tasks[c], SendWelcome(c, i)
  PROVE  /\ HubTyped'
         /\ UpsKept /\ BusKept /\ UNCHANGED <<setting, sock, up, bound, room, bus, log>>
         /\ \E old \in JoinTasks :
              /\ old.pc = "welcome" /\ Finished(c, old) /\ old.msg.since \in Nat
              /\ SentDown({c}, WelcomeMsg(OpsSince(old.msg.since), Len(log)))
<1> DEFINE old == tasks[c][i]
<1>1. /\ old.pc = "welcome" /\ UNCHANGED <<setting, sock, up, bound, room, bus, log>>
      /\ SendTo({c}, WelcomeMsg(OpsSince(old.msg.since), Len(log))) /\ Finish(c, i)
  BY DEF SendWelcome
<1>2. tasks[c] \in Seq(Tasks1) /\ old \in Tasks1
  BY DEF Typed, HubTyped
<1>3. old \in JoinTasks /\ old.msg.since \in Nat
  BY <1>1, <1>2, FieldFacts
<1>4. tasks' \in [Conn -> Seq(Tasks1)] /\ Finished(c, old)
  BY <1>1, FinishRemoves DEF Finished
<1> HIDE DEF old
<1>5. WelcomeMsg(OpsSince(old.msg.since), Len(log)) \in DownMsgs
  BY <1>3, MessageFacts, LogFacts
<1>6. /\ down' \in [Conn -> Seq(DownMsgs)]
      /\ SentDown({c}, WelcomeMsg(OpsSince(old.msg.since), Len(log)))
  BY <1>1, <1>5, SendReaches DEF SentDown
<1>7. HubTyped'
  BY <1>1, <1>4, <1>6 DEF Typed, HubTyped
<1> QED BY <1>1, <1>3, <1>4, <1>6, <1>7, UpsUnchanged, BusUnchanged

(* An operation is refused before the join, or waits for its turn.         *)
LEMMA OnOpEffect ==
  ASSUME Typed, NEW c \in Conn, OnOp(c)
  PROVE  /\ HubTyped'
         /\ BusKept /\ UNCHANGED <<bound, room, bus, log>>
         /\ \E msg \in UpMsgs :
              /\ TakenOff(c, msg) /\ msg.type = "op" /\ msg.op \in SUBSET Edits
              /\ \/ /\ bound[c] = NoReplica
                    /\ SentDown({c}, ErrorMsg("none")) /\ UNCHANGED tasks /\ TasksKept
                 \/ /\ bound[c] # NoReplica
                    /\ UNCHANGED down /\ DownsKept
                    /\ \E task \in OpTasks :
                         /\ Suspended(c, task) /\ task.op = msg.op
                         /\ task.pc = IF enforce THEN "authorize op" ELSE "append"
<1> DEFINE msg == Head(up[c])
           task == [pc |-> IF enforce THEN "authorize op" ELSE "append", op |-> msg.op]
<1>1. Reads(c, "op") /\ UNCHANGED <<bound, room, bus, log>>
  BY DEF OnOp
<1>2. /\ msg.type = "op" /\ up' \in [Conn -> Seq(UpMsgs)]
      /\ TakenOff(c, msg) /\ msg \in UpMsgs
  BY <1>1, ReadsTakesOne DEF TakenOff, Reads, Typed, HubTyped
<1>3. msg.op \in SUBSET Edits
  BY <1>2, FieldFacts
<1>4. \/ bound[c] = NoReplica /\ SendTo({c}, ErrorMsg("none")) /\ UNCHANGED tasks
      \/ bound[c] # NoReplica /\ Suspend(c, task) /\ UNCHANGED down
  BY DEF OnOp
<1> HIDE DEF msg
<1>5. /\ task \in OpTasks /\ task \in Tasks1 /\ task.op = msg.op
      /\ task.pc = IF enforce THEN "authorize op" ELSE "append"
  BY <1>3 DEF OpTasks, Tasks1
<1> HIDE DEF task
<1>6. CASE bound[c] = NoReplica
  <2>1. /\ down' \in [Conn -> Seq(DownMsgs)] /\ SentDown({c}, ErrorMsg("none"))
    BY <1>4, <1>6, SendReaches, MessageFacts DEF SentDown
  <2>2. HubTyped'
    BY <1>1, <1>2, <1>4, <1>6, <2>1 DEF Typed, HubTyped, TakenOff
  <2> QED BY <1>1, <1>2, <1>3, <1>4, <1>6, <2>1, <2>2, BusUnchanged, TasksUnchanged
<1>7. CASE bound[c] # NoReplica
  <2>1. tasks' \in [Conn -> Seq(Tasks1)] /\ Suspended(c, task)
    BY <1>4, <1>5, <1>7, SuspendAdds DEF Suspended
  <2>2. HubTyped'
    BY <1>1, <1>2, <1>4, <1>7, <2>1 DEF Typed, HubTyped, TakenOff
  <2> QED BY <1>1, <1>2, <1>3, <1>4, <1>5, <1>7, <2>1, <2>2, BusUnchanged, DownsUnchanged
<1> QED BY <1>6, <1>7

(* The authorizer lets an operation through or refuses it. *)
LEMMA OpAuthorizedEffect ==
  ASSUME Typed, NEW c \in Conn, NEW i \in DOMAIN tasks[c], OpAuthorized(c, i)
  PROVE  /\ HubTyped'
         /\ UpsKept /\ BusKept /\ UNCHANGED <<setting, sock, up, bound, room, bus, log>>
         /\ \E old \in OpTasks :
              /\ old.pc = "authorize op" /\ old \in Tasks(c)
              /\ \/ /\ role[c[1]] = "editor" /\ UNCHANGED down /\ DownsKept
                    /\ \E new \in OpTasks :
                         new.pc = "append" /\ new.op = old.op /\ Resumed(c, old, new)
                 \/ /\ role[c[1]] # "editor"
                    /\ SentDown({c}, ErrorMsg("forbidden-write")) /\ Finished(c, old)
<1> DEFINE old == tasks[c][i]
           new == [old EXCEPT !.pc = "append"]
<1>1. old.pc = "authorize op" /\ UNCHANGED <<setting, sock, up, bound, room, bus, log>>
  BY DEF OpAuthorized
<1>2. tasks[c] \in Seq(Tasks1) /\ old \in Tasks1 /\ old \in Tasks(c)
  BY DEF Typed, HubTyped, Tasks, ToSet
<1>3. old \in OpTasks
  BY <1>1, <1>2, FieldFacts
<1>4. new \in OpTasks /\ new.pc = "append" /\ new.op = old.op /\ new \in Tasks1
  BY <1>3 DEF OpTasks, Tasks1
<1>5. \/ role[c[1]] = "editor" /\ Resume(c, i, new) /\ UNCHANGED down
      \/ role[c[1]] # "editor" /\ SendTo({c}, ErrorMsg("forbidden-write")) /\ Finish(c, i)
  BY DEF OpAuthorized
<1> HIDE DEF new
<1>6. CASE role[c[1]] # "editor"
  <2>1. /\ down' \in [Conn -> Seq(DownMsgs)] /\ SentDown({c}, ErrorMsg("forbidden-write"))
    BY <1>5, <1>6, SendReaches, MessageFacts DEF SentDown
  <2>2. tasks' \in [Conn -> Seq(Tasks1)] /\ Finished(c, old)
    BY <1>5, <1>6, FinishRemoves DEF Finished
  <2>3. HubTyped'
    BY <1>1, <1>5, <1>6, <2>1, <2>2 DEF Typed, HubTyped
  <2> HIDE DEF old
  <2> QED BY <1>1, <1>2, <1>3, <1>5, <1>6, <2>1, <2>2, <2>3, UpsUnchanged, BusUnchanged
<1>7. CASE role[c[1]] = "editor"
  <2>1. tasks' \in [Conn -> Seq(Tasks1)] /\ Resumed(c, old, new)
    BY <1>4, <1>5, <1>7, ResumeReplaces DEF Resumed
  <2>2. HubTyped'
    BY <1>1, <1>5, <1>7, <2>1 DEF Typed, HubTyped
  <2> HIDE DEF old
  <2> QED BY <1>1, <1>2, <1>3, <1>4, <1>5, <1>7, <2>1, <2>2, UpsUnchanged, BusUnchanged, DownsUnchanged
<1> QED BY <1>6, <1>7

(* The log grows by one entry. *)
Logged1(edits) ==
  /\ Len(log') = Len(log) + 1 /\ log'[Len(log) + 1] = edits
  /\ \A k \in 1 .. Len(log) : log'[k] = log[k]

(* An operation is logged under the next number. *)
LEMMA AppendOpEffect ==
  ASSUME Typed, NEW c \in Conn, NEW i \in DOMAIN tasks[c], AppendOp(c, i)
  PROVE  /\ HubTyped'
         /\ UpsKept /\ DownsKept /\ BusKept /\ UNCHANGED <<setting, sock, up, down, bound, room, bus>>
         /\ \E old \in OpTasks, new \in SpreadTasks :
              /\ old.pc = "append" /\ Resumed(c, old, new)
              /\ new.pc = "spread" /\ new.seq = Len(log) + 1 /\ new.op = old.op
              /\ old.op \in SUBSET Edits /\ Logged1(old.op)
<1> DEFINE old == tasks[c][i]
           new == [pc |-> "spread", seq |-> Len(log) + 1, op |-> old.op]
<1>1. /\ old.pc = "append" /\ UNCHANGED <<setting, sock, up, down, bound, room, bus>>
      /\ log' = Append(log, old.op) /\ Resume(c, i, new)
  BY DEF AppendOp, wires
<1>2. tasks[c] \in Seq(Tasks1) /\ old \in Tasks1
  BY DEF Typed, HubTyped
<1>3. old \in OpTasks /\ old.op \in SUBSET Edits
  BY <1>1, <1>2, FieldFacts
<1> HIDE DEF old
<1>4. /\ new \in SpreadTasks /\ new \in Tasks1
      /\ new.pc = "spread" /\ new.seq = Len(log) + 1 /\ new.op = old.op
  <2>1. Len(log) + 1 \in Nat
    BY LogFacts
  <2> QED BY <1>3, <2>1 DEF SpreadTasks, Tasks1
<1> HIDE DEF new
<1>5. tasks' \in [Conn -> Seq(Tasks1)] /\ Resumed(c, old, new)
  BY <1>1, <1>4, ResumeReplaces DEF Resumed, old
<1>6. log' \in Seq(SUBSET Edits) /\ Logged1(old.op)
  <2>1. log \in Seq(SUBSET Edits) /\ DOMAIN log = 1 .. Len(log)
    BY DEF Typed, HubTyped
  <2> QED BY <1>1, <1>3, <2>1, AppendElements DEF Logged1
<1>7. HubTyped'
  BY <1>1, <1>5, <1>6 DEF Typed, HubTyped
<1> QED BY <1>1, <1>3, <1>4, <1>5, <1>6, <1>7, UpsUnchanged, DownsUnchanged, BusUnchanged

(* An operation, or a join, comes to nothing: the client whose socket it   *)
(* is misses it, and what was stored all the same everyone may miss.       *)
Harmed(c, old) ==
  \/ /\ old \in JoinTasks /\ UNCHANGED <<log, rebuffed, missed>>
     /\ unjoined \subseteq unjoined'
     /\ \A p \in Client : Sock(p) = c => p \in unjoined'
  \/ /\ old \in OpTasks /\ old.op \in SUBSET Edits /\ UNCHANGED unjoined
     /\ \A p \in Client : /\ rebuffed[p] \subseteq rebuffed'[p]
                          /\ Sock(p) = c => old.op \subseteq rebuffed'[p]
     /\ \/ UNCHANGED <<log, missed>>
        \/ /\ old.pc = "append" /\ Logged1(old.op)
           /\ \A q \in Client : missed'[q] = missed[q] \cup old.op

(* The log, with one entry more. *)
LEMMA LogsOp ==
  ASSUME Typed, NEW edits \in SUBSET Edits, log' = Append(log, edits)
  PROVE  log' \in Seq(SUBSET Edits) /\ Logged1(edits) /\ log' # log
<1>1. log \in Seq(SUBSET Edits) /\ DOMAIN log = 1 .. Len(log) /\ Len(log) \in Nat
  BY LogFacts DEF Typed, HubTyped
<1>2. log' \in Seq(SUBSET Edits) /\ Logged1(edits)
  BY <1>1, AppendElements DEF Logged1
<1>3. log' # log
  <2>1. Len(log') = Len(log) + 1
    BY <1>2 DEF Logged1
  <2>2. \A n \in Nat : n + 1 # n
    OBVIOUS
  <2>3. log' = log => Len(log') = Len(log)
    OBVIOUS
  <2> QED BY <1>1, <2>1, <2>2, <2>3
<1> QED BY <1>2, <1>3

(* A handler that throws is done with its task. *)
LEMMA HandlerThrowsEffect ==
  ASSUME Typed, NEW c \in Conn, NEW i \in DOMAIN tasks[c], HandlerThrows(c, i)
  PROVE  /\ HubTyped' /\ HarmTyped'
         /\ UpsKept /\ BusKept /\ UNCHANGED <<setting, sock, up, bound, room, bus>>
         /\ SentDown({c}, ErrorMsg("none"))
         /\ \E old \in JoinTasks \cup OpTasks : Finished(c, old) /\ Harmed(c, old)
<1> DEFINE old == tasks[c][i]
           present == {p \in Client : Sock(p) = c}
<1>1. /\ old.pc # "spread" /\ UNCHANGED <<setting, sock, up, bound, room, bus>>
      /\ SendTo({c}, ErrorMsg("none")) /\ Finish(c, i)
      /\ UNCHANGED log \/ (old.pc = "append" /\ log' = Append(log, old.op))
      /\ failures' = failures + 1
  BY DEF HandlerThrows, Fails
<1>2. /\ IF "op" \in DOMAIN old
         THEN /\ rebuffed' = [q \in Client |->
                               rebuffed[q] \cup (IF q \in present THEN old.op ELSE {})]
              /\ missed' = [q \in Client |-> missed[q] \cup (IF log' = log THEN {} ELSE old.op)]
              /\ UNCHANGED unjoined
         ELSE unjoined' = unjoined \cup present /\ UNCHANGED <<rebuffed, missed>>
  BY DEF HandlerThrows
<1>3. tasks[c] \in Seq(Tasks1) /\ old \in Tasks1
  BY DEF Typed, HubTyped
<1>4. tasks' \in [Conn -> Seq(Tasks1)] /\ Finished(c, old)
  BY <1>1, FinishRemoves DEF Finished
<1>5. present \subseteq Client /\ \A q \in Client : Sock(q) = c => q \in present
  OBVIOUS
<1> HIDE DEF old, present
<1>6. /\ down' \in [Conn -> Seq(DownMsgs)] /\ SentDown({c}, ErrorMsg("none"))
  BY <1>1, SendReaches, MessageFacts DEF SentDown
<1>7. failures' \in Nat
  BY <1>1 DEF Typed, HarmTyped
<1>8. CASE old \in JoinTasks
  <2>1. "op" \notin DOMAIN old /\ old.pc # "append"
    BY <1>8 DEF JoinTasks
  <2>2. unjoined' = unjoined \cup present /\ UNCHANGED <<rebuffed, missed, log>>
    BY <1>1, <1>2, <2>1
  <2>3. HubTyped' /\ HarmTyped'
    BY <1>1, <1>4, <1>5, <1>6, <1>7, <2>2 DEF Typed, HubTyped, HarmTyped
  <2>4. Harmed(c, old)
    BY <1>5, <1>8, <2>2 DEF Harmed
  <2> QED BY <1>1, <1>4, <1>6, <1>8, <2>3, <2>4, UpsUnchanged, BusUnchanged
<1>9. CASE old \in OpTasks
  <2>1. "op" \in DOMAIN old /\ old.op \in SUBSET Edits
    BY <1>9 DEF OpTasks
  <2>2. /\ rebuffed' = [q \in Client |-> rebuffed[q] \cup (IF q \in present THEN old.op ELSE {})]
        /\ missed' = [q \in Client |-> missed[q] \cup (IF log' = log THEN {} ELSE old.op)]
        /\ UNCHANGED unjoined
    BY <1>2, <2>1
  <2>3. /\ rebuffed' \in [Client -> SUBSET Edits]
        /\ \A q \in Client : /\ rebuffed[q] \subseteq rebuffed'[q]
                             /\ Sock(q) = c => old.op \subseteq rebuffed'[q]
        /\ missed' \in [Client -> SUBSET Edits]
    BY <1>5, <2>1, <2>2 DEF Typed, HarmTyped
  <2>4. CASE UNCHANGED log
    <3>1. UNCHANGED missed
      BY <2>2, <2>4 DEF Typed, HarmTyped
    <3>2. Harmed(c, old)
      BY <1>9, <2>1, <2>2, <2>3, <2>4, <3>1 DEF Harmed
    <3>3. HubTyped' /\ HarmTyped'
      BY <1>1, <1>4, <1>6, <1>7, <2>2, <2>3, <2>4 DEF Typed, HubTyped, HarmTyped
    <3> QED BY <1>1, <1>4, <1>6, <1>9, <3>2, <3>3, UpsUnchanged, BusUnchanged
  <2>5. CASE old.pc = "append" /\ log' = Append(log, old.op)
    <3>1. log' \in Seq(SUBSET Edits) /\ Logged1(old.op) /\ log' # log
      BY <2>1, <2>5, LogsOp
    <3>2. \A q \in Client : missed'[q] = missed[q] \cup old.op
      BY <2>2, <3>1
    <3>3. Harmed(c, old)
      BY <1>9, <2>1, <2>2, <2>3, <2>5, <3>1, <3>2 DEF Harmed
    <3>4. HubTyped' /\ HarmTyped'
      BY <1>1, <1>4, <1>6, <1>7, <2>2, <2>3, <3>1 DEF Typed, HubTyped, HarmTyped
    <3> QED BY <1>1, <1>4, <1>6, <1>9, <3>3, <3>4, UpsUnchanged, BusUnchanged
  <2> QED BY <1>1, <2>4, <2>5
<1>10. old \in JoinTasks \/ old \in OpTasks
  BY <1>1, <1>3 DEF Tasks1, SpreadTasks
<1> QED BY <1>8, <1>9, <1>10

(* The members of an instance are the sockets in the room that it serves.  *)
LEMMA MembersFacts ==
  ASSUME Typed
  PROVE  \A i : Members(i) = {c \in Conn : c \in room /\ Home[c] = i}
BY DEF Typed, HubTyped, Members

(* A logged operation is sent to the members of its socket's instance, and *)
(* to the others.                                                          *)
LEMMA SpreadOpEffect ==
  ASSUME Typed, NEW c \in Conn, NEW i \in DOMAIN tasks[c], SpreadOp(c, i)
  PROVE  /\ HubTyped'
         /\ UpsKept /\ UNCHANGED <<setting, sock, up, bound, room, log>>
         /\ \E old \in SpreadTasks :
              /\ old.pc = "spread" /\ Finished(c, old) /\ old.seq \in Nat /\ old.op \in SUBSET Edits
              /\ SentDown(Members(Home[c]), StoredMsg(old.seq, old.op))
              /\ Published(Home[c], StoredMsg(old.seq, old.op))
<1> DEFINE old == tasks[c][i]
           msg == StoredMsg(old.seq, old.op)
<1>1. /\ old.pc = "spread" /\ UNCHANGED <<setting, sock, up, bound, room, log>>
      /\ Finish(c, i) /\ SendTo(Members(Home[c]) \ {}, msg) /\ Publish(Home[c], msg)
  BY DEF SpreadOp, Spread
<1>2. tasks[c] \in Seq(Tasks1) /\ old \in Tasks1
  BY DEF Typed, HubTyped
<1>3. old \in SpreadTasks /\ old.seq \in Nat /\ old.op \in SUBSET Edits
  BY <1>1, <1>2, FieldFacts
<1>4. tasks' \in [Conn -> Seq(Tasks1)] /\ Finished(c, old)
  BY <1>1, FinishRemoves DEF Finished
<1> HIDE DEF old
<1>5. msg \in DownMsgs /\ msg \in StoredMsgs
  BY <1>3, MessageFacts
<1>6. Members(Home[c]) \ {} = Members(Home[c])
  OBVIOUS
<1> HIDE DEF msg
<1>7. down' \in [Conn -> Seq(DownMsgs)] /\ SentDown(Members(Home[c]), msg)
  BY <1>1, <1>5, <1>6, SendReaches DEF SentDown
<1>8. bus' \in [Instance -> Seq(StoredMsgs \cup PeerMsgs)] /\ Published(Home[c], msg)
  BY <1>1, <1>5, PublishReaches DEF Published
<1>9. HubTyped'
  BY <1>1, <1>4, <1>7, <1>8 DEF Typed, HubTyped
<1> QED BY <1>1, <1>3, <1>4, <1>7, <1>8, <1>9, UpsUnchanged DEF msg

(* A cursor is sent to the other members, once its socket has joined.      *)
LEMMA OnAwarenessEffect ==
  ASSUME Typed, NEW c \in Conn, OnAwareness(c)
  PROVE  /\ HubTyped'
         /\ TasksKept /\ UNCHANGED <<bound, room, tasks, log>>
         /\ \E msg \in UpMsgs : TakenOff(c, msg) /\ msg.type = "awareness"
         /\ \/ bound[c] = NoReplica /\ UNCHANGED <<down, bus>> /\ DownsKept /\ BusKept
            \/ /\ bound[c] # NoReplica /\ bound[c] \in ReplicaId
               /\ SentDown(Members(Home[c]) \ {c}, PeerMsg("awareness", bound[c]))
               /\ Published(Home[c], PeerMsg("awareness", bound[c]))
<1>1. Reads(c, "awareness") /\ UNCHANGED <<bound, room, tasks, log>>
  BY DEF OnAwareness
<1>2. /\ Head(up[c]).type = "awareness" /\ up' \in [Conn -> Seq(UpMsgs)]
      /\ TakenOff(c, Head(up[c])) /\ Head(up[c]) \in UpMsgs
  BY <1>1, ReadsTakesOne DEF TakenOff, Reads, Typed, HubTyped
<1>3. CASE bound[c] = NoReplica
  <2>1. UNCHANGED <<down, bus>>
    BY <1>3 DEF OnAwareness
  <2>2. HubTyped'
    BY <1>1, <1>2, <2>1 DEF Typed, HubTyped, TakenOff
  <2> QED BY <1>1, <1>2, <1>3, <2>1, <2>2, TasksUnchanged, DownsUnchanged, BusUnchanged
<1>4. CASE bound[c] # NoReplica
  <2> DEFINE msg == PeerMsg("awareness", bound[c])
  <2>1. bound[c] \in ReplicaId
    BY <1>4 DEF Typed, HubTyped
  <2>2. msg \in DownMsgs /\ msg \in PeerMsgs
    BY <2>1, MessageFacts
  <2>3. SendTo(Members(Home[c]) \ {c}, msg) /\ Publish(Home[c], msg)
    BY <1>4 DEF OnAwareness, Spread
  <2> HIDE DEF msg
  <2>4. down' \in [Conn -> Seq(DownMsgs)] /\ SentDown(Members(Home[c]) \ {c}, msg)
    BY <2>2, <2>3, SendReaches DEF SentDown
  <2>5. bus' \in [Instance -> Seq(StoredMsgs \cup PeerMsgs)] /\ Published(Home[c], msg)
    BY <2>2, <2>3, PublishReaches DEF Published
  <2>6. HubTyped'
    BY <1>1, <1>2, <2>4, <2>5 DEF Typed, HubTyped, TakenOff
  <2> QED BY <1>1, <1>2, <1>4, <2>1, <2>4, <2>5, <2>6, TasksUnchanged DEF msg
<1> QED BY <1>3, <1>4

(* A socket that is closed leaves the room, and the others are told.       *)
LEMMA OnCloseEffect ==
  ASSUME Typed, NEW c \in Conn, OnClose(c)
  PROVE  /\ HubTyped'
         /\ UpsKept /\ TasksKept /\ UNCHANGED <<setting, up, bound, tasks, log>>
         /\ sock[c] = "left" /\ up[c] = <<>> /\ sock'[c] = "closed"
         /\ \A d \in Conn \ {c} : sock'[d] = sock[d]
         /\ room' = room \ {c}
         /\ \/ bound[c] = NoReplica /\ UNCHANGED <<down, bus>> /\ DownsKept /\ BusKept
            \/ /\ bound[c] # NoReplica /\ bound[c] \in ReplicaId
               /\ SentDown(Members(Home[c]) \ {c}, PeerMsg("leave", bound[c]))
               /\ Published(Home[c], PeerMsg("leave", bound[c]))
<1>1. /\ sock[c] = "left" /\ up[c] = <<>> /\ sock' = [sock EXCEPT ![c] = "closed"]
      /\ room' = room \ {c} /\ UNCHANGED <<setting, up, bound, tasks, log>>
  BY DEF OnClose
<1>2. /\ sock' \in [Conn -> {"new", "open", "left", "closed"}] /\ room' \subseteq Conn
      /\ sock'[c] = "closed" /\ \A d \in Conn \ {c} : sock'[d] = sock[d]
  BY <1>1 DEF Typed, HubTyped
<1>3. CASE bound[c] = NoReplica
  <2>1. UNCHANGED <<down, bus>>
    BY <1>3 DEF OnClose
  <2>2. HubTyped'
    BY <1>1, <1>2, <2>1 DEF Typed, HubTyped
  <2> QED BY <1>1, <1>2, <1>3, <2>1, <2>2, TasksUnchanged, DownsUnchanged, BusUnchanged, UpsUnchanged
<1>4. CASE bound[c] # NoReplica
  <2> DEFINE msg == PeerMsg("leave", bound[c])
  <2>1. bound[c] \in ReplicaId
    BY <1>4 DEF Typed, HubTyped
  <2>2. msg \in DownMsgs /\ msg \in PeerMsgs
    BY <2>1, MessageFacts
  <2>3. SendTo(Members(Home[c]) \ {c}, msg) /\ Publish(Home[c], msg)
    BY <1>4 DEF OnClose, Spread
  <2> HIDE DEF msg
  <2>4. down' \in [Conn -> Seq(DownMsgs)] /\ SentDown(Members(Home[c]) \ {c}, msg)
    BY <2>2, <2>3, SendReaches DEF SentDown
  <2>5. bus' \in [Instance -> Seq(StoredMsgs \cup PeerMsgs)] /\ Published(Home[c], msg)
    BY <2>2, <2>3, PublishReaches DEF Published
  <2>6. HubTyped'
    BY <1>1, <1>2, <2>4, <2>5 DEF Typed, HubTyped
  <2> QED BY <1>1, <1>2, <1>4, <2>1, <2>4, <2>5, <2>6, TasksUnchanged, UpsUnchanged DEF msg
<1> QED BY <1>3, <1>4

(* What another instance published reaches this one's members. *)
LEMMA FanOutEffect ==
  ASSUME Typed, NEW i \in Instance, FanOut(i)
  PROVE  /\ HubTyped'
         /\ UpsKept /\ TasksKept /\ UNCHANGED <<setting, sock, up, bound, room, tasks, log>>
         /\ \E msg \in StoredMsgs \cup PeerMsgs :
              /\ msg \in DownMsgs /\ msg = bus[i][1] /\ msg \in Bus(i) /\ Bus(i) = {msg} \cup Bus(i)'
              /\ bus[i] # <<>> /\ bus'[i] = Tail(bus[i])
              /\ \A j \in Instance \ {i} : bus'[j] = bus[j] /\ Bus(j)' = Bus(j)
              /\ SentDown(Members(i), msg)
<1> DEFINE msg == Head(bus[i])
<1>1. /\ bus[i] # <<>> /\ SendTo(Members(i), msg) /\ bus' = [bus EXCEPT ![i] = Tail(bus[i])]
      /\ UNCHANGED <<setting, sock, up, bound, room, tasks, log>>
  BY DEF FanOut
<1>2. bus[i] \in Seq(StoredMsgs \cup PeerMsgs)
  BY DEF Typed, HubTyped
<1>3. /\ msg \in StoredMsgs \cup PeerMsgs /\ msg \in ToSet(bus[i]) /\ msg = bus[i][1]
      /\ Tail(bus[i]) \in Seq(StoredMsgs \cup PeerMsgs) /\ ToSet(bus[i]) = {msg} \cup ToSet(Tail(bus[i]))
  BY <1>1, <1>2, TailElements
<1>4. msg \in DownMsgs
  BY <1>3 DEF DownMsgs
<1> HIDE DEF msg
<1>5. /\ bus' \in [Instance -> Seq(StoredMsgs \cup PeerMsgs)] /\ bus'[i] = Tail(bus[i])
      /\ \A j \in Instance \ {i} : bus'[j] = bus[j]
  BY <1>1, <1>3 DEF Typed, HubTyped
<1>6. /\ \A j \in Instance \ {i} : Bus(j)' = Bus(j)
      /\ Bus(i) = {msg} \cup Bus(i)' /\ msg \in Bus(i)
  BY <1>3, <1>5 DEF Bus
<1>7. down' \in [Conn -> Seq(DownMsgs)] /\ SentDown(Members(i), msg)
  BY <1>1, <1>4, SendReaches DEF SentDown
<1>8. HubTyped'
  BY <1>1, <1>5, <1>7 DEF Typed, HubTyped
<1> QED BY <1>1, <1>3, <1>4, <1>5, <1>6, <1>7, <1>8, TasksUnchanged, UpsUnchanged

(* Of a function of the clients, only p's value is new. *)
OthersKeep(f, g, p) == \A q \in Client \ {p} : g[q] = f[q]

(* A client leaves the server alone. *)
LEMMA ServerUnchanged ==
  UNCHANGED server => TasksKept /\ BusKept /\ UNCHANGED <<bound, room, tasks, bus, log>>
BY TasksUnchanged, BusUnchanged DEF server

(* An edit is new: it gets the next number, is applied, and is sent or     *)
(* queued.                                                                 *)
LEMMA EditEffect ==
  ASSUME Typed, Numbered, NEW p \in Client, Edit(p)
  PROVE  /\ Typed'
         /\ DownsKept /\ TasksKept /\ BusKept
         /\ UNCHANGED <<setting, sock, down, server, head, people, page, waived, harm>>
         /\ issued[p] = {} /\ p \notin denied
         /\ \E e \in Edits :
              /\ \A q \in Client : e \notin issued[q]
              /\ UNION {issued[q] : q \in Client} = 1 .. (e - 1)
              /\ doc'[p] = doc[p] \cup {e} /\ OthersKeep(doc, doc', p)
              /\ outbox'[p] = (IF Plain THEN outbox[p] \cup {e} ELSE outbox[p])
              /\ OthersKeep(outbox, outbox', p)
              /\ issued'[p] = {e} /\ OthersKeep(issued, issued', p)
              /\ SentUp(p, {OpMsg({e})})
<1> DEFINE U == UNION {issued[q] : q \in Client}
           e == Cardinality(U) + 1
<1>1. /\ issued[p] = {} /\ p \notin denied
      /\ UNCHANGED <<setting, sock, down, server, head, people, page, waived, harm>>
  BY DEF Edit
<1>2. e \in Edits /\ (\A q \in Client : e \notin issued[q]) /\ U = 1 .. Cardinality(U)
  BY <1>1, NewEdit
<1>3. /\ doc' = [doc EXCEPT ![p] = doc[p] \cup {e}]
      /\ outbox' = IF Plain THEN [outbox EXCEPT ![p] = outbox[p] \cup {e}] ELSE outbox
      /\ up' = Sent(p, <<OpMsg({e})>>)
      /\ issued' = [issued EXCEPT ![p] = issued[p] \cup {e}]
  BY DEF Edit
<1>4. U = 1 .. (e - 1)
  <2>1. IsFiniteSet(1 .. Cardinality(U)) => Cardinality(U) \in Nat
    BY <1>2, FS_CardinalityType
  <2>2. Cardinality(U) \in Nat
    <3>1. PICK n \in Nat : U = 1 .. n
      BY DEF Numbered
    <3>2. IsFiniteSet(1 .. n)
      BY FS_Interval
    <3> HIDE DEF U
    <3> QED BY <3>1, <3>2, FS_CardinalityType
  <2> HIDE DEF U
  <2> QED BY <1>2, <2>2
<1> HIDE DEF e, U
<1>5. OpMsg({e}) \in UpMsgs /\ {e} \in SUBSET Edits
  BY <1>2, MessageFacts
<1>6. <<OpMsg({e})>> \in Seq(UpMsgs) /\ ToSet(<<OpMsg({e})>>) = {OpMsg({e})}
  BY <1>5, OneMessage
<1>7. up' \in [Conn -> Seq(UpMsgs)] /\ SentUp(p, {OpMsg({e})})
  BY <1>3, <1>6, SentAdds
<1>8. /\ doc' \in [Client -> SUBSET Edits] /\ outbox' \in [Client -> SUBSET Edits]
      /\ issued' \in [Client -> SUBSET Edits]
      /\ doc'[p] = doc[p] \cup {e} /\ OthersKeep(doc, doc', p)
      /\ outbox'[p] = (IF Plain THEN outbox[p] \cup {e} ELSE outbox[p])
      /\ OthersKeep(outbox, outbox', p)
      /\ issued'[p] = {e} /\ OthersKeep(issued, issued', p)
  BY <1>1, <1>2, <1>3 DEF Typed, LocalTyped, OthersKeep
<1>9. Typed'
  BY <1>1, <1>7, <1>8 DEF Typed, HubTyped, LocalTyped, HarmTyped, harm, server, people, page
<1> QED BY <1>1, <1>2, <1>4, <1>7, <1>8, <1>9, DownsUnchanged, ServerUnchanged DEF U

(* A cursor is sent. *)
LEMMA SetAwarenessEffect ==
  ASSUME Typed, NEW p \in Client, SetAwareness(p)
  PROVE  /\ Typed'
         /\ DownsKept /\ TasksKept /\ BusKept
         /\ UNCHANGED <<setting, sock, down, server, local, presence, fresh, page, history, harm>>
         /\ Online(p) /\ Plain /\ SentUp(p, {AwarenessMsg})
<1>1. /\ Online(p) /\ Plain /\ up' = Sent(p, <<AwarenessMsg>>) /\ awareness' = awareness + 1
      /\ UNCHANGED <<setting, sock, down, server, local, presence, fresh, page, history, harm>>
  BY DEF SetAwareness
<1>2. <<AwarenessMsg>> \in Seq(UpMsgs) /\ ToSet(<<AwarenessMsg>>) = {AwarenessMsg}
  BY OneMessage, MessageFacts
<1>3. up' \in [Conn -> Seq(UpMsgs)] /\ SentUp(p, {AwarenessMsg})
  BY <1>1, <1>2, SentAdds
<1>4. Typed'
  <2>1. awareness' \in Nat
    BY <1>1 DEF Typed, LocalTyped
  <2>2. UNCHANGED <<setting, sock, down, server, local, presence, fresh, page, history, harm>>
    BY <1>1
  <2> QED BY <1>3, <2>1, <2>2 DEF Typed, HubTyped, LocalTyped, HarmTyped, harm, server, local, page, history
<1> QED BY <1>1, <1>3, <1>4, DownsUnchanged, ServerUnchanged

(* What a client asks with a new socket. *)
HelloJoin(p) == JoinMsg(ReplicaOf(p), IF Plain THEN head[p] ELSE 0)

(* What a client says first is a join; a provider adds what it has.        *)
LEMMA HelloFacts ==
  ASSUME Typed, NEW p \in Client
  PROVE  /\ Hello(p) \in Seq(UpMsgs) /\ Hello(p) # <<>> /\ Head(Hello(p)) = HelloJoin(p)
         /\ ToSet(Hello(p)) = {HelloJoin(p)} \cup (IF Plain THEN {} ELSE {OpMsg(doc[p])})
         /\ HelloJoin(p) \in JoinMsgs
<1>1. ReplicaOf(p) \in ReplicaId /\ head[p] \in Nat /\ doc[p] \in SUBSET Edits
  BY ReplicaFacts DEF Typed, LocalTyped
<1>2. HelloJoin(p) \in UpMsgs /\ HelloJoin(p) \in JoinMsgs /\ OpMsg(doc[p]) \in UpMsgs
  BY <1>1, MessageFacts DEF HelloJoin
<1>3. CASE Plain
  <2>1. Hello(p) = <<HelloJoin(p)>>
    BY <1>3 DEF Hello, HelloJoin
  <2> QED BY <1>2, <1>3, <2>1, OneMessage
<1>4. CASE ~ Plain
  <2> DEFINE a == HelloJoin(p)
             b == OpMsg(doc[p])
             s == <<a, b>>
  <2>1. Hello(p) = s
    BY <1>4 DEF Hello, HelloJoin
  <2>2. a \in UpMsgs /\ b \in UpMsgs
    BY <1>2
  <2> HIDE DEF a, b
  <2>3. s \in Seq(UpMsgs) /\ DOMAIN s = {1, 2} /\ s[1] = a /\ s[2] = b /\ Len(s) = 2
    BY <2>2
  <2> HIDE DEF s
  <2>4. s # <<>> /\ Head(s) = a
    <3>1. s # <<>>
      BY <2>3, EmptySeq
    <3> QED BY <2>3, <3>1, HeadTailProperties
  <2>5. ToSet(s) = {a, b}
    BY <2>3 DEF ToSet
  <2> QED BY <1>2, <1>4, <2>1, <2>3, <2>4, <2>5 DEF a, b
<1> QED BY <1>3, <1>4

(* p has a new socket, c. *)
Opened(p, c) ==
  /\ c = <<p, cur[p] + 1>> /\ c \in Conn /\ c[1] = p /\ c[2] = cur[p] + 1
  /\ cur'[p] = cur[p] + 1 /\ OthersKeep(cur, cur', p)
  /\ sock'[c] = "open"
  /\ Ups(c)' = {HelloJoin(p)} \cup (IF Plain THEN {} ELSE {OpMsg(doc[p])})
  /\ up'[c] # <<>> /\ Head(up'[c]) = HelloJoin(p)
  /\ \A d \in Conn \ {c} : sock'[d] = sock[d] /\ up'[d] = up[d] /\ Ups(d)' = Ups(d)

(* What a room lacks below its head are edits.                             *)
LEMMA GapFacts ==
  ASSUME Typed, NEW p \in Client
  PROVE  Gap(p) \in SUBSET Edits
BY LogFacts DEF Gap, Logged

(* A client that was not online opens its next socket, and greets the      *)
(* server.                                                                 *)
LEMMA OpenEffect ==
  ASSUME Typed, NEW p \in Client, Open(p)
  PROVE  /\ Typed'
         /\ DownsKept /\ TasksKept /\ BusKept
         /\ UNCHANGED <<setting, down, server, local, presence, awareness, failures,
                        mount, disk, denied, quit, breaks, history>>
         /\ ~ Online(p) /\ p \notin quit /\ fresh'[p] = {} /\ OthersKeep(fresh, fresh', p)
         /\ missed'[p] = Gap(p) /\ OthersKeep(missed, missed', p)
         /\ rebuffed'[p] = {} /\ OthersKeep(rebuffed, rebuffed', p)
         /\ unjoined' = unjoined \ {p}
         /\ \E c \in Conn : Opened(p, c)
<1>1. cur[p] \in Nat /\ cur[p] + 1 \in 1 .. MaxConns /\ MaxConns \in Nat
  BY ConnFacts DEF Typed, LocalTyped, Open
<1>2. PICK c \in Conn : c = <<p, cur[p] + 1>>
  BY <1>1, ConnFacts
<1>3. /\ ~ Online(p) /\ p \notin quit /\ cur[p] < MaxConns /\ fresh' = [fresh EXCEPT ![p] = {}]
      /\ cur' = [cur EXCEPT ![p] = cur[p] + 1] /\ sock' = [sock EXCEPT ![c] = "open"]
      /\ up' = [up EXCEPT ![c] = Hello(p)]
      /\ missed' = [missed EXCEPT ![p] = Gap(p)] /\ rebuffed' = [rebuffed EXCEPT ![p] = {}]
      /\ unjoined' = unjoined \ {p}
      /\ UNCHANGED <<setting, down, server, local, presence, awareness, failures,
                     mount, disk, denied, quit, breaks, history>>
  BY <1>2 DEF Open
<1>4. /\ c[1] = p /\ c[2] = cur[p] + 1
      /\ cur' \in [Client -> 0 .. MaxConns] /\ cur'[p] = cur[p] + 1 /\ OthersKeep(cur, cur', p)
  BY <1>1, <1>2, <1>3 DEF Typed, LocalTyped, OthersKeep
<1>5. /\ up' \in [Conn -> Seq(UpMsgs)] /\ up'[c] = Hello(p)
      /\ sock' \in [Conn -> {"new", "open", "left", "closed"}] /\ sock'[c] = "open"
      /\ \A d \in Conn \ {c} : sock'[d] = sock[d] /\ up'[d] = up[d]
  BY <1>3, HelloFacts DEF Typed, HubTyped
<1>6. /\ Ups(c)' = {HelloJoin(p)} \cup (IF Plain THEN {} ELSE {OpMsg(doc[p])})
      /\ up'[c] # <<>> /\ Head(up'[c]) = HelloJoin(p)
      /\ \A d \in Conn \ {c} : Ups(d)' = Ups(d)
  <2>1. /\ Hello(p) # <<>> /\ Head(Hello(p)) = HelloJoin(p)
        /\ ToSet(Hello(p)) = {HelloJoin(p)} \cup (IF Plain THEN {} ELSE {OpMsg(doc[p])})
    BY HelloFacts
  <2> QED BY <1>5, <2>1 DEF Ups
<1>7. /\ fresh' \in [Client -> SUBSET ReplicaId] /\ fresh'[p] = {} /\ OthersKeep(fresh, fresh', p)
  BY <1>3 DEF Typed, LocalTyped, OthersKeep
<1>8. /\ missed'[p] = Gap(p) /\ OthersKeep(missed, missed', p)
      /\ rebuffed'[p] = {} /\ OthersKeep(rebuffed, rebuffed', p)
      /\ missed' \in [Client -> SUBSET Edits] /\ rebuffed' \in [Client -> SUBSET Edits]
  BY <1>3, GapFacts DEF Typed, HarmTyped, OthersKeep
<1>9. Typed'
  BY <1>3, <1>4, <1>5, <1>7, <1>8 DEF Typed, HubTyped, LocalTyped, HarmTyped, server, local, history
<1>10. Opened(p, c)
  BY <1>2, <1>4, <1>5, <1>6 DEF Opened
<1> QED BY <1>3, <1>7, <1>8, <1>9, <1>10, DownsUnchanged, ServerUnchanged

(* A socket that breaks is left. *)
LEMMA BreakEffect ==
  ASSUME Typed, NEW p \in Client, Break(p)
  PROVE  /\ Typed'
         /\ TasksKept /\ BusKept
         /\ UNCHANGED <<setting, server, local, people, cur, mount, disk, denied, quit, history, harm>>
         /\ Online(p)
         /\ Left(p)
<1>1. /\ UNCHANGED <<setting, server, local, people, cur, mount, disk, denied, quit, history, harm>>
      /\ Online(p) /\ breaks < MaxBreaks /\ breaks' = breaks + 1
  BY DEF Break
<1>2. PICK k \in 0 .. Len(up[Sock(p)]) : Leave(p, k)
  BY DEF Break
<1>3. /\ up' \in [Conn -> Seq(UpMsgs)] /\ down' \in [Conn -> Seq(DownMsgs)]
      /\ sock' \in [Conn -> {"new", "open", "left", "closed"}]
      /\ Left(p)
  BY <1>1, <1>2, LeaveDrops
<1>4. breaks' \in 0 .. MaxBreaks
  BY <1>1, ClientsAssumption DEF Typed, LocalTyped
<1>5. Typed'
  BY <1>1, <1>3, <1>4 DEF Typed, HubTyped, LocalTyped, HarmTyped, harm, server, local, people, history
<1> QED BY <1>1, <1>3, <1>5, ServerUnchanged

(* A saved record is the room's of this moment. *)
LEMMA SaveEffect ==
  ASSUME Typed, NEW p \in Client, Save(p)
  PROVE  /\ Typed'
         /\ UpsKept /\ DownsKept /\ TasksKept /\ BusKept
         /\ UNCHANGED <<hubVars, local, people, cur, mount, denied, quit, breaks, history, harm>>
         /\ disk'[p].doc = doc[p] \cup (IF Plain THEN {} ELSE disk[p].doc)
         /\ disk'[p].head = head[p] /\ disk'[p].outbox = outbox[p]
         /\ OthersKeep(disk, disk', p)
<1>1. /\ UNCHANGED <<hubVars, local, people, cur, mount, denied, quit, breaks, history, harm>>
      /\ disk' = [disk EXCEPT ![p] = Record(p)]
  BY DEF Save
<1>2. /\ Record(p) \in [doc : SUBSET Edits, head : Nat, outbox : SUBSET Edits]
      /\ Record(p).doc = doc[p] \cup (IF Plain THEN {} ELSE disk[p].doc)
      /\ Record(p).head = head[p] /\ Record(p).outbox = outbox[p]
  BY DEF Record, Typed, LocalTyped
<1>3. /\ disk' \in [Client -> [doc : SUBSET Edits, head : Nat, outbox : SUBSET Edits]]
      /\ disk'[p] = Record(p) /\ OthersKeep(disk, disk', p)
  BY <1>1, <1>2 DEF Typed, LocalTyped, OthersKeep
<1>4. UNCHANGED <<setting, sock, up, down, server>>
  BY <1>1 DEF hubVars, wires
<1>5. Typed'
  BY <1>1, <1>3, <1>4 DEF Typed, HubTyped, LocalTyped, HarmTyped, harm, server, local, people, history
<1> QED BY <1>1, <1>2, <1>3, <1>4, <1>5, ServerUnchanged, UpsUnchanged, DownsUnchanged

(* A provider applies, and sends, what y-indexeddb kept. *)
LEMMA LoadEffect ==
  ASSUME Typed, NEW p \in Client, Load(p)
  PROVE  /\ Typed'
         /\ DownsKept /\ TasksKept /\ BusKept
         /\ UNCHANGED <<setting, sock, down, server, head, outbox, people, page, history, harm>>
         /\ ~ Plain
         /\ doc'[p] = doc[p] \cup disk[p].doc /\ OthersKeep(doc, doc', p)
         /\ SentUp(p, {OpMsg(disk[p].doc)})
<1>1. /\ ~ Plain /\ doc' = [doc EXCEPT ![p] = doc[p] \cup disk[p].doc]
      /\ up' = Sent(p, <<OpMsg(disk[p].doc)>>)
      /\ UNCHANGED <<setting, sock, down, server, head, outbox, people, page, history, harm>>
  BY DEF Load
<1>2. disk[p].doc \in SUBSET Edits
  BY DEF Typed, LocalTyped
<1>3. OpMsg(disk[p].doc) \in UpMsgs
  BY <1>2, MessageFacts
<1>4. <<OpMsg(disk[p].doc)>> \in Seq(UpMsgs) /\ ToSet(<<OpMsg(disk[p].doc)>>) = {OpMsg(disk[p].doc)}
  BY <1>3, OneMessage
<1>5. up' \in [Conn -> Seq(UpMsgs)] /\ SentUp(p, {OpMsg(disk[p].doc)})
  BY <1>1, <1>4, SentAdds
<1>6. /\ doc' \in [Client -> SUBSET Edits]
      /\ doc'[p] = doc[p] \cup disk[p].doc /\ OthersKeep(doc, doc', p)
  BY <1>1, <1>2 DEF Typed, LocalTyped, OthersKeep
<1>7. Typed'
  BY <1>1, <1>5, <1>6 DEF Typed, HubTyped, LocalTyped, HarmTyped, harm, server, people, page, history
<1> QED BY <1>1, <1>5, <1>6, <1>7, DownsUnchanged, ServerUnchanged

(* What a room, or a provider, has when its page is loaded again.          *)
Reloaded(p) ==
  \/ /\ Plain
     /\ doc'[p] = disk[p].doc /\ head'[p] = disk[p].head /\ outbox'[p] = disk[p].outbox
     /\ waived' = waived \cup (outbox[p] \ disk[p].outbox)
  \/ /\ ~ Plain /\ UNCHANGED <<head, outbox>>
     /\ doc'[p] = {}
     /\ waived' = waived \cup ((doc[p] \ disk[p].doc) \cap issued[p])

(* A page that is loaded again is a new replica with what storage holds.   *)
LEMMA ReloadEffect ==
  ASSUME Typed, NEW p \in Client, Reload(p)
  PROVE  /\ Typed'
         /\ TasksKept /\ BusKept
         /\ UNCHANGED <<setting, server, cur, awareness, issued, disk, harm>>
         /\ \/ Online(p) /\ Left(p)
            \/ ~ Online(p) /\ UNCHANGED wires /\ UpsKept /\ DownsKept
         /\ Reloaded(p)
         /\ OthersKeep(doc, doc', p) /\ OthersKeep(head, head', p) /\ OthersKeep(outbox, outbox', p)
         /\ denied' = denied \ {p} /\ quit' = quit \ {p}
         /\ presence'[p] = {} /\ OthersKeep(presence, presence', p)
         /\ fresh'[p] = {} /\ OthersKeep(fresh, fresh', p)
         /\ mount'[p] = mount[p] + 1 /\ OthersKeep(mount, mount', p)
<1>1. /\ UNCHANGED <<setting, server, cur, awareness, issued, disk, harm>>
      /\ denied' = denied \ {p} /\ quit' = quit \ {p}
      /\ presence' = [presence EXCEPT ![p] = {}] /\ fresh' = [fresh EXCEPT ![p] = {}]
      /\ mount' = [mount EXCEPT ![p] = mount[p] + 1]
      /\ breaks < MaxBreaks /\ breaks' = breaks + 1
  BY DEF Reload
<1>2. /\ presence' \in [Client -> SUBSET ReplicaId] /\ fresh' \in [Client -> SUBSET ReplicaId]
      /\ mount' \in [Client -> Nat]
      /\ presence'[p] = {} /\ OthersKeep(presence, presence', p)
      /\ fresh'[p] = {} /\ OthersKeep(fresh, fresh', p)
      /\ mount'[p] = mount[p] + 1 /\ OthersKeep(mount, mount', p)
  BY <1>1 DEF Typed, LocalTyped, OthersKeep
<1>3. breaks' \in 0 .. MaxBreaks /\ denied' \subseteq Client /\ quit' \subseteq Client
  BY <1>1, ClientsAssumption DEF Typed, LocalTyped
<1>4. /\ \/ Online(p) /\ Left(p)
         \/ ~ Online(p) /\ UNCHANGED wires /\ UpsKept /\ DownsKept
      /\ up' \in [Conn -> Seq(UpMsgs)] /\ down' \in [Conn -> Seq(DownMsgs)]
      /\ sock' \in [Conn -> {"new", "open", "left", "closed"}]
  <2>1. CASE Online(p)
    <3>1. PICK k \in 0 .. Len(up[Sock(p)]) : Leave(p, k)
      BY <2>1 DEF Reload
    <3> QED BY <2>1, <3>1, LeaveDrops
  <2>2. CASE ~ Online(p)
    <3>1. UNCHANGED wires
      BY <2>2 DEF Reload
    <3>2. UNCHANGED up /\ UNCHANGED down /\ UNCHANGED sock
      BY <3>1 DEF wires
    <3> QED BY <2>2, <3>1, <3>2, UpsUnchanged, DownsUnchanged DEF Typed, HubTyped
  <2> QED BY <2>1, <2>2
<1>5. /\ doc[p] \in SUBSET Edits /\ disk[p] \in [doc : SUBSET Edits, head : Nat, outbox : SUBSET Edits]
      /\ outbox[p] \in SUBSET Edits
  BY DEF Typed, LocalTyped
<1>6. /\ Reloaded(p)
      /\ OthersKeep(doc, doc', p) /\ OthersKeep(head, head', p) /\ OthersKeep(outbox, outbox', p)
      /\ doc' \in [Client -> SUBSET Edits] /\ head' \in [Client -> Nat]
      /\ outbox' \in [Client -> SUBSET Edits]
      /\ waived' \subseteq Edits
  <2>1. CASE Plain
    <3>1. Ready(p)
      BY <2>1 DEF Reload
    <3> QED BY <1>5, <2>1, <3>1 DEF Ready, Reloaded, OthersKeep, Typed, LocalTyped
  <2>2. CASE ~ Plain
    <3>1. Remount(p)
      BY <2>2 DEF Reload
    <3> QED BY <1>5, <2>2, <3>1 DEF Remount, Reloaded, OthersKeep, Typed, LocalTyped
  <2> QED BY <2>1, <2>2
<1>7. HubTyped'
  BY <1>1, <1>4 DEF Typed, HubTyped, server
<1>8. LocalTyped' /\ HarmTyped'
  BY <1>1, <1>2, <1>3, <1>6 DEF Typed, LocalTyped, HarmTyped, harm
<1> QED BY <1>1, <1>2, <1>4, <1>6, <1>7, <1>8, ServerUnchanged DEF Typed

(* p has applied some edits and heard of them, up to a number. *)
Integrated(p, edits, seq) ==
  /\ doc'[p] = doc[p] \cup edits /\ OthersKeep(doc, doc', p)
  /\ head'[p] = (IF Plain THEN Raise(head[p], seq) ELSE head[p]) /\ OthersKeep(head, head', p)
  /\ outbox'[p] = outbox[p] \ edits /\ OthersKeep(outbox, outbox', p)

(* What is integrated is applied and confirmed. *)
LEMMA IntegrateApplies ==
  ASSUME Typed, NEW p \in Client, NEW edits \in SUBSET Edits, NEW seq \in Nat,
         Integrate(p, edits, seq)
  PROVE  /\ doc' \in [Client -> SUBSET Edits] /\ head' \in [Client -> Nat]
         /\ outbox' \in [Client -> SUBSET Edits]
         /\ Integrated(p, edits, seq)
<1>1. Raise(head[p], seq) \in Nat
  BY DEF Raise, Typed, LocalTyped
<1> QED BY <1>1 DEF Integrate, Integrated, OthersKeep, Typed, LocalTyped

(* A welcome is integrated, and what it does not confirm is sent again.    *)
LEMMA OnWelcomeEffect ==
  ASSUME Typed, Numbered, NEW p \in Client, OnWelcome(p)
  PROVE  /\ Typed'
         /\ TasksKept /\ BusKept
         /\ UNCHANGED <<setting, server, issued, harm, sock, people, page, waived>>
         /\ Online(p) /\ Sock(p) \in Conn
         /\ \E msg \in DownMsgs :
              /\ msg.type = "welcome" /\ HeardBy(p, msg)
              /\ msg.ops \in SUBSET Edits /\ msg.head \in Nat
              /\ Integrated(p, msg.ops, msg.head)
              /\ SentUp(p, {OpMsg({e}) : e \in outbox[p] \ msg.ops})
<1> DEFINE msg == Head(down[Sock(p)])
           rest == outbox[p] \ msg.ops
           box == InOrder(rest)
           msgs == [i \in DOMAIN box |-> OpMsg({box[i]})]
<1>1. /\ Hears(p, "welcome") /\ Integrate(p, msg.ops, msg.head) /\ up' = Sent(p, msgs)
      /\ UNCHANGED <<sock, people, page, waived>> /\ UNCHANGED <<setting, server, issued, harm>>
  BY DEF OnWelcome, Hears, harm
<1>2. /\ Online(p) /\ Sock(p) \in Conn /\ msg \in DownMsgs /\ msg.type = "welcome"
      /\ down' \in [Conn -> Seq(DownMsgs)] /\ HeardBy(p, msg)
  BY <1>1, HearsTakesOne
<1>3. msg.ops \in SUBSET Edits /\ msg.head \in Nat
  BY <1>2, FieldFacts
<1>4. rest \in SUBSET Edits /\ \A e, f \in rest : e = f
  BY DEF Typed, LocalTyped, Numbered
<1> HIDE DEF msg
<1>5. /\ doc' \in [Client -> SUBSET Edits] /\ head' \in [Client -> Nat]
      /\ outbox' \in [Client -> SUBSET Edits] /\ Integrated(p, msg.ops, msg.head)
  BY <1>1, <1>3, IntegrateApplies
<1>6. msgs \in Seq(UpMsgs) /\ ToSet(msgs) = {OpMsg({e}) : e \in rest}
  <2> HIDE DEF rest
  <2> QED BY <1>4, InOrderFacts
<1>7. up' \in [Conn -> Seq(UpMsgs)] /\ SentUp(p, {OpMsg({e}) : e \in rest})
  <2> HIDE DEF msgs, rest
  <2> QED BY <1>1, <1>6, SentAdds
<1>8. Typed'
  <2> HIDE DEF msgs
  <2> QED BY <1>1, <1>2, <1>5, <1>7 DEF Typed, HubTyped, LocalTyped, HarmTyped, harm, server, people, page
<1> QED BY <1>1, <1>2, <1>3, <1>5, <1>7, <1>8, ServerUnchanged

(* A stored operation is integrated. *)
LEMMA OnStoredEffect ==
  ASSUME Typed, NEW p \in Client, OnStored(p)
  PROVE  /\ Typed'
         /\ UpsKept /\ TasksKept /\ BusKept
         /\ UNCHANGED <<setting, server, issued, harm, sock, up, people, page, waived>>
         /\ Online(p) /\ Sock(p) \in Conn
         /\ \E msg \in DownMsgs :
              /\ msg.type = "stored" /\ HeardBy(p, msg)
              /\ msg.op \in SUBSET Edits /\ msg.seq \in Nat
              /\ Integrated(p, msg.op, msg.seq)
<1> DEFINE msg == Head(down[Sock(p)])
<1>1. /\ Hears(p, "stored") /\ Integrate(p, msg.op, msg.seq)
      /\ UNCHANGED <<setting, server, issued, harm, sock, up, people, page, waived>>
  BY DEF OnStored, Hears, harm
<1>2. /\ Online(p) /\ Sock(p) \in Conn /\ msg \in DownMsgs /\ msg.type = "stored"
      /\ down' \in [Conn -> Seq(DownMsgs)] /\ HeardBy(p, msg)
  BY <1>1, HearsTakesOne
<1>3. msg.op \in SUBSET Edits /\ msg.seq \in Nat
  BY <1>2, FieldFacts
<1> HIDE DEF msg
<1>4. /\ doc' \in [Client -> SUBSET Edits] /\ head' \in [Client -> Nat]
      /\ outbox' \in [Client -> SUBSET Edits] /\ Integrated(p, msg.op, msg.seq)
  BY <1>1, <1>3, IntegrateApplies
<1>5. Typed'
  BY <1>1, <1>2, <1>4 DEF Typed, HubTyped, LocalTyped, HarmTyped, harm, server, people, page
<1> QED BY <1>1, <1>2, <1>3, <1>4, <1>5, ServerUnchanged, UpsUnchanged

(* A replica that is heard of is shown. *)
LEMMA OnAwarenessMsgEffect ==
  ASSUME Typed, NEW p \in Client, OnAwarenessMsg(p)
  PROVE  /\ Typed'
         /\ UpsKept /\ TasksKept /\ BusKept
         /\ UNCHANGED <<setting, server, issued, harm, sock, up, local, awareness, page, waived>>
         /\ Online(p) /\ Sock(p) \in Conn
         /\ \E r \in ReplicaId :
              /\ HeardBy(p, PeerMsg("awareness", r))
              /\ presence'[p] = presence[p] \cup {r} /\ OthersKeep(presence, presence', p)
              /\ fresh'[p] = fresh[p] \cup {r} /\ OthersKeep(fresh, fresh', p)
<1> DEFINE msg == Head(down[Sock(p)])
           r == msg.replica
<1>1. /\ Hears(p, "awareness")
      /\ presence' = [presence EXCEPT ![p] = presence[p] \cup {r}]
      /\ fresh' = [fresh EXCEPT ![p] = fresh[p] \cup {r}]
      /\ UNCHANGED <<setting, server, issued, harm, sock, up, local, awareness, page, waived>>
  BY DEF OnAwarenessMsg, Hears, harm
<1>2. /\ Online(p) /\ Sock(p) \in Conn /\ msg \in DownMsgs /\ msg.type = "awareness"
      /\ down' \in [Conn -> Seq(DownMsgs)] /\ HeardBy(p, msg)
  BY <1>1, HearsTakesOne
<1>3. r \in ReplicaId /\ msg = PeerMsg("awareness", r)
  BY <1>2, FieldFacts
<1> HIDE DEF msg
<1>4. /\ presence' \in [Client -> SUBSET ReplicaId] /\ fresh' \in [Client -> SUBSET ReplicaId]
      /\ presence'[p] = presence[p] \cup {r} /\ OthersKeep(presence, presence', p)
      /\ fresh'[p] = fresh[p] \cup {r} /\ OthersKeep(fresh, fresh', p)
  BY <1>1, <1>3 DEF Typed, LocalTyped, OthersKeep
<1>5. Typed'
  BY <1>1, <1>2, <1>4 DEF Typed, HubTyped, LocalTyped, HarmTyped, harm, server, local, page
<1>6. HeardBy(p, PeerMsg("awareness", r))
  BY <1>2, <1>3
<1> QED BY <1>1, <1>2, <1>3, <1>4, <1>5, <1>6, ServerUnchanged, UpsUnchanged

(* A replica that left is no longer shown. *)
LEMMA OnLeaveMsgEffect ==
  ASSUME Typed, NEW p \in Client, OnLeaveMsg(p)
  PROVE  /\ Typed'
         /\ UpsKept /\ TasksKept /\ BusKept
         /\ UNCHANGED <<setting, server, issued, harm, sock, up, local, fresh, awareness, page, waived>>
         /\ Online(p) /\ Sock(p) \in Conn
         /\ \E r \in ReplicaId :
              /\ HeardBy(p, PeerMsg("leave", r))
              /\ presence'[p] = presence[p] \ {r} /\ OthersKeep(presence, presence', p)
<1> DEFINE msg == Head(down[Sock(p)])
           r == msg.replica
<1>1. /\ Hears(p, "leave")
      /\ presence' = [presence EXCEPT ![p] = presence[p] \ {r}]
      /\ UNCHANGED <<setting, server, issued, harm, sock, up, local, fresh, awareness, page, waived>>
  BY DEF OnLeaveMsg, Hears, harm
<1>2. /\ Online(p) /\ Sock(p) \in Conn /\ msg \in DownMsgs /\ msg.type = "leave"
      /\ down' \in [Conn -> Seq(DownMsgs)] /\ HeardBy(p, msg)
  BY <1>1, HearsTakesOne
<1>3. r \in ReplicaId /\ msg = PeerMsg("leave", r)
  BY <1>2, FieldFacts
<1> HIDE DEF msg
<1>4. /\ presence' \in [Client -> SUBSET ReplicaId]
      /\ presence'[p] = presence[p] \ {r} /\ OthersKeep(presence, presence', p)
  BY <1>1, <1>3 DEF Typed, LocalTyped, OthersKeep
<1>5. Typed'
  BY <1>1, <1>2, <1>4 DEF Typed, HubTyped, LocalTyped, HarmTyped, harm, server, local, page
<1>6. HeardBy(p, PeerMsg("leave", r))
  BY <1>2, <1>3
<1> QED BY <1>1, <1>2, <1>3, <1>4, <1>5, <1>6, ServerUnchanged, UpsUnchanged

(* A room whose edit was refused drops all it has and joins afresh.        *)
LEMMA OnWriteRefusedEffect ==
  ASSUME Typed, NEW p \in Client, OnWriteRefused(p)
  PROVE  /\ Typed'
         /\ TasksKept /\ BusKept
         /\ UNCHANGED <<setting, server, issued, rebuffed, unjoined, failures, sock, people, cur, mount, disk, quit, breaks>>
         /\ Online(p) /\ Sock(p) \in Conn /\ Plain
         /\ HeardBy(p, ErrorMsg("forbidden-write"))
         /\ denied' = denied \cup {p} /\ waived' = waived \cup outbox[p]
         /\ doc'[p] = {} /\ OthersKeep(doc, doc', p)
         /\ head'[p] = 0 /\ OthersKeep(head, head', p)
         /\ outbox'[p] = {} /\ OthersKeep(outbox, outbox', p)
         /\ missed'[p] = {} /\ OthersKeep(missed, missed', p)
         /\ SentUp(p, {JoinMsg(ReplicaOf(p), 0)})
<1> DEFINE msg == Head(down[Sock(p)])
<1>1. /\ Hears(p, "error") /\ msg.code = "forbidden-write" /\ Plain
      /\ doc' = [doc EXCEPT ![p] = {}] /\ head' = [head EXCEPT ![p] = 0]
      /\ outbox' = [outbox EXCEPT ![p] = {}]
      /\ denied' = denied \cup {p} /\ waived' = waived \cup outbox[p]
      /\ missed' = [missed EXCEPT ![p] = {}]
      /\ up' = Sent(p, <<JoinMsg(ReplicaOf(p), 0)>>)
      /\ UNCHANGED <<setting, server, issued, rebuffed, unjoined, failures, sock, people, cur, mount, disk, quit, breaks>>
  BY DEF OnWriteRefused, Refusal, Hears
<1>2. /\ Online(p) /\ Sock(p) \in Conn /\ msg \in DownMsgs /\ msg.type = "error"
      /\ down' \in [Conn -> Seq(DownMsgs)] /\ HeardBy(p, msg)
  BY <1>1, HearsTakesOne
<1>3. msg = ErrorMsg("forbidden-write")
  BY <1>1, <1>2, FieldFacts
<1> HIDE DEF msg
<1>4. ReplicaOf(p) \in ReplicaId
  BY ReplicaFacts
<1>5. JoinMsg(ReplicaOf(p), 0) \in UpMsgs
  BY <1>4, MessageFacts
<1>6. /\ <<JoinMsg(ReplicaOf(p), 0)>> \in Seq(UpMsgs)
      /\ ToSet(<<JoinMsg(ReplicaOf(p), 0)>>) = {JoinMsg(ReplicaOf(p), 0)}
  BY <1>5, OneMessage
<1>7. up' \in [Conn -> Seq(UpMsgs)] /\ SentUp(p, {JoinMsg(ReplicaOf(p), 0)})
  BY <1>1, <1>6, SentAdds
<1>8. /\ doc' \in [Client -> SUBSET Edits] /\ head' \in [Client -> Nat]
      /\ outbox' \in [Client -> SUBSET Edits]
      /\ doc'[p] = {} /\ OthersKeep(doc, doc', p)
      /\ head'[p] = 0 /\ OthersKeep(head, head', p)
      /\ outbox'[p] = {} /\ OthersKeep(outbox, outbox', p)
      /\ waived' \subseteq Edits /\ denied' \subseteq Client
  BY <1>1 DEF Typed, LocalTyped, OthersKeep
<1>9. missed'[p] = {} /\ OthersKeep(missed, missed', p) /\ missed' \in [Client -> SUBSET Edits]
  BY <1>1 DEF Typed, HarmTyped, OthersKeep
<1>10. Typed'
  BY <1>1, <1>2, <1>7, <1>8, <1>9 DEF Typed, HubTyped, LocalTyped, HarmTyped, server, people
<1> QED BY <1>1, <1>2, <1>3, <1>7, <1>8, <1>9, <1>10, ServerUnchanged

(* A room that may not read leaves for good. *)
LEMMA OnReadRefusedEffect ==
  ASSUME Typed, NEW p \in Client, OnReadRefused(p)
  PROVE  /\ Typed'
         /\ TasksKept /\ BusKept
         /\ UNCHANGED <<setting, server, local, people, cur, mount, disk, breaks, history, harm>>
         /\ Online(p) /\ Sock(p) \in Conn /\ Left(p)
         /\ ErrorMsg("forbidden-read") \in Downs(Sock(p))
         /\ denied' = denied \cup {p} /\ quit' = quit \cup {p}
<1>1. /\ Online(p) /\ down[Sock(p)] # <<>> /\ Head(down[Sock(p)]) = ErrorMsg("forbidden-read")
      /\ denied' = denied \cup {p} /\ quit' = quit \cup {p} /\ Leave(p, Len(up[Sock(p)]))
      /\ UNCHANGED <<setting, server, local, people, cur, mount, disk, breaks, history, harm>>
  BY DEF OnReadRefused
<1>2. Sock(p) \in Conn
  BY <1>1, OnlineFacts
<1>3. up[Sock(p)] \in Seq(UpMsgs) /\ down[Sock(p)] \in Seq(DownMsgs)
  BY <1>2 DEF Typed, HubTyped
<1>4. Len(up[Sock(p)]) \in 0 .. Len(up[Sock(p)])
  BY <1>3
<1>5. /\ up' \in [Conn -> Seq(UpMsgs)] /\ down' \in [Conn -> Seq(DownMsgs)]
      /\ sock' \in [Conn -> {"new", "open", "left", "closed"}] /\ Left(p)
  BY <1>1, <1>4, LeaveDrops
<1>6. ErrorMsg("forbidden-read") \in Downs(Sock(p))
  BY <1>1, <1>3, TailElements DEF Downs
<1>7. Typed'
  BY <1>1, <1>5 DEF Typed, HubTyped, LocalTyped, HarmTyped, harm, server, local, people, history
<1> QED BY <1>1, <1>2, <1>5, <1>6, <1>7, ServerUnchanged

(* Other errors change nothing. *)
LEMMA OnOtherErrorEffect ==
  ASSUME Typed, NEW p \in Client, OnOtherError(p)
  PROVE  /\ Typed'
         /\ UpsKept /\ TasksKept /\ BusKept
         /\ UNCHANGED <<setting, server, issued, harm, sock, up, local, people, page, waived>>
         /\ Online(p) /\ Sock(p) \in Conn
         /\ \E code \in {"none", "forbidden-read", "forbidden-write"} :
              (Plain => code = "none") /\ HeardBy(p, ErrorMsg(code))
<1> DEFINE msg == Head(down[Sock(p)])
<1>1. Hears(p, "error")
  BY DEF OnOtherError
<1>2. /\ Online(p) /\ Sock(p) \in Conn /\ msg \in DownMsgs /\ msg.type = "error"
      /\ down' \in [Conn -> Seq(DownMsgs)] /\ HeardBy(p, msg) /\ (Plain => msg.code = "none")
  BY <1>1, HearsTakesOne DEF OnOtherError
<1>3. msg = ErrorMsg(msg.code) /\ msg.code \in {"none", "forbidden-read", "forbidden-write"}
  BY <1>2, FieldFacts
<1> HIDE DEF msg
<1>4. UNCHANGED <<setting, server, issued, harm, sock, up, local, people, page, waived>>
  BY DEF OnOtherError, Hears, harm
<1>5. Typed'
  BY <1>4, <1>2 DEF Typed, HubTyped, LocalTyped, HarmTyped, harm, server, local, people, page
<1> QED BY <1>4, <1>2, <1>3, <1>5, ServerUnchanged, UpsUnchanged

-----------------------------------------------------------------------------
(* The types and the numbering are kept *)

(* A step of the hub: it leaves the clients alone. *)
ServerOnly == AllHeard /\ UNCHANGED <<local, people, page, history>>

(* A step is one of the actions', or nothing changes. *)
LEMMA StepCases ==
  ASSUME [Next]_vars
  PROVE  \/ /\ ServerOnly
            /\ \/ /\ UNCHANGED harm
                  /\ \/ \E c \in Conn :
                          \/ OnJoin(c) \/ OnOp(c) \/ OnAwareness(c) \/ OnClose(c)
                          \/ \E i \in DOMAIN tasks[c] :
                               \/ JoinAuthorized(c, i) \/ SendWelcome(c, i)
                               \/ OpAuthorized(c, i) \/ AppendOp(c, i) \/ SpreadOp(c, i)
                     \/ \E i \in Instance : FanOut(i)
               \/ \E c \in Conn : \E i \in DOMAIN tasks[c] : HandlerThrows(c, i)
         \/ \E p \in Client :
              \/ Edit(p) \/ SetAwareness(p) \/ Open(p) \/ Save(p) \/ Load(p)
              \/ Break(p) \/ Reload(p)
              \/ OnWelcome(p) \/ OnStored(p) \/ OnAwarenessMsg(p) \/ OnLeaveMsg(p)
              \/ OnWriteRefused(p) \/ OnReadRefused(p) \/ OnOtherError(p)
         \/ UNCHANGED vars
BY DEF Next, ServerStep, HandlerThrows, HubStep, ServerOnly, Handle, Lose, Act

(* The first state is typed. *)
LEMMA TypedInit == Init => Typed /\ Numbered
<1> SUFFICES ASSUME Init PROVE Typed /\ Numbered
  OBVIOUS
<1>1. \A S : <<>> \in Seq(S)
  BY EmptySeq
<1>2. HubTyped
  BY <1>1 DEF Init, HubInit, HubTyped
<1>3. LocalTyped
  BY ConnFacts, ClientsAssumption DEF Init, LocalTyped
<1>4. HarmTyped
  BY DEF Init, HarmTyped
<1>5. Numbered
  <2>1. UNION {issued[p] : p \in Client} = 1 .. 0
    BY DEF Init
  <2> QED BY <2>1 DEF Init, Numbered
<1> QED BY <1>2, <1>3, <1>4, <1>5 DEF Typed

(* A step of the server leaves the clients' types alone. *)
LEMMA ServerTyped ==
  ASSUME Typed, ServerOnly, HubTyped', UNCHANGED harm \/ HarmTyped' PROVE Typed'
BY DEF HarmTyped, harm, ServerOnly, Typed, LocalTyped, local, people, page, history

(* Every step keeps the types. *)
LEMMA TypedStep == Typed /\ Numbered /\ [Next]_vars => Typed'
<1> SUFFICES ASSUME Typed, Numbered, [Next]_vars PROVE Typed'
  OBVIOUS
<1>1. ASSUME ServerOnly, UNCHANGED harm, NEW c \in Conn, OnJoin(c) \/ OnOp(c) \/ OnAwareness(c) \/ OnClose(c)
      PROVE  Typed'
  BY <1>1, ServerTyped, OnJoinEffect, OnOpEffect, OnAwarenessEffect, OnCloseEffect
<1>2. ASSUME ServerOnly, UNCHANGED harm, NEW c \in Conn, NEW i \in DOMAIN tasks[c],
             JoinAuthorized(c, i) \/ SendWelcome(c, i)
      PROVE  Typed'
  BY <1>2, ServerTyped, JoinAuthorizedEffect, SendWelcomeEffect
<1>3. ASSUME ServerOnly, UNCHANGED harm, NEW c \in Conn, NEW i \in DOMAIN tasks[c],
             OpAuthorized(c, i) \/ AppendOp(c, i) \/ SpreadOp(c, i)
      PROVE  Typed'
  BY <1>3, ServerTyped, OpAuthorizedEffect, AppendOpEffect, SpreadOpEffect
<1>4. ASSUME ServerOnly, UNCHANGED harm, NEW i \in Instance, FanOut(i) PROVE Typed'
  BY <1>4, ServerTyped, FanOutEffect
<1>5. ASSUME NEW p \in Client, Edit(p) \/ SetAwareness(p) \/ Open(p) \/ Save(p) \/ Load(p)
      PROVE  Typed'
  BY <1>5, EditEffect, SetAwarenessEffect, OpenEffect, SaveEffect, LoadEffect
<1>6. ASSUME NEW p \in Client, Break(p) \/ Reload(p) PROVE Typed'
  BY <1>6, BreakEffect, ReloadEffect
<1>7. ASSUME NEW p \in Client, OnWelcome(p) \/ OnStored(p) \/ OnAwarenessMsg(p) \/ OnLeaveMsg(p)
      PROVE  Typed'
  BY <1>7, OnWelcomeEffect, OnStoredEffect, OnAwarenessMsgEffect, OnLeaveMsgEffect
<1>8. ASSUME NEW p \in Client, OnWriteRefused(p) \/ OnReadRefused(p) \/ OnOtherError(p)
      PROVE  Typed'
  BY <1>8, OnWriteRefusedEffect, OnReadRefusedEffect, OnOtherErrorEffect
<1>9. ASSUME UNCHANGED vars PROVE Typed'
  BY <1>9 DEF vars, hubVars, wires, server, local, people, page, history, harm,
     Typed, HubTyped, LocalTyped, HarmTyped
<1>10. ASSUME ServerOnly, NEW c \in Conn, NEW i \in DOMAIN tasks[c], HandlerThrows(c, i)
       PROVE  Typed'
  BY <1>10, ServerTyped, HandlerThrowsEffect
<1> QED BY <1>1, <1>2, <1>3, <1>4, <1>5, <1>6, <1>7, <1>8, <1>9, <1>10, StepCases

(* Steps that make no edit keep the numbering. *)
LEMMA NumberedKept ==
  ASSUME Numbered, UNCHANGED issued,
         \A p \in Client : outbox'[p] \cup disk'[p].outbox \subseteq outbox[p] \cup disk[p].outbox
  PROVE  Numbered'
<1>1. \E n \in Nat : UNION {issued'[p] : p \in Client} = 1 .. n
  BY DEF Numbered
<1> QED BY <1>1 DEF Numbered

(* Every step keeps the numbering. *)
LEMMA NumberedStep == Typed /\ Numbered /\ [Next]_vars => Numbered'
<1> SUFFICES ASSUME Typed, Numbered, [Next]_vars PROVE Numbered'
  OBVIOUS
<1>1. CASE ServerOnly
  BY <1>1, NumberedKept DEF ServerOnly, local, page, history
<1>2. ASSUME NEW p \in Client, Edit(p) PROVE Numbered'
  <2>1. PICK e \in Edits :
          /\ \A q \in Client : e \notin issued[q]
          /\ UNION {issued[q] : q \in Client} = 1 .. (e - 1)
          /\ outbox'[p] = (IF Plain THEN outbox[p] \cup {e} ELSE outbox[p])
          /\ OthersKeep(outbox, outbox', p)
          /\ issued'[p] = {e} /\ OthersKeep(issued, issued', p)
    BY <1>2, EditEffect
  <2>2. issued[p] = {} /\ UNCHANGED disk
    BY <1>2, EditEffect DEF page
  <2>3. e \in Nat /\ e >= 1
    <3>1. IsFiniteSet(Client) => Cardinality(Client) \in Nat
      BY FS_CardinalityType
    <3> QED BY <3>1, ClientsAssumption DEF Edits
  <2>4. UNION {issued'[q] : q \in Client} = 1 .. e
    <3>1. \A f : (\E q \in Client : f \in issued'[q]) <=> f = e \/ \E q \in Client : f \in issued[q]
      BY <2>1, <2>2 DEF OthersKeep
    <3>2. \A f : f = e \/ f \in 1 .. (e - 1) <=> f \in 1 .. e
      BY <2>3
    <3> QED BY <2>1, <3>1, <3>2
  <2>5. outbox[p] = {} /\ disk[p].outbox = {}
    BY <2>2 DEF Numbered
  <2>6. \A q \in Client : outbox'[q] \cup disk'[q].outbox \subseteq issued'[q]
    BY <2>1, <2>2, <2>5 DEF Numbered, OthersKeep
  <2>7. \A q \in Client : \A f, g \in issued'[q] : f = g
    BY <2>1 DEF Numbered, OthersKeep
  <2>8. \A q, r \in Client : q # r => issued'[q] \cap issued'[r] = {}
    BY <2>1 DEF Numbered, OthersKeep
  <2> QED BY <2>3, <2>4, <2>6, <2>7, <2>8 DEF Numbered
<1>3. ASSUME NEW p \in Client, SetAwareness(p) \/ Open(p) \/ Load(p) \/ Break(p) PROVE Numbered'
  BY <1>3, NumberedKept, SetAwarenessEffect, OpenEffect, LoadEffect, BreakEffect
  DEF local, page, history
<1>4. ASSUME NEW p \in Client, Save(p) PROVE Numbered'
  BY <1>4, NumberedKept, SaveEffect DEF local, history, OthersKeep
<1>5. ASSUME NEW p \in Client, Reload(p) PROVE Numbered'
  <2>1. /\ UNCHANGED issued /\ Reloaded(p)
        /\ OthersKeep(outbox, outbox', p) /\ UNCHANGED disk
    BY <1>5, ReloadEffect
  <2> QED BY <2>1, NumberedKept DEF Reloaded, OthersKeep
<1>6. ASSUME NEW p \in Client, OnWelcome(p) \/ OnStored(p) PROVE Numbered'
  <2>1. \E edits : /\ outbox'[p] = outbox[p] \ edits /\ OthersKeep(outbox, outbox', p)
                   /\ UNCHANGED <<issued, disk>>
    BY <1>6, OnWelcomeEffect, OnStoredEffect DEF page, Integrated
  <2> QED BY <2>1, NumberedKept DEF OthersKeep
<1>7. ASSUME NEW p \in Client, OnAwarenessMsg(p) \/ OnLeaveMsg(p) \/ OnReadRefused(p) \/ OnOtherError(p)
      PROVE  Numbered'
  BY <1>7, NumberedKept, OnAwarenessMsgEffect, OnLeaveMsgEffect, OnReadRefusedEffect,
     OnOtherErrorEffect
  DEF local, page, history
<1>8. ASSUME NEW p \in Client, OnWriteRefused(p) PROVE Numbered'
  BY <1>8, NumberedKept, OnWriteRefusedEffect DEF OthersKeep
<1>9. CASE UNCHANGED vars
  BY <1>9, NumberedKept DEF vars, local, page, history
<1> QED BY <1>1, <1>2, <1>3, <1>4, <1>5, <1>6, <1>7, <1>8, <1>9, StepCases

-----------------------------------------------------------------------------
(* Sockets: a client's present one is its last, a new one is untouched,    *)
(* and only an open one has something on its way down, one message.        *)

(* A socket that is not opened yet has no queues, no replica, and is in no *)
(* room.                                                                   *)
LEMMA NewFacts ==
  ASSUME Typed, Sockets, NEW c \in Conn, sock[c] = "new"
  PROVE  Ups(c) = {} /\ Tasks(c) = {} /\ bound[c] = NoReplica /\ c \notin room
<1>1. up[c] = <<>> /\ tasks[c] = <<>> /\ bound[c] = NoReplica /\ c \notin room
  BY DEF Sockets
<1> QED BY <1>1 DEF Ups, Tasks, ToSet

(* Nothing is on its way to a socket that is not open. *)
LEMMA DownFacts ==
  ASSUME Typed, Sockets, NEW c \in Conn, sock[c] # "open"
  PROVE  Downs(c) = {}
BY DEF Sockets, Downs, ToSet

(* The clients have read all that came: nothing is on its way down. *)
LEMMA HeardAll ==
  ASSUME Typed, Sockets, AllHeard
  PROVE  \A c \in Conn : down[c] = <<>> /\ Downs(c) = {}
<1> SUFFICES ASSUME NEW c \in Conn PROVE down[c] = <<>> /\ Downs(c) = {}
  OBVIOUS
<1>1. down[c] = <<>>
  BY OpenFacts DEF AllHeard, Sockets
<1> QED BY <1>1 DEF Downs, ToSet

(* Steps that open and leave no socket keep what is said of them.          *)
LEMMA SocketsKept ==
  ASSUME Typed, Sockets, UNCHANGED <<sock, cur>>, quit' \subseteq quit,
         \A c \in Conn : sock[c] = "new" =>
           up'[c] = <<>> /\ tasks'[c] = <<>> /\ bound'[c] = NoReplica /\ c \notin room',
         \A c \in Conn : (sock[c] # "open" => down'[c] = <<>>) /\ Len(down'[c]) <= 1
  PROVE  Sockets'
BY DEF Sockets, Online, Sock

(* When all is heard, what is sent is the only message on its way.         *)
LEMMA OneSent ==
  ASSUME Typed, Sockets, AllHeard, NEW S, NEW msg, SentDown(S, msg)
  PROVE  \A c \in Conn : (sock[c] # "open" => down'[c] = <<>>) /\ Len(down'[c]) <= 1
<1> SUFFICES ASSUME NEW c \in Conn
             PROVE  (sock[c] # "open" => down'[c] = <<>>) /\ Len(down'[c]) <= 1
  OBVIOUS
<1>1. down[c] = <<>> /\ Len(<<>>) = 0
  BY HeardAll
<1>2. c \in S /\ sock[c] = "open" => Len(down'[c]) = Len(down[c]) + 1
  BY DEF SentDown
<1>3. ~ (c \in S /\ sock[c] = "open") => down'[c] = down[c]
  BY DEF SentDown
<1>4. CASE c \in S /\ sock[c] = "open"
  <2>1. Len(down'[c]) = 0 + 1
    BY <1>1, <1>2, <1>4
  <2> QED BY <1>4, <2>1
<1>5. CASE ~ (c \in S /\ sock[c] = "open")
  <2>1. down'[c] = <<>>
    BY <1>1, <1>3, <1>5
  <2> QED BY <1>1, <2>1
<1> QED BY <1>4, <1>5

(* When nothing is sent, no more is on its way. *)
LEMMA NoneSent ==
  ASSUME Typed, Sockets, DownsKept
  PROVE  \A c \in Conn : (sock[c] # "open" => down'[c] = <<>>) /\ Len(down'[c]) <= 1
BY DEF Sockets, DownsKept

(* When a message is heard, less is on its way. *)
LEMMA OneHeard ==
  ASSUME Typed, Sockets, NEW p \in Client, Online(p), NEW msg, HeardBy(p, msg)
  PROVE  \A c \in Conn : (sock[c] # "open" => down'[c] = <<>>) /\ Len(down'[c]) <= 1
<1>1. Len(<<>>) = 0 /\ sock[Sock(p)] = "open"
  BY OnlineFacts
<1> QED BY <1>1 DEF Sockets, HeardBy

(* Of a new socket nothing is read, and none of its tasks goes on. *)
LEMMA NewKept ==
  ASSUME Typed, Sockets
  PROVE  /\ UpsKept \/ (\E p \in Client : \E msgs : SentUp(p, msgs))
              \/ (\E c \in Conn : \E msg : TakenOff(c, msg))
              => \A c \in Conn : sock[c] = "new" => up'[c] = <<>>
         /\ TasksKept
            \/ (\E c \in Conn : sock[c] # "new" /\ \E task : Suspended(c, task))
            \/ (\E c \in Conn : \E old : Finished(c, old) \/ \E new : Resumed(c, old, new))
              => \A c \in Conn : sock[c] = "new" => tasks'[c] = <<>>
<1>1. UpsKept => \A c \in Conn : sock[c] = "new" => up'[c] = <<>>
  BY DEF Sockets, UpsKept
<1>2. ASSUME NEW p \in Client, NEW msgs, SentUp(p, msgs)
      PROVE  \A c \in Conn : sock[c] = "new" => up'[c] = <<>>
  BY <1>2, OnlineFacts DEF Sockets, SentUp
<1>3. ASSUME NEW d \in Conn, NEW msg, TakenOff(d, msg)
      PROVE  \A c \in Conn : sock[c] = "new" => up'[c] = <<>>
  BY <1>3 DEF Sockets, TakenOff
<1>4. TasksKept => \A c \in Conn : sock[c] = "new" => tasks'[c] = <<>>
  BY DEF Sockets, TasksKept
<1>5. ASSUME NEW d \in Conn, sock[d] # "new", NEW task, Suspended(d, task)
      PROVE  \A c \in Conn : sock[c] = "new" => tasks'[c] = <<>>
  BY <1>5 DEF Sockets, Suspended
<1>6. ASSUME NEW d \in Conn, NEW old, Finished(d, old) \/ \E new : Resumed(d, old, new)
      PROVE  \A c \in Conn : sock[c] = "new" => tasks'[c] = <<>>
  <2>1. old \in Tasks(d) /\ \A c \in Conn \ {d} : tasks'[c] = tasks[c]
    BY <1>6 DEF Finished, Resumed
  <2>2. sock[d] # "new"
    BY <2>1, NewFacts
  <2> QED BY <2>1, <2>2 DEF Sockets
<1> QED BY <1>1, <1>2, <1>3, <1>4, <1>5, <1>6

(* At first no socket was opened. *)
LEMMA SocketsInit == Init => Sockets
BY ConnFacts DEF Init, HubInit, Sockets, Online

(* Sockets after p has left its own. *)
LEMMA SocketsLeft ==
  ASSUME Typed, Sockets, NEW p \in Client, Online(p), Left(p), UNCHANGED <<cur, tasks, bound, room>>,
         quit' \subseteq quit \cup {p}
  PROVE  Sockets'
<1>1. Sock(p) \in Conn /\ Sock(p)[1] = p /\ Sock(p)[2] = cur[p] /\ sock[Sock(p)] = "open"
  BY OnlineFacts
<1>2. ~ Online(p)'
  BY <1>1 DEF Left, Online, Sock
<1>3. ASSUME NEW q \in quit' PROVE ~ Online(q)'
  <2>1. CASE q = p
    BY <1>2, <2>1
  <2>2. CASE q # p
    <3>1. q \in quit /\ q \in Client /\ ~ Online(q)
      BY <1>3, <2>2 DEF Sockets, Typed, LocalTyped
    <3>2. cur[q] \in 1 .. MaxConns => Sock(q) \in Conn /\ Sock(q)[1] = q
      BY <3>1, ConnFacts DEF Sock
    <3>3. cur[q] > 0 => cur[q] \in 1 .. MaxConns
      BY <3>1, ConnFacts DEF Typed, LocalTyped
    <3>4. cur[q] > 0 => sock'[Sock(q)] = sock[Sock(q)]
      BY <1>1, <2>2, <3>2, <3>3 DEF Left
    <3> QED BY <3>1, <3>4 DEF Online, Sock
  <2> QED BY <2>1, <2>2
<1>4. \A c \in Conn :
        /\ c[2] > cur'[c[1]] => sock'[c] = "new"
        /\ c[2] # cur'[c[1]] => sock'[c] # "open"
        /\ sock'[c] = "new" =>
             up'[c] = <<>> /\ tasks'[c] = <<>> /\ bound'[c] = NoReplica /\ c \notin room'
        /\ sock'[c] # "open" => down'[c] = <<>>
        /\ Len(down'[c]) <= 1
  <2> SUFFICES ASSUME NEW c \in Conn
               PROVE  /\ c[2] > cur'[c[1]] => sock'[c] = "new"
                      /\ c[2] # cur'[c[1]] => sock'[c] # "open"
                      /\ sock'[c] = "new" => /\ up'[c] = <<>> /\ tasks'[c] = <<>>
                                             /\ bound'[c] = NoReplica /\ c \notin room'
                      /\ sock'[c] # "open" => down'[c] = <<>>
                      /\ Len(down'[c]) <= 1
    OBVIOUS
  <2>1. CASE c = Sock(p)
    <3>1. sock'[c] = "left" /\ down'[c] = <<>> /\ Len(<<>>) = 0
      BY <2>1 DEF Left
    <3>2. c[2] = cur'[c[1]] /\ cur'[c[1]] \in Nat
      BY <1>1, <2>1 DEF Typed, LocalTyped
    <3> QED BY <3>1, <3>2
  <2>2. CASE c # Sock(p)
    BY <2>2 DEF Left, Sockets
  <2> QED BY <2>1, <2>2
<1> QED BY <1>3, <1>4 DEF Sockets

(* Every step keeps what is said of sockets. *)
LEMMA SocketsStep == Typed /\ Numbered /\ Sockets /\ [Next]_vars => Sockets'
<1> SUFFICES ASSUME Typed, Numbered, Sockets, [Next]_vars PROVE Sockets'
  OBVIOUS
<1>a. ASSUME ServerOnly PROVE AllHeard /\ UNCHANGED <<cur, quit>>
  BY <1>a DEF ServerOnly, page
<1>1. ASSUME ServerOnly, NEW c \in Conn, OnJoin(c) PROVE Sockets'
  <2>1. DownsKept /\ UNCHANGED sock
    BY <1>1, OnJoinEffect DEF TakenOff
  <2>2. sock[c] # "new" /\ \A d \in Conn \ {c} : bound'[d] = bound[d] /\ (d \in room' => d \in room)
    <3>1. PICK msg \in JoinMsgs :
            /\ TakenOff(c, msg)
            /\ IF enforce THEN UNCHANGED <<bound, room>> ELSE Entered(c, msg.replica)
      BY <1>1, OnJoinEffect
    <3>2. CASE enforce
      BY <3>1, <3>2 DEF TakenOff
    <3>3. CASE ~ enforce
      BY <3>1, <3>3 DEF TakenOff, Entered
    <3> QED BY <3>2, <3>3
  <2>3. \A d \in Conn : sock[d] = "new" =>
          up'[d] = <<>> /\ tasks'[d] = <<>> /\ bound'[d] = NoReplica /\ d \notin room'
    BY <1>1, <2>2, OnJoinEffect, NewKept, NewFacts
  <2> QED BY <1>1, <1>a, <2>1, <2>3, NoneSent, SocketsKept
<1>2. ASSUME ServerOnly, NEW c \in Conn, NEW i \in DOMAIN tasks[c], JoinAuthorized(c, i) PROVE Sockets'
  <2>1. UNCHANGED sock /\ UpsKept
    BY <1>2, JoinAuthorizedEffect
  <2>2. /\ \E old : Finished(c, old) \/ \E new : Resumed(c, old, new)
        /\ DownsKept \/ SentDown({c}, ErrorMsg("forbidden-read"))
        /\ \A d \in Conn \ {c} : bound'[d] = bound[d] /\ (d \in room' => d \in room)
    BY <1>2, JoinAuthorizedEffect DEF Entered
  <2>3. sock[c] # "new"
    BY <2>2, NewFacts DEF Finished, Resumed
  <2>4. \A d \in Conn : sock[d] = "new" =>
          up'[d] = <<>> /\ tasks'[d] = <<>> /\ bound'[d] = NoReplica /\ d \notin room'
    BY <2>1, <2>2, <2>3, NewKept, NewFacts
  <2> QED BY <1>2, <1>a, <2>1, <2>2, <2>4, NoneSent, OneSent, SocketsKept
<1>3. ASSUME ServerOnly, NEW c \in Conn, NEW i \in DOMAIN tasks[c],
             SendWelcome(c, i) \/ OpAuthorized(c, i) \/ AppendOp(c, i) \/ SpreadOp(c, i)
      PROVE  Sockets'
  <2>1. /\ UNCHANGED sock /\ UpsKept /\ UNCHANGED <<bound, room>>
        /\ \E old : Finished(c, old) \/ \E new : Resumed(c, old, new)
        /\ DownsKept \/ \E S, msg : SentDown(S, msg)
    BY <1>3, SendWelcomeEffect, OpAuthorizedEffect, AppendOpEffect, SpreadOpEffect
  <2>2. \A d \in Conn : sock[d] = "new" =>
          up'[d] = <<>> /\ tasks'[d] = <<>> /\ bound'[d] = NoReplica /\ d \notin room'
    BY <2>1, NewKept, NewFacts
  <2> QED BY <1>3, <1>a, <2>1, <2>2, NoneSent, OneSent, SocketsKept
<1>4. ASSUME ServerOnly, NEW c \in Conn, OnOp(c) \/ OnAwareness(c) PROVE Sockets'
  <2>1. /\ UNCHANGED sock /\ UNCHANGED <<bound, room>> /\ sock[c] # "new"
        /\ TasksKept \/ \E task : Suspended(c, task)
        /\ \E msg : TakenOff(c, msg)
        /\ DownsKept \/ \E S, msg : SentDown(S, msg)
    <3>1. CASE OnOp(c)
      BY <3>1, OnOpEffect DEF TakenOff
    <3>2. CASE OnAwareness(c)
      BY <3>2, OnAwarenessEffect DEF TakenOff
    <3> QED BY <1>4, <3>1, <3>2
  <2>2. \A d \in Conn : sock[d] = "new" =>
          up'[d] = <<>> /\ tasks'[d] = <<>> /\ bound'[d] = NoReplica /\ d \notin room'
    BY <2>1, NewKept, NewFacts
  <2> QED BY <1>4, <1>a, <2>1, <2>2, NoneSent, OneSent, SocketsKept
<1>5. ASSUME ServerOnly, NEW c \in Conn, OnClose(c) PROVE Sockets'
  <2>1. /\ sock[c] = "left" /\ sock'[c] = "closed" /\ \A d \in Conn \ {c} : sock'[d] = sock[d]
        /\ UpsKept /\ TasksKept /\ UNCHANGED bound /\ room' \subseteq room
        /\ DownsKept \/ \E S, msg : SentDown(S, msg)
    BY <1>5, OnCloseEffect
  <2>2. \A d \in Conn : sock[d] = "new" =>
          up'[d] = <<>> /\ tasks'[d] = <<>> /\ bound'[d] = NoReplica /\ d \notin room'
    BY <2>1, NewKept, NewFacts
  <2>3. \A d \in Conn : (sock[d] # "open" => down'[d] = <<>>) /\ Len(down'[d]) <= 1
    BY <1>5, <1>a, <2>1, NoneSent, OneSent
  <2>4. \A d \in Conn : /\ sock'[d] = "new" <=> sock[d] = "new"
                        /\ sock'[d] = "open" <=> sock[d] = "open"
    BY <2>1
  <2>5. \A p \in Client : Online(p)' => Online(p)
    <3> SUFFICES ASSUME NEW p \in Client, Online(p)' PROVE Online(p)
      OBVIOUS
    <3>1. cur[p] > 0 /\ sock'[Sock(p)] = "open"
      BY <1>5, <1>a DEF Online, Sock
    <3>2. cur[p] \in 1 .. MaxConns
      BY <3>1, ConnFacts DEF Typed, LocalTyped
    <3>3. Sock(p) \in Conn
      BY <3>2, ConnFacts DEF Sock
    <3> QED BY <2>4, <3>1, <3>3 DEF Online
  <2>6. \A d \in Conn :
          /\ d[2] > cur'[d[1]] => sock'[d] = "new"
          /\ d[2] # cur'[d[1]] => sock'[d] # "open"
          /\ sock'[d] = "new" =>
               up'[d] = <<>> /\ tasks'[d] = <<>> /\ bound'[d] = NoReplica /\ d \notin room'
          /\ sock'[d] # "open" => down'[d] = <<>>
          /\ Len(down'[d]) <= 1
    BY <1>5, <1>a, <2>2, <2>3, <2>4 DEF Sockets
  <2>7. quit' = quit /\ quit \subseteq Client
    BY <1>5, <1>a DEF Typed, LocalTyped
  <2> QED BY <2>5, <2>6, <2>7 DEF Sockets
<1>6. ASSUME ServerOnly, NEW i \in Instance, FanOut(i) PROVE Sockets'
  <2>1. /\ UNCHANGED sock /\ UNCHANGED <<bound, room>> /\ UpsKept /\ TasksKept
        /\ \E S, msg : SentDown(S, msg)
    BY <1>6, FanOutEffect
  <2>2. \A d \in Conn : sock[d] = "new" =>
          up'[d] = <<>> /\ tasks'[d] = <<>> /\ bound'[d] = NoReplica /\ d \notin room'
    BY <2>1, NewKept, NewFacts
  <2> QED BY <1>6, <1>a, <2>1, <2>2, OneSent, SocketsKept
<1>7. ASSUME NEW p \in Client, Edit(p) \/ SetAwareness(p) \/ Load(p) \/ Save(p) PROVE Sockets'
  <2>1. /\ UNCHANGED <<sock, cur, quit>> /\ UNCHANGED <<bound, room>> /\ DownsKept /\ TasksKept
        /\ UpsKept \/ \E msgs : SentUp(p, msgs)
    BY <1>7, EditEffect, SetAwarenessEffect, LoadEffect, SaveEffect, ServerUnchanged
    DEF page, hubVars, wires
  <2>2. \A d \in Conn : sock[d] = "new" =>
          up'[d] = <<>> /\ tasks'[d] = <<>> /\ bound'[d] = NoReplica /\ d \notin room'
    BY <2>1, NewKept, NewFacts
  <2> QED BY <2>1, <2>2, NoneSent, SocketsKept
<1>8. ASSUME NEW p \in Client, Open(p) PROVE Sockets'
  <2>1. PICK c \in Conn : Opened(p, c)
    BY <1>8, OpenEffect
  <2>2. /\ UNCHANGED <<bound, room, quit>> /\ DownsKept /\ TasksKept /\ ~ Online(p) /\ p \notin quit
    BY <1>8, OpenEffect, ServerUnchanged
  <2>3. \A d \in Conn :
          /\ d[2] > cur'[d[1]] => sock'[d] = "new"
          /\ d[2] # cur'[d[1]] => sock'[d] # "open"
          /\ sock'[d] = "new" =>
               up'[d] = <<>> /\ tasks'[d] = <<>> /\ bound'[d] = NoReplica /\ d \notin room'
          /\ sock'[d] # "open" => down'[d] = <<>>
          /\ Len(down'[d]) <= 1
    <3> SUFFICES ASSUME NEW d \in Conn
                 PROVE  /\ d[2] > cur'[d[1]] => sock'[d] = "new"
                        /\ d[2] # cur'[d[1]] => sock'[d] # "open"
                        /\ sock'[d] = "new" => /\ up'[d] = <<>> /\ tasks'[d] = <<>>
                                               /\ bound'[d] = NoReplica /\ d \notin room'
                        /\ sock'[d] # "open" => down'[d] = <<>>
                        /\ Len(down'[d]) <= 1
      OBVIOUS
    <3>1. CASE d = c
      <4>1. sock'[c] = "open" /\ c[2] = cur'[c[1]] /\ c[2] \in Nat
        BY <2>1, ConnFacts DEF Opened
      <4>2. sock[c] = "new"
        <5>1. c[1] = p /\ c[2] = cur[p] + 1 /\ cur[p] \in Nat
          BY <2>1 DEF Opened, Typed, LocalTyped
        <5> QED BY <5>1 DEF Sockets
      <4>3. Len(down'[c]) <= 1
        BY <2>2 DEF Sockets, DownsKept
      <4> QED BY <3>1, <4>1, <4>3
    <3>2. CASE d # c
      <4>1. sock'[d] = sock[d] /\ up'[d] = up[d]
        BY <2>1, <3>2 DEF Opened
      <4>2. CASE d[1] = p
        <5>1. cur'[p] = cur[p] + 1 /\ cur[p] \in Nat /\ d[2] \in Nat /\ d[2] # cur[p] + 1
          BY <2>1, <3>2, <4>2, ConnFacts DEF Opened, Typed, LocalTyped
        <5>2. sock[d] # "open"
          <6>1. d[2] # cur[p] => sock[d] # "open"
            BY <4>2 DEF Sockets
          <6>2. d[2] = cur[p] => d = Sock(p) /\ cur[p] > 0
            BY <4>2, ConnFacts DEF Sock
          <6> QED BY <6>1, <6>2, <2>2 DEF Online
        <5>3. d[2] > cur[p] + 1 => d[2] > cur[p]
          BY <5>1
        <5> QED BY <4>1, <4>2, <5>1, <5>2, <5>3, <2>2 DEF Sockets, DownsKept, TasksKept
      <4>3. CASE d[1] # p
        <5>1. cur'[d[1]] = cur[d[1]]
          BY <2>1, <4>3, ConnFacts DEF Opened, OthersKeep
        <5> QED BY <4>1, <5>1, <2>2 DEF Sockets, DownsKept, TasksKept
      <4> QED BY <4>2, <4>3
    <3> QED BY <3>1, <3>2
  <2>4. ASSUME NEW q \in quit' PROVE ~ Online(q)'
    <3>1. q \in Client /\ q # p /\ ~ Online(q)
      BY <2>2, <2>4 DEF Sockets, Typed, LocalTyped
    <3>2. cur'[q] = cur[q]
      BY <2>1, <3>1 DEF Opened, OthersKeep
    <3>3. cur[q] > 0 => Sock(q) \in Conn /\ Sock(q)[1] = q
      <4>1. cur[q] > 0 => cur[q] \in 1 .. MaxConns
        BY <3>1, ConnFacts DEF Typed, LocalTyped
      <4> QED BY <3>1, <4>1, ConnFacts DEF Sock
    <3>4. cur[q] > 0 => sock'[Sock(q)] = sock[Sock(q)]
      BY <2>1, <3>1, <3>3 DEF Opened
    <3> QED BY <3>1, <3>2, <3>4 DEF Online, Sock
  <2> QED BY <2>3, <2>4 DEF Sockets
<1>9. ASSUME NEW p \in Client, Break(p) \/ OnReadRefused(p) PROVE Sockets'
  <2>1. /\ Online(p) /\ Left(p) /\ UNCHANGED <<cur, tasks, bound, room>>
        /\ quit' \subseteq quit \cup {p}
    BY <1>9, BreakEffect, OnReadRefusedEffect, ServerUnchanged
  <2> QED BY <2>1, SocketsLeft
<1>10. ASSUME NEW p \in Client, Reload(p) PROVE Sockets'
  <2>1. /\ UNCHANGED <<cur, tasks, bound, room>> /\ quit' \subseteq quit /\ quit' \subseteq quit \cup {p}
    BY <1>10, ReloadEffect, ServerUnchanged
  <2>2. CASE Online(p)
    <3>1. Left(p)
      BY <1>10, <2>2, ReloadEffect
    <3> QED BY <2>1, <2>2, <3>1, SocketsLeft
  <2>3. CASE ~ Online(p)
    <3>1. UNCHANGED wires /\ DownsKept /\ UpsKept /\ TasksKept
      BY <1>10, <2>3, ReloadEffect
    <3>2. \A d \in Conn : sock[d] = "new" =>
            up'[d] = <<>> /\ tasks'[d] = <<>> /\ bound'[d] = NoReplica /\ d \notin room'
      BY <2>1, <3>1, NewKept, NewFacts
    <3> QED BY <2>1, <3>1, <3>2, NoneSent, SocketsKept DEF wires
  <2> QED BY <2>2, <2>3
<1>11. ASSUME NEW p \in Client,
              \/ OnWelcome(p) \/ OnStored(p) \/ OnAwarenessMsg(p) \/ OnLeaveMsg(p)
              \/ OnWriteRefused(p) \/ OnOtherError(p)
       PROVE  Sockets'
  <2>1. /\ UNCHANGED <<sock, cur, quit>> /\ UNCHANGED <<bound, room>> /\ TasksKept
        /\ UpsKept \/ \E msgs : SentUp(p, msgs)
        /\ Online(p) /\ \E msg : HeardBy(p, msg)
    BY <1>11, OnWelcomeEffect, OnStoredEffect, OnAwarenessMsgEffect, OnLeaveMsgEffect,
       OnWriteRefusedEffect, OnOtherErrorEffect, ServerUnchanged
    DEF page
  <2>2. \A d \in Conn : sock[d] = "new" =>
          up'[d] = <<>> /\ tasks'[d] = <<>> /\ bound'[d] = NoReplica /\ d \notin room'
    BY <2>1, NewKept, NewFacts
  <2> QED BY <2>1, <2>2, OneHeard, SocketsKept
<1>12. ASSUME ServerOnly, NEW c \in Conn, NEW i \in DOMAIN tasks[c], HandlerThrows(c, i)
       PROVE  Sockets'
  <2>1. /\ UNCHANGED sock /\ UpsKept /\ UNCHANGED <<bound, room>>
        /\ \E old : Finished(c, old)
        /\ SentDown({c}, ErrorMsg("none"))
    BY <1>12, HandlerThrowsEffect
  <2>2. \A d \in Conn : sock[d] = "new" =>
          up'[d] = <<>> /\ tasks'[d] = <<>> /\ bound'[d] = NoReplica /\ d \notin room'
    BY <2>1, NewKept, NewFacts
  <2> QED BY <1>12, <1>a, <2>1, <2>2, OneSent, SocketsKept
<1>13. CASE UNCHANGED vars
  BY <1>13 DEF vars, hubVars, wires, server, page, Sockets, Online, Sock
<1> QED BY <1>1, <1>2, <1>3, <1>4, <1>5, <1>6, <1>7, <1>8, <1>9, <1>10, <1>11, <1>12, <1>13, StepCases

-----------------------------------------------------------------------------
(* Joins and replicas *)

(* No join is asked for or answered; none is asked for. *)
AskedKept == \A d \in Conn : Asked(d)' = Asked(d)
AskedOnly == \A d \in Conn : Asked(d)' \subseteq Asked(d)

(* A join that was asked for is on its way, or its handler waits.          *)
LEMMA AskedMembers ==
  \A c, m : m \in Asked(c) <=>
    \/ m \in Ups(c) /\ m.type = "join"
    \/ \E t \in Tasks(c) : t.pc \in Joining /\ t.msg = m
BY DEF Asked

(* What is on its way, or waits, is typed. *)
LEMMA AskedFacts ==
  ASSUME Typed, NEW c \in Conn
  PROVE  /\ Ups(c) \subseteq UpMsgs /\ Downs(c) \subseteq DownMsgs /\ Tasks(c) \subseteq Tasks1
         /\ Asked(c) \subseteq JoinMsgs
         /\ \A m \in Asked(c) : m.replica \in ReplicaId /\ m.since \in Nat /\ m.type = "join"
<1>1. Ups(c) \subseteq UpMsgs /\ Downs(c) \subseteq DownMsgs /\ Tasks(c) \subseteq Tasks1
  BY DEF Ups, Downs, Tasks, ToSet, Typed, HubTyped
<1>2. Asked(c) \subseteq JoinMsgs
  <2> SUFFICES ASSUME NEW m \in Asked(c) PROVE m \in JoinMsgs
    OBVIOUS
  <2>1. CASE m \in Ups(c) /\ m.type = "join"
    BY <1>1, <2>1, FieldFacts
  <2>2. ASSUME NEW t \in Tasks(c), t.pc \in Joining, t.msg = m PROVE m \in JoinMsgs
    <3>1. t \in Tasks1 /\ t.pc \in {"authorize join", "welcome"}
      BY <1>1, <2>2 DEF Joining
    <3> QED BY <2>2, <3>1, FieldFacts
  <2> QED BY <2>1, <2>2, AskedMembers
<1> QED BY <1>1, <1>2 DEF JoinMsgs

(* The kinds of messages and tasks are distinct. *)
LEMMA KindFacts ==
  /\ Joining = {"authorize join", "welcome"}
  /\ \A e : OpMsg(e).type # "join"
  /\ AwarenessMsg.type # "join"
BY DEF Joining, OpMsg, AwarenessMsg

(* What is asked for is in the queues. *)
LEMMA AskedByQueues ==
  /\ UpsKept /\ TasksKept => AskedKept
  /\ \A p \in Client : \A msgs :
       TasksKept /\ SentUp(p, msgs) /\ (\A m \in msgs : m.type # "join") => AskedKept
  /\ \A p \in Client : TasksKept /\ Left(p) => AskedOnly
<1>1. UpsKept /\ TasksKept => AskedKept
  BY DEF UpsKept, TasksKept, AskedKept, Asked
<1>2. ASSUME NEW p \in Client, NEW msgs,
             TasksKept, SentUp(p, msgs), \A m \in msgs : m.type # "join"
      PROVE  AskedKept
  <2> SUFFICES ASSUME NEW d \in Conn PROVE Asked(d)' = Asked(d)
    BY DEF AskedKept
  <2>1. Tasks(d)' = Tasks(d) /\ \A m : m.type = "join" => (m \in Ups(d)' <=> m \in Ups(d))
    BY <1>2 DEF TasksKept, SentUp
  <2> QED BY <2>1 DEF Asked
<1>3. ASSUME NEW p \in Client, TasksKept, Left(p)
      PROVE  AskedOnly
  <2> SUFFICES ASSUME NEW d \in Conn PROVE Asked(d)' \subseteq Asked(d)
    BY DEF AskedOnly
  <2>1. Tasks(d)' = Tasks(d) /\ Ups(d)' \subseteq Ups(d)
    BY <1>3 DEF TasksKept, Left
  <2> QED BY <2>1 DEF Asked
<1> QED BY <1>1, <1>2, <1>3

(* Reading a join does not answer it. *)
LEMMA AskedOnJoin ==
  ASSUME Typed, NEW c \in Conn, OnJoin(c)
  PROVE  AskedKept
<1>1. PICK msg \in JoinMsgs, task \in JoinTasks :
        /\ TakenOff(c, msg) /\ msg.type = "join" /\ Suspended(c, task) /\ task.msg = msg
        /\ task.pc = IF enforce THEN "authorize join" ELSE "welcome"
  BY OnJoinEffect
<1>2. task.pc \in Joining
  BY <1>1 DEF Joining
<1> SUFFICES ASSUME NEW d \in Conn PROVE Asked(d)' = Asked(d)
  BY DEF AskedKept
<1>3. CASE d # c
  <2>1. Ups(d)' = Ups(d) /\ Tasks(d)' = Tasks(d)
    BY <1>1, <1>3 DEF TakenOff, Suspended
  <2> QED BY <2>1 DEF Asked
<1>4. CASE d = c
  <2>1. Ups(d) = {msg} \cup Ups(d)' /\ Tasks(d)' = Tasks(d) \cup {task}
    BY <1>1, <1>4 DEF TakenOff, Suspended
  <2> QED BY <1>1, <1>2, <2>1 DEF Asked
<1> QED BY <1>3, <1>4

(* Reading an operation, or a cursor, answers no join. *)
LEMMA AskedOnOp ==
  ASSUME Typed, NEW c \in Conn, OnOp(c) \/ OnAwareness(c)
  PROVE  AskedKept
<1>1. /\ \E msg : TakenOff(c, msg) /\ msg.type # "join"
      /\ TasksKept \/ \E task : Suspended(c, task) /\ task.pc \notin Joining
  <2>1. CASE OnOp(c)
    <3>1. PICK msg \in UpMsgs :
            /\ TakenOff(c, msg) /\ msg.type = "op"
            /\ \/ TasksKept
               \/ \E task \in OpTasks : Suspended(c, task)
      BY <2>1, OnOpEffect
    <3>2. \A task \in OpTasks : task.pc \notin Joining
      BY DEF OpTasks, Joining
    <3> QED BY <3>1, <3>2
  <2>2. CASE OnAwareness(c)
    BY <2>2, OnAwarenessEffect
  <2> QED BY <2>1, <2>2
<1>2. PICK msg : TakenOff(c, msg) /\ msg.type # "join"
  BY <1>1
<1> SUFFICES ASSUME NEW d \in Conn PROVE Asked(d)' = Asked(d)
  BY DEF AskedKept
<1>3. \A m : m.type = "join" => (m \in Ups(d)' <=> m \in Ups(d))
  BY <1>2 DEF TakenOff
<1>4. \A t : t.pc \in Joining => (t \in Tasks(d)' <=> t \in Tasks(d))
  BY <1>1 DEF TasksKept, Suspended
<1> QED BY <1>3, <1>4 DEF Asked

(* The handlers of operations answer no join. *)
LEMMA AskedOnTask ==
  ASSUME Typed, NEW c \in Conn, NEW i \in DOMAIN tasks[c],
         OpAuthorized(c, i) \/ AppendOp(c, i) \/ SpreadOp(c, i)
  PROVE  AskedKept
<1>1. UpsKept
  BY OpAuthorizedEffect, AppendOpEffect, SpreadOpEffect
<1>2. \E old : /\ old.pc \notin Joining
               /\ \/ Finished(c, old)
                  \/ \E new : new.pc \notin Joining /\ Resumed(c, old, new)
  <2>1. CASE OpAuthorized(c, i)
    BY <2>1, OpAuthorizedEffect DEF Joining
  <2>2. CASE AppendOp(c, i)
    BY <2>2, AppendOpEffect DEF Joining
  <2>3. CASE SpreadOp(c, i)
    BY <2>3, SpreadOpEffect DEF Joining
  <2> QED BY <2>1, <2>2, <2>3
<1> SUFFICES ASSUME NEW d \in Conn PROVE Asked(d)' = Asked(d)
  BY DEF AskedKept
<1>3. \A t : t.pc \in Joining => (t \in Tasks(d)' <=> t \in Tasks(d))
  BY <1>2 DEF Resumed, Finished
<1> QED BY <1>1, <1>3 DEF Asked, UpsKept

(* The handlers of joins ask for nothing. *)
LEMMA AskedOnAnswer ==
  ASSUME Typed, NEW c \in Conn, NEW i \in DOMAIN tasks[c],
         JoinAuthorized(c, i) \/ SendWelcome(c, i) \/ HandlerThrows(c, i)
  PROVE  AskedOnly
<1>1. UpsKept
  BY JoinAuthorizedEffect, SendWelcomeEffect, HandlerThrowsEffect
<1>2. \/ \E old : Finished(c, old)
      \/ \E old, new : old.pc \in Joining /\ new.msg = old.msg /\ Resumed(c, old, new)
  BY JoinAuthorizedEffect, SendWelcomeEffect, HandlerThrowsEffect DEF Joining
<1> SUFFICES ASSUME NEW d \in Conn PROVE Asked(d)' \subseteq Asked(d)
  BY DEF AskedOnly
<1>3. \A t \in Tasks(d)' : t.pc \in Joining => \E s \in Tasks(d) : s.pc \in Joining /\ s.msg = t.msg
  <2>1. CASE d # c
    BY <1>2, <2>1 DEF Resumed, Finished
  <2>2. CASE d = c
    BY <1>2, <2>2 DEF Resumed, Finished
  <2> QED BY <2>1, <2>2
<1> QED BY <1>1, <1>3 DEF Asked, UpsKept

(* A socket that opens asks for one join. *)
LEMMA AskedOnOpen ==
  ASSUME Typed, Sockets, NEW p \in Client, Open(p)
  PROVE  \E c \in Conn : /\ Opened(p, c) /\ sock[c] = "new" /\ Asked(c) = {} /\ Asked(c)' = {HelloJoin(p)}
                         /\ \A d \in Conn \ {c} : Asked(d)' = Asked(d)
<1>1. PICK c \in Conn : Opened(p, c)
  BY OpenEffect
<1>2. TasksKept
  BY OpenEffect
<1>3. c[1] = p /\ c[2] = cur[p] + 1 /\ cur[p] \in Nat
  BY <1>1 DEF Opened, Typed, LocalTyped
<1>4. sock[c] = "new"
  BY <1>3 DEF Sockets
<1>5. Ups(c) = {} /\ Tasks(c) = {}
  BY <1>4, NewFacts
<1>6. Asked(c) = {}
  BY <1>5 DEF Asked
<1>7. HelloJoin(p).type = "join"
  BY HelloFacts DEF JoinMsgs
<1>8. \A m : m \in Ups(c)' /\ m.type = "join" <=> m = HelloJoin(p)
  BY <1>1, <1>7, KindFacts DEF Opened
<1>9. Tasks(c)' = {}
  BY <1>2, <1>5 DEF TasksKept
<1>10. Asked(c)' = {HelloJoin(p)}
  BY <1>8, <1>9 DEF Asked
<1>11. \A d \in Conn \ {c} : Asked(d)' = Asked(d)
  <2> SUFFICES ASSUME NEW d \in Conn \ {c} PROVE Asked(d)' = Asked(d)
    OBVIOUS
  <2>1. Ups(d)' = Ups(d) /\ Tasks(d)' = Tasks(d)
    BY <1>1, <1>2 DEF Opened, TasksKept
  <2> QED BY <2>1 DEF Asked
<1> QED BY <1>1, <1>4, <1>6, <1>10, <1>11

(* A room whose edit was refused asks for one more. *)
LEMMA AskedOnRefusal ==
  ASSUME Typed, NEW p \in Client, OnWriteRefused(p)
  PROVE  \A d \in Conn :
           /\ d = Sock(p) => Asked(d)' = Asked(d) \cup {JoinMsg(ReplicaOf(p), 0)}
           /\ d # Sock(p) => Asked(d)' = Asked(d)
<1>1. TasksKept /\ SentUp(p, {JoinMsg(ReplicaOf(p), 0)}) /\ Online(p)
  BY OnWriteRefusedEffect
<1>2. JoinMsg(ReplicaOf(p), 0).type = "join"
  BY DEF JoinMsg
<1> SUFFICES ASSUME NEW d \in Conn
             PROVE  /\ d = Sock(p) => Asked(d)' = Asked(d) \cup {JoinMsg(ReplicaOf(p), 0)}
                    /\ d # Sock(p) => Asked(d)' = Asked(d)
  OBVIOUS
<1>3. Tasks(d)' = Tasks(d)
  BY <1>1 DEF TasksKept
<1>4. CASE d = Sock(p)
  <2>1. Ups(d)' = Ups(d) \cup {JoinMsg(ReplicaOf(p), 0)}
    BY <1>1, <1>4 DEF SentUp
  <2>2. Asked(d)' = Asked(d) \cup {JoinMsg(ReplicaOf(p), 0)}
    BY <1>2, <1>3, <2>1 DEF Asked
  <2> QED BY <1>4, <2>2
<1>5. CASE d # Sock(p)
  <2>1. Ups(d)' = Ups(d)
    BY <1>1, <1>5 DEF SentUp
  <2> QED BY <1>3, <1>5, <2>1 DEF Asked
<1> QED BY <1>4, <1>5

(* Only a new socket, and a room whose write was refused, ask for more. *)
LEMMA AskedStep ==
  ASSUME Typed, Numbered, Sockets, [Next]_vars
  PROVE  \/ AskedOnly
         \/ \E p \in Client : Open(p) \/ OnWriteRefused(p)
<1>0. AskedKept => AskedOnly
  BY DEF AskedKept, AskedOnly
<1>1. ASSUME NEW c \in Conn, OnJoin(c) \/ OnOp(c) \/ OnAwareness(c) PROVE AskedOnly
  BY <1>0, <1>1, AskedOnJoin, AskedOnOp
<1>2. ASSUME NEW c \in Conn, OnClose(c) PROVE AskedOnly
  BY <1>0, <1>2, OnCloseEffect, AskedByQueues
<1>3. ASSUME NEW c \in Conn, NEW i \in DOMAIN tasks[c],
             \/ JoinAuthorized(c, i) \/ SendWelcome(c, i)
             \/ OpAuthorized(c, i) \/ AppendOp(c, i) \/ SpreadOp(c, i) \/ HandlerThrows(c, i)
      PROVE  AskedOnly
  BY <1>0, <1>3, AskedOnAnswer, AskedOnTask
<1>4. ASSUME NEW i \in Instance, FanOut(i) PROVE AskedOnly
  BY <1>0, <1>4, FanOutEffect, AskedByQueues
<1>5. ASSUME NEW p \in Client, Edit(p) \/ SetAwareness(p) \/ Load(p) PROVE AskedOnly
  <2>1. TasksKept /\ \E m : SentUp(p, {m}) /\ m.type # "join"
    <3>1. CASE Edit(p)
      <4>1. PICK e \in Edits : SentUp(p, {OpMsg({e})})
        BY <3>1, EditEffect
      <4> QED BY <3>1, <4>1, EditEffect, KindFacts
    <3>2. CASE SetAwareness(p)
      BY <3>2, SetAwarenessEffect, KindFacts
    <3>3. CASE Load(p)
      BY <3>3, LoadEffect, KindFacts
    <3> QED BY <1>5, <3>1, <3>2, <3>3
  <2>2. PICK m : SentUp(p, {m}) /\ m.type # "join"
    BY <2>1
  <2>3. \A n \in {m} : n.type # "join"
    BY <2>2
  <2> QED BY <1>0, <2>1, <2>2, <2>3, AskedByQueues
<1>6. ASSUME NEW p \in Client,
             \/ Save(p) \/ OnStored(p) \/ OnAwarenessMsg(p) \/ OnLeaveMsg(p) \/ OnOtherError(p)
      PROVE  AskedOnly
  BY <1>0, <1>6, SaveEffect, OnStoredEffect, OnAwarenessMsgEffect, OnLeaveMsgEffect,
     OnOtherErrorEffect, AskedByQueues
<1>7. ASSUME NEW p \in Client, Break(p) \/ Reload(p) \/ OnReadRefused(p) PROVE AskedOnly
  BY <1>0, <1>7, BreakEffect, ReloadEffect, OnReadRefusedEffect, AskedByQueues
<1>8. ASSUME NEW p \in Client, OnWelcome(p) PROVE AskedOnly
  <2>1. TasksKept /\ \E msgs : SentUp(p, msgs) /\ \A m \in msgs : m.type # "join"
    <3>1. PICK msg \in DownMsgs : SentUp(p, {OpMsg({e}) : e \in outbox[p] \ msg.ops})
      BY <1>8, OnWelcomeEffect
    <3>2. \A m \in {OpMsg({e}) : e \in outbox[p] \ msg.ops} : m.type # "join"
      BY KindFacts
    <3> QED BY <1>8, <3>1, <3>2, OnWelcomeEffect
  <2> QED BY <1>0, <2>1, AskedByQueues
<1>9. CASE UNCHANGED vars
  <2>1. UNCHANGED up /\ UNCHANGED tasks
    BY <1>9 DEF vars, hubVars, wires, server
  <2> QED BY <1>0, <2>1, UpsUnchanged, TasksUnchanged, AskedByQueues
<1> QED BY <1>1, <1>2, <1>3, <1>4, <1>5, <1>6, <1>7, <1>8, <1>9, StepCases

(* An authorizer lets only those with a role in. *)
Admits(c) == enforce => role[c[1]] # "none"

(* A socket that is let in is bound to a replica it asked to be. *)
LEMMA BoundStep ==
  ASSUME Typed, Numbered, [Next]_vars
  PROVE  \A c \in Conn :
           \/ bound'[c] = bound[c] /\ (c \in room' => c \in room)
           \/ bound'[c] \in {m.replica : m \in Asked(c)} /\ Admits(c)
<1> DEFINE B == \A c \in Conn :
                  \/ bound'[c] = bound[c] /\ (c \in room' => c \in room)
                  \/ bound'[c] \in {m.replica : m \in Asked(c)} /\ Admits(c)
<1>1. ASSUME UNCHANGED <<bound, room>> PROVE B
  BY <1>1
<1>2. ASSUME NEW c \in Conn, NEW m \in Asked(c), Entered(c, m.replica), Admits(c) PROVE B
  BY <1>2 DEF Entered
<1> HIDE DEF B
<1>3. ASSUME NEW c \in Conn, OnJoin(c) PROVE B
  <2>1. PICK msg \in JoinMsgs :
          /\ TakenOff(c, msg) /\ msg.type = "join"
          /\ UNCHANGED <<bound, room>> \/ (Admits(c) /\ Entered(c, msg.replica))
    BY <1>3, OnJoinEffect DEF Admits
  <2>2. msg \in Asked(c)
    BY <2>1, AskedMembers DEF TakenOff
  <2> QED BY <1>1, <1>2, <2>1, <2>2
<1>4. ASSUME NEW c \in Conn, NEW i \in DOMAIN tasks[c], JoinAuthorized(c, i) PROVE B
  <2>1. PICK old \in JoinTasks :
          /\ old.pc = "authorize join" /\ old \in Tasks(c)
          /\ UNCHANGED <<bound, room>> \/ (Admits(c) /\ Entered(c, old.msg.replica))
    BY <1>4, JoinAuthorizedEffect DEF Admits
  <2>2. old.msg \in Asked(c)
    BY <2>1, AskedMembers DEF Joining
  <2> QED BY <1>1, <1>2, <2>1, <2>2
<1>5. ASSUME NEW c \in Conn, NEW i \in DOMAIN tasks[c],
             \/ SendWelcome(c, i) \/ OpAuthorized(c, i) \/ AppendOp(c, i) \/ SpreadOp(c, i)
             \/ HandlerThrows(c, i)
      PROVE  B
  BY <1>1, <1>5, SendWelcomeEffect, OpAuthorizedEffect, AppendOpEffect, SpreadOpEffect,
     HandlerThrowsEffect
<1>6. ASSUME NEW c \in Conn, OnOp(c) \/ OnAwareness(c) PROVE B
  BY <1>1, <1>6, OnOpEffect, OnAwarenessEffect
<1>7. ASSUME NEW c \in Conn, OnClose(c) PROVE B
  BY <1>7, OnCloseEffect DEF B
<1>8. ASSUME NEW i \in Instance, FanOut(i) PROVE B
  BY <1>1, <1>8, FanOutEffect
<1>9. ASSUME NEW p \in Client,
             \/ Edit(p) \/ SetAwareness(p) \/ Open(p) \/ Save(p) \/ Load(p)
             \/ Break(p) \/ Reload(p)
      PROVE  B
  BY <1>1, <1>9, EditEffect, SetAwarenessEffect, OpenEffect, SaveEffect, LoadEffect,
     BreakEffect, ReloadEffect, ServerUnchanged
  DEF hubVars
<1>10. ASSUME NEW p \in Client,
              \/ OnWelcome(p) \/ OnStored(p) \/ OnAwarenessMsg(p) \/ OnLeaveMsg(p)
              \/ OnWriteRefused(p) \/ OnReadRefused(p) \/ OnOtherError(p)
       PROVE  B
  BY <1>1, <1>10, OnWelcomeEffect, OnStoredEffect, OnAwarenessMsgEffect, OnLeaveMsgEffect,
     OnWriteRefusedEffect, OnReadRefusedEffect, OnOtherErrorEffect, ServerUnchanged
<1>11. ASSUME UNCHANGED vars PROVE B
  BY <1>1, <1>11 DEF vars, hubVars, server
<1>12. B
  BY <1>3, <1>4, <1>5, <1>6, <1>7, <1>8, <1>9, <1>10, <1>11, StepCases
<1> QED BY <1>12 DEF B

(* An open socket was open before, and its page is the same, or it is new. *)
LEMMA OpenStep ==
  ASSUME Typed, Numbered, Sockets, [Next]_vars
  PROVE  \A c \in Conn : sock'[c] = "open" =>
           \/ sock[c] = "open" /\ mount'[c[1]] = mount[c[1]] /\ cur'[c[1]] = cur[c[1]]
           \/ \E p \in Client : Open(p) /\ Opened(p, c)
<1> SUFFICES ASSUME NEW c \in Conn, sock'[c] = "open"
             PROVE  \/ sock[c] = "open" /\ mount'[c[1]] = mount[c[1]] /\ cur'[c[1]] = cur[c[1]]
                    \/ \E p \in Client : Open(p) /\ Opened(p, c)
  OBVIOUS
<1> DEFINE B == \/ sock[c] = "open" /\ mount'[c[1]] = mount[c[1]] /\ cur'[c[1]] = cur[c[1]]
                \/ \E p \in Client : Open(p) /\ Opened(p, c)
<1>1. ASSUME UNCHANGED sock, UNCHANGED <<mount, cur>> PROVE B
  BY <1>1
<1>2. ASSUME NEW p \in Client, Online(p), Left(p), OthersKeep(mount, mount', p), UNCHANGED cur PROVE B
  <2>1. c # Sock(p) /\ sock[c] = "open"
    BY <1>2 DEF Left
  <2>2. c[1] # p /\ c[1] \in Client
    BY <2>1, OpenFacts
  <2> QED BY <1>2, <2>1, <2>2 DEF OthersKeep
<1> HIDE DEF B
<1>3. ASSUME ServerOnly PROVE UNCHANGED <<mount, cur>>
  BY <1>3 DEF ServerOnly, page
<1>4. ASSUME ServerOnly, NEW d \in Conn, OnJoin(d) \/ OnOp(d) \/ OnAwareness(d) PROVE B
  <2>1. UNCHANGED sock
    BY <1>4, OnJoinEffect, OnOpEffect, OnAwarenessEffect DEF TakenOff
  <2> QED BY <1>1, <1>3, <1>4, <2>1
<1>5. ASSUME ServerOnly, NEW d \in Conn, OnClose(d) PROVE B
  <2>1. sock[c] = "open"
    BY <1>5, OnCloseEffect
  <2> QED BY <1>3, <1>5, <2>1 DEF B
<1>6. ASSUME ServerOnly, NEW d \in Conn, NEW i \in DOMAIN tasks[d],
             \/ JoinAuthorized(d, i) \/ SendWelcome(d, i)
             \/ OpAuthorized(d, i) \/ AppendOp(d, i) \/ SpreadOp(d, i) \/ HandlerThrows(d, i)
      PROVE  B
  <2>1. UNCHANGED sock
    BY <1>6, JoinAuthorizedEffect, SendWelcomeEffect, OpAuthorizedEffect, AppendOpEffect, SpreadOpEffect,
       HandlerThrowsEffect
  <2> QED BY <1>1, <1>3, <1>6, <2>1
<1>7. ASSUME ServerOnly, NEW i \in Instance, FanOut(i) PROVE B
  BY <1>1, <1>3, <1>7, FanOutEffect
<1>8. ASSUME NEW p \in Client, Edit(p) \/ SetAwareness(p) \/ Save(p) \/ Load(p) PROVE B
  BY <1>1, <1>8, EditEffect, SetAwarenessEffect, SaveEffect, LoadEffect DEF page, hubVars, wires
<1>9. ASSUME NEW p \in Client, Open(p) PROVE B
  <2>1. PICK d \in Conn : Opened(p, d)
    BY <1>9, OpenEffect
  <2>2. CASE c = d
    BY <1>9, <2>1, <2>2 DEF B
  <2>3. CASE c # d
    <3>1. sock[c] = "open" /\ UNCHANGED mount /\ ~ Online(p)
      BY <1>9, <2>1, <2>3, OpenEffect DEF Opened
    <3>2. c[1] # p /\ c[1] \in Client
      BY <3>1, OpenFacts
    <3>3. cur'[c[1]] = cur[c[1]]
      BY <2>1, <3>2 DEF Opened, OthersKeep
    <3> QED BY <3>1, <3>3 DEF B
  <2> QED BY <2>2, <2>3
<1>10. ASSUME NEW p \in Client, Break(p) \/ OnReadRefused(p) PROVE B
  <2>1. Online(p) /\ Left(p) /\ UNCHANGED <<mount, cur>>
    BY <1>10, BreakEffect, OnReadRefusedEffect
  <2> QED BY <1>2, <2>1 DEF OthersKeep
<1>11. ASSUME NEW p \in Client, Reload(p) PROVE B
  <2>1. CASE Online(p)
    BY <1>2, <1>11, <2>1, ReloadEffect
  <2>2. CASE ~ Online(p)
    <3>1. UNCHANGED sock /\ UNCHANGED cur /\ OthersKeep(mount, mount', p)
      BY <1>11, <2>2, ReloadEffect DEF wires
    <3>2. sock[c] = "open"
      BY <3>1
    <3>3. c[1] # p /\ c[1] \in Client
      BY <3>2, <2>2, OpenFacts
    <3> QED BY <3>1, <3>2, <3>3 DEF B, OthersKeep
  <2> QED BY <2>1, <2>2
<1>12. ASSUME NEW p \in Client,
              \/ OnWelcome(p) \/ OnStored(p) \/ OnAwarenessMsg(p) \/ OnLeaveMsg(p)
              \/ OnWriteRefused(p) \/ OnOtherError(p)
       PROVE  B
  BY <1>1, <1>12, OnWelcomeEffect, OnStoredEffect, OnAwarenessMsgEffect, OnLeaveMsgEffect,
     OnWriteRefusedEffect, OnOtherErrorEffect
  DEF page
<1>13. ASSUME UNCHANGED vars PROVE B
  BY <1>1, <1>13 DEF vars, hubVars, wires, page
<1>14. B
  BY <1>4, <1>5, <1>6, <1>7, <1>8, <1>9, <1>10, <1>11, <1>12, <1>13, StepCases
<1> QED BY <1>14 DEF B

(* At first nobody has a name. *)
LEMMA NamesInit == Init => Names
<1> SUFFICES ASSUME Init PROVE Names
  OBVIOUS
<1>1. \A c \in Conn : up[c] = <<>> /\ tasks[c] = <<>> /\ bound[c] = NoReplica
  BY DEF Init, HubInit
<1>2. \A c \in Conn : Ups(c) = {} /\ Tasks(c) = {}
  BY <1>1 DEF Ups, Tasks, ToSet
<1>3. \A c \in Conn : NamesOf(c) = {}
  BY <1>1, <1>2 DEF NamesOf, Asked
<1>4. room \subseteq {c \in Conn : bound[c] # NoReplica}
  BY DEF Init, HubInit
<1> QED BY <1>3, <1>4 DEF Names

(* Every step keeps what is said of names. *)
LEMMA NamesStep == Typed /\ Numbered /\ Sockets /\ Names /\ [Next]_vars => Names'
<1> SUFFICES ASSUME Typed, Numbered, Sockets, Names, [Next]_vars PROVE Names'
  OBVIOUS
<1>1. \A c \in Conn : bound'[c] # NoReplica => bound'[c] \in NamesOf(c)
  BY BoundStep DEF NamesOf
<1>2. room' \subseteq {c \in Conn : bound'[c] # NoReplica}
  <2>1. Typed'
    BY TypedStep
  <2>2. ASSUME NEW c \in room' PROVE c \in Conn /\ bound'[c] # NoReplica
    <3>1. c \in Conn
      BY <2>1, <2>2 DEF Typed, HubTyped
    <3>2. CASE bound'[c] = bound[c] /\ c \in room
      BY <3>1, <3>2 DEF Names
    <3>3. CASE bound'[c] \in {m.replica : m \in Asked(c)}
      BY <3>1, <3>3, AskedFacts, ReplicaFacts
    <3> QED BY <2>2, <3>1, <3>2, <3>3, BoundStep
  <2> QED BY <2>2
<1>3. \A c \in Conn : \A r, s : r \in NamesOf(c) /\ s \in NamesOf(c) => r = s /\ r[1] = c[1]
  BY DEF Names
<1>4. CASE AskedOnly
  <2>1. \A c \in Conn : NamesOf(c)' \subseteq NamesOf(c)
    BY <1>1, <1>4 DEF AskedOnly, NamesOf
  <2>2. ASSUME NEW c \in Conn, sock'[c] = "open", NEW r \in NamesOf(c)'
        PROVE  r = ReplicaOf(c[1])'
    <3>1. CASE sock[c] = "open" /\ mount'[c[1]] = mount[c[1]]
      BY <2>1, <2>2, <3>1 DEF Names, ReplicaOf
    <3>2. CASE \E p \in Client : Open(p) /\ Opened(p, c)
      <4>1. PICK p \in Client : Open(p) /\ Opened(p, c)
        BY <3>2
      <4>2. PICK d \in Conn : Opened(p, d) /\ sock[d] = "new" /\ Asked(d) = {}
        BY <4>1, AskedOnOpen
      <4>3. c = d
        BY <4>1, <4>2 DEF Opened
      <4>4. bound[c] = NoReplica
        BY <4>2, <4>3, NewFacts
      <4>5. NamesOf(c) = {}
        BY <4>2, <4>3, <4>4 DEF NamesOf
      <4> QED BY <2>1, <2>2, <4>5
    <3> QED BY <2>2, <3>1, <3>2, OpenStep
  <2> QED BY <1>2, <1>3, <2>1, <2>2 DEF Names
<1>5. ASSUME NEW p \in Client, Open(p) PROVE Names'
  <2>1. PICK c \in Conn : /\ Opened(p, c) /\ sock[c] = "new" /\ Asked(c)' = {HelloJoin(p)}
                          /\ \A d \in Conn \ {c} : Asked(d)' = Asked(d)
    BY <1>5, AskedOnOpen
  <2>2. UNCHANGED bound /\ UNCHANGED mount
    BY <1>5, OpenEffect, ServerUnchanged
  <2>3. bound[c] = NoReplica /\ HelloJoin(p).replica = ReplicaOf(p) /\ ReplicaOf(p)[1] = p /\ c[1] = p
    BY <2>1, NewFacts, ReplicaFacts DEF HelloJoin, JoinMsg, Opened
  <2>4. NamesOf(c)' = {ReplicaOf(p)}
    BY <2>1, <2>2, <2>3 DEF NamesOf
  <2>5. \A d \in Conn \ {c} : NamesOf(d)' = NamesOf(d) /\ sock'[d] = sock[d]
    BY <2>1, <2>2 DEF NamesOf, Opened
  <2>6. \A d : ReplicaOf(d)' = ReplicaOf(d)
    BY <2>2 DEF ReplicaOf
  <2> QED BY <1>2, <2>3, <2>4, <2>5, <2>6 DEF Names
<1>6. ASSUME NEW p \in Client, OnWriteRefused(p) PROVE Names'
  <2>1. /\ UNCHANGED bound /\ UNCHANGED mount /\ UNCHANGED sock /\ Sock(p) \in Conn /\ Online(p)
    BY <1>6, OnWriteRefusedEffect, ServerUnchanged
  <2>2. Sock(p)[1] = p /\ sock[Sock(p)] = "open" /\ ReplicaOf(p)[1] = p
    BY <2>1, OnlineFacts, ReplicaFacts
  <2>3. \A d \in Conn : d # Sock(p) => NamesOf(d)' = NamesOf(d)
    BY <1>6, <2>1, AskedOnRefusal DEF NamesOf
  <2>4. \A d \in Conn : d = Sock(p) => NamesOf(d)' = NamesOf(d) \cup {ReplicaOf(p)}
    <3>1. JoinMsg(ReplicaOf(p), 0).replica = ReplicaOf(p)
      BY DEF JoinMsg
    <3> QED BY <1>6, <2>1, <3>1, AskedOnRefusal DEF NamesOf
  <2>5. \A d : ReplicaOf(d)' = ReplicaOf(d)
    BY <2>1 DEF ReplicaOf
  <2>6. \A d \in Conn : d = Sock(p) => NamesOf(d)' \subseteq {ReplicaOf(p)}
    BY <2>2, <2>4 DEF Names
  <2> QED BY <1>2, <2>1, <2>2, <2>3, <2>5, <2>6 DEF Names
<1> QED BY <1>4, <1>5, <1>6, AskedStep

-----------------------------------------------------------------------------
(* Where what is on its way comes from *)

(* m is the answer to a join or to an edit of c that waits, or tells its    *)
(* room of an edit of somebody, or of a replica.                           *)
Welcomes(c, m) ==
  \E t \in Tasks(c) : t.pc = "welcome" /\ m = WelcomeMsg(OpsSince(t.msg.since), Len(log))
Refuses(c, m) ==
  \/ m = ErrorMsg("none")
  \/ m = ErrorMsg("forbidden-read")
     /\ role[c[1]] = "none" /\ \E t \in Tasks(c) : t.pc = "authorize join"
  \/ m = ErrorMsg("forbidden-write") /\ \E t \in Tasks(c) : t.pc = "authorize op"
TellsOfOp(m) == \E d \in Conn : \E t \in Tasks(d) : t.pc = "spread" /\ m = StoredMsg(t.seq, t.op)
TellsOfPeer(m) ==
  \E d \in Conn : /\ bound[d] # NoReplica /\ bound[d] \in ReplicaId
                  /\ \/ m = PeerMsg("awareness", bound[d]) /\ \E u \in Ups(d) : u.type = "awareness"
                     \/ m = PeerMsg("leave", bound[d]) /\ sock[d] = "left"

(* What the hub has to say to c. *)
SentBy(c, m) ==
  \/ Welcomes(c, m) \/ Refuses(c, m)
  \/ c \in room /\ (TellsOfOp(m) \/ TellsOfPeer(m) \/ m \in Bus(Home[c]))

(* Nothing new comes down. *)
DownsOnly == \A c \in Conn : Downs(c)' \subseteq Downs(c)

(* Hearing, and leaving, put nothing on its way down. *)
LEMMA DownsOnlyFacts ==
  /\ DownsKept => DownsOnly
  /\ \A p, m : HeardBy(p, m) => DownsOnly
  /\ \A p : Left(p) => DownsOnly
<1>1. DownsKept => DownsOnly
  BY DEF DownsKept, DownsOnly
<1>2. ASSUME NEW p, NEW m, HeardBy(p, m) PROVE DownsOnly
  BY <1>2 DEF HeardBy, DownsOnly
<1>3. ASSUME NEW p, Left(p) PROVE DownsOnly
  BY <1>3 DEF Left, DownsOnly
<1> QED BY <1>1, <1>2, <1>3

(* What is sent is all that is new on its way down. *)
LEMMA SentDownAdds ==
  ASSUME NEW S, NEW msg, SentDown(S, msg)
  PROVE  \A c \in Conn : \A m \in Downs(c)' : m \in Downs(c) \/ (m = msg /\ c \in S)
BY DEF SentDown

(* Of the clients' actions none puts anything on its way to a client. *)
LEMMA ClientDowns ==
  ASSUME Typed, Numbered, NEW p \in Client,
         \/ Edit(p) \/ SetAwareness(p) \/ Open(p) \/ Save(p) \/ Load(p)
         \/ Break(p) \/ Reload(p)
         \/ OnWelcome(p) \/ OnStored(p) \/ OnAwarenessMsg(p) \/ OnLeaveMsg(p)
         \/ OnWriteRefused(p) \/ OnReadRefused(p) \/ OnOtherError(p)
  PROVE  DownsOnly
<1>1. CASE Edit(p) \/ SetAwareness(p) \/ Open(p) \/ Save(p) \/ Load(p)
  BY <1>1, DownsOnlyFacts, EditEffect, SetAwarenessEffect, OpenEffect, SaveEffect, LoadEffect
<1>2. CASE Break(p) \/ Reload(p) \/ OnReadRefused(p)
  BY <1>2, DownsOnlyFacts, BreakEffect, ReloadEffect, OnReadRefusedEffect
<1>3. CASE OnWelcome(p) \/ OnStored(p) \/ OnAwarenessMsg(p) \/ OnLeaveMsg(p)
  BY <1>3, DownsOnlyFacts, OnWelcomeEffect, OnStoredEffect, OnAwarenessMsgEffect, OnLeaveMsgEffect
<1>4. CASE OnWriteRefused(p) \/ OnOtherError(p)
  BY <1>4, DownsOnlyFacts, OnWriteRefusedEffect, OnOtherErrorEffect
<1> QED BY <1>1, <1>2, <1>3, <1>4

(* What is on its way to a client was so before, or comes of the state     *)
(* before.                                                                 *)
LEMMA DownsStep ==
  ASSUME Typed, Numbered, [Next]_vars
  PROVE  \A c \in Conn : \A m \in Downs(c)' : m \in Downs(c) \/ SentBy(c, m)
<1> DEFINE B == \A c \in Conn : \A m \in Downs(c)' : m \in Downs(c) \/ SentBy(c, m)
<1>1. ASSUME DownsOnly PROVE B
  BY <1>1 DEF DownsOnly
<1>2. ASSUME NEW S, NEW msg, SentDown(S, msg), \A c \in Conn : c \in S => SentBy(c, msg) PROVE B
  BY <1>2, SentDownAdds
<1> HIDE DEF B
<1>3. ASSUME NEW c \in Conn, OnJoin(c) PROVE B
  BY <1>1, <1>3, OnJoinEffect, DownsOnlyFacts
<1>4. ASSUME NEW c \in Conn, NEW i \in DOMAIN tasks[c], JoinAuthorized(c, i) PROVE B
  <2>1. PICK old \in JoinTasks :
          /\ old.pc = "authorize join" /\ old \in Tasks(c)
          /\ \/ role[c[1]] = "none" /\ SentDown({c}, ErrorMsg("forbidden-read"))
             \/ DownsKept
    BY <1>4, JoinAuthorizedEffect
  <2>2. CASE DownsKept
    BY <1>1, <2>2, DownsOnlyFacts
  <2>3. CASE role[c[1]] = "none" /\ SentDown({c}, ErrorMsg("forbidden-read"))
    <3>1. SentBy(c, ErrorMsg("forbidden-read"))
      BY <2>1, <2>3 DEF SentBy, Refuses
    <3> QED BY <1>2, <2>3, <3>1
  <2> QED BY <2>1, <2>2, <2>3
<1>5. ASSUME NEW c \in Conn, NEW i \in DOMAIN tasks[c], SendWelcome(c, i) PROVE B
  <2>1. PICK old \in JoinTasks :
          /\ old.pc = "welcome" /\ Finished(c, old)
          /\ SentDown({c}, WelcomeMsg(OpsSince(old.msg.since), Len(log)))
    BY <1>5, SendWelcomeEffect
  <2>2. SentBy(c, WelcomeMsg(OpsSince(old.msg.since), Len(log)))
    BY <2>1 DEF SentBy, Welcomes, Finished
  <2> QED BY <1>2, <2>1, <2>2
<1>6. ASSUME NEW c \in Conn, OnOp(c) PROVE B
  <2>1. DownsKept \/ SentDown({c}, ErrorMsg("none"))
    BY <1>6, OnOpEffect
  <2>2. SentBy(c, ErrorMsg("none"))
    BY DEF SentBy, Refuses
  <2>3. DownsKept => B
    BY <1>1, DownsOnlyFacts
  <2>4. ASSUME NEW msg, SentDown({c}, msg), SentBy(c, msg) PROVE B
    BY <1>2, <2>4
  <2> QED BY <2>1, <2>2, <2>3, <2>4
<1>7. ASSUME NEW c \in Conn, NEW i \in DOMAIN tasks[c], OpAuthorized(c, i) PROVE B
  <2>1. PICK old \in OpTasks :
          /\ old.pc = "authorize op" /\ old \in Tasks(c)
          /\ DownsKept \/ SentDown({c}, ErrorMsg("forbidden-write"))
    BY <1>7, OpAuthorizedEffect
  <2>2. SentBy(c, ErrorMsg("forbidden-write"))
    BY <2>1 DEF SentBy, Refuses
  <2>3. DownsKept => B
    BY <1>1, DownsOnlyFacts
  <2>4. ASSUME NEW msg, SentDown({c}, msg), SentBy(c, msg) PROVE B
    BY <1>2, <2>4
  <2> QED BY <2>1, <2>2, <2>3, <2>4
<1>8. ASSUME NEW c \in Conn, NEW i \in DOMAIN tasks[c], AppendOp(c, i) PROVE B
  BY <1>1, <1>8, AppendOpEffect, DownsOnlyFacts
<1>9. ASSUME NEW c \in Conn, NEW i \in DOMAIN tasks[c], SpreadOp(c, i) PROVE B
  <2>1. PICK old \in SpreadTasks :
          /\ old.pc = "spread" /\ Finished(c, old)
          /\ SentDown(Members(Home[c]), StoredMsg(old.seq, old.op))
    BY <1>9, SpreadOpEffect
  <2>2. TellsOfOp(StoredMsg(old.seq, old.op))
    BY <2>1 DEF TellsOfOp, Finished
  <2>3. \A d \in Conn : d \in Members(Home[c]) => SentBy(d, StoredMsg(old.seq, old.op))
    BY <2>2, MembersFacts DEF SentBy
  <2> QED BY <1>2, <2>1, <2>3
<1>10. ASSUME NEW c \in Conn, OnAwareness(c) \/ OnClose(c) PROVE B
  <2>1. \/ DownsKept
        \/ \E type : /\ TellsOfPeer(PeerMsg(type, bound[c]))
                     /\ SentDown(Members(Home[c]) \ {c}, PeerMsg(type, bound[c]))
    <3>1. CASE OnAwareness(c)
      <4>1. \E u \in Ups(c) : u.type = "awareness"
        BY <3>1, OnAwarenessEffect DEF TakenOff
      <4> QED BY <3>1, <4>1, OnAwarenessEffect DEF TellsOfPeer
    <3>2. CASE OnClose(c)
      BY <3>2, OnCloseEffect DEF TellsOfPeer
    <3> QED BY <1>10, <3>1, <3>2
  <2>2. CASE DownsKept
    BY <1>1, <2>2, DownsOnlyFacts
  <2>3. ASSUME NEW type, TellsOfPeer(PeerMsg(type, bound[c])),
               SentDown(Members(Home[c]) \ {c}, PeerMsg(type, bound[c]))
        PROVE  B
    <3>1. \A d \in Conn : d \in Members(Home[c]) \ {c} => SentBy(d, PeerMsg(type, bound[c]))
      BY <2>3, MembersFacts DEF SentBy
    <3> QED BY <1>2, <2>3, <3>1
  <2> QED BY <2>1, <2>2, <2>3
<1>11. ASSUME NEW i \in Instance, FanOut(i) PROVE B
  <2>1. PICK msg : msg \in Bus(i) /\ SentDown(Members(i), msg)
    BY <1>11, FanOutEffect
  <2>2. \A d \in Conn : d \in Members(i) => SentBy(d, msg)
    BY <2>1, MembersFacts DEF SentBy
  <2> QED BY <1>2, <2>1, <2>2
<1>12. ASSUME NEW p \in Client,
             \/ Edit(p) \/ SetAwareness(p) \/ Open(p) \/ Save(p) \/ Load(p)
             \/ Break(p) \/ Reload(p)
             \/ OnWelcome(p) \/ OnStored(p) \/ OnAwarenessMsg(p) \/ OnLeaveMsg(p)
             \/ OnWriteRefused(p) \/ OnReadRefused(p) \/ OnOtherError(p)
      PROVE  B
  BY <1>1, <1>12, ClientDowns
<1>13. ASSUME UNCHANGED vars PROVE B
  <2>1. UNCHANGED down
    BY <1>13 DEF vars, hubVars, wires
  <2> QED BY <1>1, <2>1, DownsUnchanged, DownsOnlyFacts
<1>14. ASSUME NEW c \in Conn, NEW i \in DOMAIN tasks[c], HandlerThrows(c, i) PROVE B
  <2>1. SentDown({c}, ErrorMsg("none"))
    BY <1>14, HandlerThrowsEffect
  <2>2. SentBy(c, ErrorMsg("none"))
    BY DEF SentBy, Refuses
  <2> QED BY <1>2, <2>1, <2>2
<1>15. B
  BY <1>3, <1>4, <1>5, <1>6, <1>7, <1>8, <1>9, <1>10, <1>11, <1>12, <1>13, <1>14, StepCases
<1> QED BY <1>15 DEF B

(* What is on its way to an instance was so before, or comes of the state  *)
(* before.                                                                 *)
LEMMA BusStep ==
  ASSUME Typed, Numbered, [Next]_vars
  PROVE  \A i \in Instance : \A m \in Bus(i)' : m \in Bus(i) \/ TellsOfOp(m) \/ TellsOfPeer(m)
<1> DEFINE B == \A i \in Instance : \A m \in Bus(i)' : m \in Bus(i) \/ TellsOfOp(m) \/ TellsOfPeer(m)
<1>1. ASSUME BusKept PROVE B
  BY <1>1 DEF BusKept
<1>2. ASSUME NEW i, NEW msg, Published(i, msg), TellsOfOp(msg) \/ TellsOfPeer(msg) PROVE B
  BY <1>2 DEF Published
<1> HIDE DEF B
<1>3. ASSUME NEW c \in Conn, OnJoin(c) \/ OnOp(c) PROVE B
  BY <1>1, <1>3, OnJoinEffect, OnOpEffect
<1>4. ASSUME NEW c \in Conn, NEW i \in DOMAIN tasks[c],
             \/ JoinAuthorized(c, i) \/ SendWelcome(c, i) \/ OpAuthorized(c, i) \/ AppendOp(c, i)
             \/ HandlerThrows(c, i)
      PROVE  B
  BY <1>1, <1>4, JoinAuthorizedEffect, SendWelcomeEffect, OpAuthorizedEffect, AppendOpEffect,
     HandlerThrowsEffect
<1>5. ASSUME NEW c \in Conn, NEW i \in DOMAIN tasks[c], SpreadOp(c, i) PROVE B
  <2>1. PICK old \in SpreadTasks :
          /\ old.pc = "spread" /\ Finished(c, old)
          /\ Published(Home[c], StoredMsg(old.seq, old.op))
    BY <1>5, SpreadOpEffect
  <2>2. TellsOfOp(StoredMsg(old.seq, old.op))
    BY <2>1 DEF TellsOfOp, Finished
  <2> QED BY <1>2, <2>1, <2>2
<1>6. ASSUME NEW c \in Conn, OnAwareness(c) \/ OnClose(c) PROVE B
  <2>1. \/ BusKept
        \/ \E type : /\ TellsOfPeer(PeerMsg(type, bound[c]))
                     /\ Published(Home[c], PeerMsg(type, bound[c]))
    <3>1. CASE OnAwareness(c)
      <4>1. \E u \in Ups(c) : u.type = "awareness"
        BY <3>1, OnAwarenessEffect DEF TakenOff
      <4> QED BY <3>1, <4>1, OnAwarenessEffect DEF TellsOfPeer
    <3>2. CASE OnClose(c)
      BY <3>2, OnCloseEffect DEF TellsOfPeer
    <3> QED BY <1>6, <3>1, <3>2
  <2> QED BY <1>1, <1>2, <2>1
<1>7. ASSUME NEW i \in Instance, FanOut(i) PROVE B
  BY <1>7, FanOutEffect DEF B
<1>8. ASSUME NEW p \in Client,
             \/ Edit(p) \/ SetAwareness(p) \/ Open(p) \/ Save(p) \/ Load(p)
             \/ Break(p) \/ Reload(p)
      PROVE  B
  BY <1>1, <1>8, EditEffect, SetAwarenessEffect, OpenEffect, SaveEffect, LoadEffect,
     BreakEffect, ReloadEffect
<1>9. ASSUME NEW p \in Client,
             \/ OnWelcome(p) \/ OnStored(p) \/ OnAwarenessMsg(p) \/ OnLeaveMsg(p)
             \/ OnWriteRefused(p) \/ OnReadRefused(p) \/ OnOtherError(p)
      PROVE  B
  BY <1>1, <1>9, OnWelcomeEffect, OnStoredEffect, OnAwarenessMsgEffect, OnLeaveMsgEffect,
     OnWriteRefusedEffect, OnReadRefusedEffect, OnOtherErrorEffect
<1>10. ASSUME UNCHANGED vars PROVE B
  <2>1. UNCHANGED bus
    BY <1>10 DEF vars, hubVars, server
  <2> QED BY <1>1, <2>1, BusUnchanged
<1>11. B
  BY <1>3, <1>4, <1>5, <1>6, <1>7, <1>8, <1>9, <1>10, StepCases
<1> QED BY <1>11 DEF B

(* The tasks of a socket come of its messages, and go on. *)
JoinTask(c, t) ==
  /\ t.msg \in Asked(c)
  /\ \/ enforce /\ t.pc = "authorize join"
     \/ ~ enforce /\ t.pc = "welcome"
     \/ role[c[1]] # "none" /\ t.pc = "welcome"
OpTask(c, t) ==
  /\ bound[c] # NoReplica /\ \E m \in Ups(c) : m.type = "op" /\ m.op = t.op
  /\ t.pc = IF enforce THEN "authorize op" ELSE "append"
AppendTask(c, t) ==
  /\ t.pc = "append" /\ role[c[1]] = "editor"
  /\ \E s \in Tasks(c) : s.pc = "authorize op" /\ s.op = t.op
SpreadTask(c, t) ==
  /\ t.pc = "spread" /\ t.seq = Len(log) + 1
  /\ \E s \in Tasks(c) : s.pc = "append" /\ s.op = t.op
  /\ Logged1(t.op)

ComesOf(c, t) == JoinTask(c, t) \/ OpTask(c, t) \/ AppendTask(c, t) \/ SpreadTask(c, t)

(* A task was there before, or comes of a message or of the task before it.*)
LEMMA TasksStep ==
  ASSUME Typed, Numbered, [Next]_vars
  PROVE  \A c \in Conn : \A t \in Tasks(c)' : t \in Tasks(c) \/ ComesOf(c, t)
<1> DEFINE B == \A c \in Conn : \A t \in Tasks(c)' : t \in Tasks(c) \/ ComesOf(c, t)
<1>1. ASSUME TasksKept PROVE B
  BY <1>1 DEF TasksKept
<1>2. ASSUME NEW c \in Conn, NEW t, Suspended(c, t), ComesOf(c, t) PROVE B
  BY <1>2 DEF Suspended
<1>3. ASSUME NEW c \in Conn, NEW t, Finished(c, t) PROVE B
  BY <1>3 DEF Finished
<1>4. ASSUME NEW c \in Conn, NEW s, NEW t, Resumed(c, s, t), ComesOf(c, t) PROVE B
  BY <1>4 DEF Resumed
<1> HIDE DEF B
<1>5. ASSUME NEW c \in Conn, OnJoin(c) PROVE B
  <2>1. PICK msg \in JoinMsgs, task \in JoinTasks :
          /\ TakenOff(c, msg) /\ msg.type = "join" /\ Suspended(c, task) /\ task.msg = msg
          /\ task.pc = IF enforce THEN "authorize join" ELSE "welcome"
    BY <1>5, OnJoinEffect
  <2>2. msg \in Asked(c)
    BY <2>1, AskedMembers DEF TakenOff
  <2>3. JoinTask(c, task)
    BY <2>1, <2>2 DEF JoinTask
  <2> QED BY <1>2, <2>1, <2>3 DEF ComesOf
<1>6. ASSUME NEW c \in Conn, NEW i \in DOMAIN tasks[c], JoinAuthorized(c, i) PROVE B
  <2>1. PICK old \in JoinTasks :
          /\ old.pc = "authorize join" /\ old \in Tasks(c)
          /\ \/ Finished(c, old)
             \/ /\ role[c[1]] # "none"
                /\ \E new \in JoinTasks :
                     new.pc = "welcome" /\ new.msg = old.msg /\ Resumed(c, old, new)
    BY <1>6, JoinAuthorizedEffect
  <2>2. ASSUME role[c[1]] # "none",
               NEW new \in JoinTasks, new.pc = "welcome", new.msg = old.msg, Resumed(c, old, new)
        PROVE  B
    <3>1. old.msg \in Asked(c)
      BY <2>1, AskedMembers DEF Joining
    <3>2. JoinTask(c, new)
      BY <2>2, <3>1 DEF JoinTask
    <3> QED BY <1>4, <2>2, <3>2 DEF ComesOf
  <2> QED BY <1>3, <2>1, <2>2
<1>7. ASSUME NEW c \in Conn, NEW i \in DOMAIN tasks[c],
             SendWelcome(c, i) \/ SpreadOp(c, i) \/ HandlerThrows(c, i)
      PROVE  B
  BY <1>3, <1>7, SendWelcomeEffect, SpreadOpEffect, HandlerThrowsEffect
<1>8. ASSUME NEW c \in Conn, OnOp(c) PROVE B
  <2>1. PICK msg \in UpMsgs :
          /\ TakenOff(c, msg) /\ msg.type = "op"
          /\ \/ TasksKept
             \/ /\ bound[c] # NoReplica
                /\ \E task \in OpTasks :
                     /\ Suspended(c, task) /\ task.op = msg.op
                     /\ task.pc = IF enforce THEN "authorize op" ELSE "append"
    BY <1>8, OnOpEffect
  <2>2. ASSUME bound[c] # NoReplica, NEW task \in OpTasks, Suspended(c, task), task.op = msg.op,
               task.pc = IF enforce THEN "authorize op" ELSE "append"
        PROVE  B
    <3>1. OpTask(c, task)
      BY <2>1, <2>2 DEF OpTask, TakenOff
    <3> QED BY <1>2, <2>2, <3>1 DEF ComesOf
  <2> QED BY <1>1, <2>1, <2>2
<1>9. ASSUME NEW c \in Conn, NEW i \in DOMAIN tasks[c], OpAuthorized(c, i) PROVE B
  <2>1. PICK old \in OpTasks :
          /\ old.pc = "authorize op" /\ old \in Tasks(c)
          /\ \/ /\ role[c[1]] = "editor"
                /\ \E new \in OpTasks :
                     new.pc = "append" /\ new.op = old.op /\ Resumed(c, old, new)
             \/ Finished(c, old)
    BY <1>9, OpAuthorizedEffect
  <2>2. ASSUME role[c[1]] = "editor",
               NEW new \in OpTasks, new.pc = "append", new.op = old.op, Resumed(c, old, new)
        PROVE  B
    <3>1. AppendTask(c, new)
      BY <2>1, <2>2 DEF AppendTask
    <3> QED BY <1>4, <2>2, <3>1 DEF ComesOf
  <2> QED BY <1>3, <2>1, <2>2
<1>10. ASSUME NEW c \in Conn, NEW i \in DOMAIN tasks[c], AppendOp(c, i) PROVE B
  <2>1. PICK old \in OpTasks, new \in SpreadTasks :
          /\ old.pc = "append" /\ Resumed(c, old, new)
          /\ new.pc = "spread" /\ new.seq = Len(log) + 1 /\ new.op = old.op
          /\ Logged1(old.op)
    BY <1>10, AppendOpEffect
  <2>2. SpreadTask(c, new)
    BY <2>1 DEF SpreadTask, Resumed
  <2> QED BY <1>4, <2>1, <2>2 DEF ComesOf
<1>11. ASSUME NEW c \in Conn, OnAwareness(c) \/ OnClose(c) PROVE B
  BY <1>1, <1>11, OnAwarenessEffect, OnCloseEffect
<1>12. ASSUME NEW i \in Instance, FanOut(i) PROVE B
  BY <1>1, <1>12, FanOutEffect
<1>13. ASSUME NEW p \in Client,
             \/ Edit(p) \/ SetAwareness(p) \/ Open(p) \/ Save(p) \/ Load(p)
             \/ Break(p) \/ Reload(p)
      PROVE  B
  BY <1>1, <1>13, EditEffect, SetAwarenessEffect, OpenEffect, SaveEffect, LoadEffect,
     BreakEffect, ReloadEffect
<1>14. ASSUME NEW p \in Client,
             \/ OnWelcome(p) \/ OnStored(p) \/ OnAwarenessMsg(p) \/ OnLeaveMsg(p)
             \/ OnWriteRefused(p) \/ OnReadRefused(p) \/ OnOtherError(p)
      PROVE  B
  BY <1>1, <1>14, OnWelcomeEffect, OnStoredEffect, OnAwarenessMsgEffect, OnLeaveMsgEffect,
     OnWriteRefusedEffect, OnReadRefusedEffect, OnOtherErrorEffect
<1>15. ASSUME UNCHANGED vars PROVE B
  <2>1. UNCHANGED tasks
    BY <1>15 DEF vars, hubVars, server
  <2> QED BY <1>1, <2>1, TasksUnchanged
<1>16. B
  BY <1>5, <1>6, <1>7, <1>8, <1>9, <1>10, <1>11, <1>12, <1>13, <1>14, <1>15, StepCases
<1> QED BY <1>16 DEF B

(* A client sends what is its own, or what it has applied. *)
Knows(p) == doc[p] \cup disk[p].doc \cup outbox[p] \cup issued'[p]

(* An operation on its way up was so before, or has only what its client   *)
(* knows.                                                                  *)
LEMMA UpsStep ==
  ASSUME Typed, Numbered, [Next]_vars
  PROVE  \A c \in Conn : \A m \in Ups(c)' :
           m.type = "op" => m \in Ups(c) \/ m.op \subseteq Knows(c[1])
<1> DEFINE B == \A c \in Conn : \A m \in Ups(c)' :
                  m.type = "op" => m \in Ups(c) \/ m.op \subseteq Knows(c[1])
<1>1. ASSUME UpsKept PROVE B
  BY <1>1 DEF UpsKept
<1>2. ASSUME NEW c \in Conn, NEW m, TakenOff(c, m) PROVE B
  BY <1>2 DEF TakenOff
<1>3. ASSUME NEW p \in Client, NEW msgs, SentUp(p, msgs),
             \A m \in msgs : m.type = "op" => m.op \subseteq Knows(p)
      PROVE  B
  BY <1>3, OnlineFacts DEF SentUp
<1>3a. ASSUME NEW p \in Client, NEW m, SentUp(p, {m}), m.type = "op" => m.op \subseteq Knows(p)
       PROVE  B
  <2>1. \A n \in {m} : n.type = "op" => n.op \subseteq Knows(p)
    BY <1>3a
  <2> HIDE DEF B
  <2> QED BY <1>3, <1>3a, <2>1
<1>4. ASSUME NEW p \in Client, Left(p) PROVE B
  BY <1>4 DEF Left
<1> HIDE DEF B
<1>5. ASSUME NEW c \in Conn, OnJoin(c) \/ OnOp(c) \/ OnAwareness(c) PROVE B
  BY <1>2, <1>5, OnJoinEffect, OnOpEffect, OnAwarenessEffect
<1>6. ASSUME NEW c \in Conn, OnClose(c) PROVE B
  BY <1>1, <1>6, OnCloseEffect
<1>7. ASSUME NEW c \in Conn, NEW i \in DOMAIN tasks[c],
             \/ JoinAuthorized(c, i) \/ SendWelcome(c, i)
             \/ OpAuthorized(c, i) \/ AppendOp(c, i) \/ SpreadOp(c, i) \/ HandlerThrows(c, i)
      PROVE  B
  BY <1>1, <1>7, JoinAuthorizedEffect, SendWelcomeEffect, OpAuthorizedEffect, AppendOpEffect,
     SpreadOpEffect, HandlerThrowsEffect
<1>8. ASSUME NEW i \in Instance, FanOut(i) PROVE B
  BY <1>1, <1>8, FanOutEffect
<1>9. ASSUME NEW p \in Client, Edit(p) PROVE B
  <2>1. PICK e \in Edits : issued'[p] = {e} /\ SentUp(p, {OpMsg({e})})
    BY <1>9, EditEffect
  <2>2. OpMsg({e}).op \subseteq Knows(p)
    BY <2>1 DEF OpMsg, Knows
  <2> QED BY <1>3a, <2>1, <2>2
<1>10. ASSUME NEW p \in Client, SetAwareness(p) PROVE B
  <2>1. AwarenessMsg.type # "op"
    BY DEF AwarenessMsg
  <2>2. SentUp(p, {AwarenessMsg})
    BY <1>10, SetAwarenessEffect
  <2> QED BY <1>3a, <2>1, <2>2
<1>11. ASSUME NEW p \in Client, Open(p) PROVE B
  <2>1. PICK c \in Conn : Opened(p, c)
    BY <1>11, OpenEffect
  <2>2. HelloJoin(p).type # "op" /\ OpMsg(doc[p]).op \subseteq Knows(p)
    BY DEF HelloJoin, JoinMsg, OpMsg, Knows
  <2>3. c[1] = p /\ Ups(c)' \subseteq {HelloJoin(p), OpMsg(doc[p])}
    BY <2>1 DEF Opened
  <2>4. \A d \in Conn \ {c} : Ups(d)' = Ups(d)
    BY <2>1 DEF Opened
  <2> QED BY <2>2, <2>3, <2>4 DEF B
<1>12. ASSUME NEW p \in Client, Load(p) PROVE B
  <2>1. OpMsg(disk[p].doc).op \subseteq Knows(p)
    BY DEF OpMsg, Knows
  <2>2. SentUp(p, {OpMsg(disk[p].doc)})
    BY <1>12, LoadEffect
  <2> QED BY <1>3a, <2>1, <2>2
<1>13. ASSUME NEW p \in Client,
              \/ Save(p) \/ OnStored(p) \/ OnAwarenessMsg(p) \/ OnLeaveMsg(p) \/ OnOtherError(p)
       PROVE  B
  BY <1>1, <1>13, SaveEffect, OnStoredEffect, OnAwarenessMsgEffect, OnLeaveMsgEffect, OnOtherErrorEffect
<1>14. ASSUME NEW p \in Client, Break(p) \/ Reload(p) \/ OnReadRefused(p) PROVE B
  BY <1>1, <1>4, <1>14, BreakEffect, ReloadEffect, OnReadRefusedEffect
<1>15. ASSUME NEW p \in Client, OnWelcome(p) PROVE B
  <2>1. PICK msg \in DownMsgs : SentUp(p, {OpMsg({e}) : e \in outbox[p] \ msg.ops})
    BY <1>15, OnWelcomeEffect
  <2>2. \A m \in {OpMsg({e}) : e \in outbox[p] \ msg.ops} : m.op \subseteq Knows(p)
    BY DEF OpMsg, Knows
  <2> QED BY <1>3, <2>1, <2>2
<1>16. ASSUME NEW p \in Client, OnWriteRefused(p) PROVE B
  <2>1. JoinMsg(ReplicaOf(p), 0).type # "op"
    BY DEF JoinMsg
  <2>2. SentUp(p, {JoinMsg(ReplicaOf(p), 0)})
    BY <1>16, OnWriteRefusedEffect
  <2> QED BY <1>3a, <2>1, <2>2
<1>17. ASSUME UNCHANGED vars PROVE B
  <2>1. UNCHANGED up
    BY <1>17 DEF vars, hubVars, wires
  <2> QED BY <1>1, <2>1, UpsUnchanged
<1>18. B
  BY <1>5, <1>6, <1>7, <1>8, <1>9, <1>10, <1>11, <1>12, <1>13, <1>14, <1>15, <1>16, <1>17, StepCases
<1> QED BY <1>18 DEF B
=============================================================================
