------------------------------- MODULE Relay --------------------------------
(***************************************************************************)
(* The path of an edit: PlainTextRoom (packages/client/src/room.ts) at     *)
(* each replica, one server instance (apps/server/src/hub.ts) with the     *)
(* in-memory store and no authorizer, and a socket between them, for one   *)
(* document.  With that store a handler awaits only promises that are      *)
(* already resolved: it ends before the server reads from a socket again,  *)
(* so each handler is one action (frames read in one go are not modelled). *)
(*                                                                         *)
(* A socket is two FIFO queues.  When it breaks, what the server had sent  *)
(* is ignored by the room (the guard this.conn === conn), and a prefix of  *)
(* what the room had sent still reaches the server, perhaps after the room *)
(* has reconnected: it waits in stale.  The socket leaves the server's     *)
(* room at once, since nobody hears what is sent to it any more.  connect  *)
(* and onOpen are one action: a room that is still connecting behaves like *)
(* one that is not.                                                        *)
(*                                                                         *)
(* MinOps is the compaction threshold of the server's options.             *)
(* Bounds: MaxOps local edits, MaxDrops broken sockets (at most one old    *)
(* socket of a replica is unfinished at a time), MaxCompactions sweeps of  *)
(* the compaction timer.  Erase says which elements users delete: "none",  *)
(* "confirmed" (no unconfirmed edit of this replica on them), or "any".    *)
(***************************************************************************)
EXTENDS MemoryStore, FiniteSets

CONSTANTS MinOps, MaxOps, MaxDrops, MaxCompactions, Erase

ASSUME RelayAssumption ==
  /\ MinOps \in Nat \ {0}
  /\ MaxOps \in Nat /\ MaxDrops \in Nat /\ MaxCompactions \in Nat
  /\ Erase \in {"none", "confirmed", "any"}

VARIABLES
  doc, head, outbox, connected,   \* the room of each replica
  up, down, stale,                \* the sockets
  room, store,                    \* the server: joined sockets, the DocState
  issued,       \* history: issued[r], the operations r returned from local edits
  stored,       \* history: every operation ever appended, in order of seq
  drops, compactions

rooms == <<doc, head, outbox, connected>>
sockets == <<up, down, stale>>
bounds == <<drops, compactions>>
vars == <<rooms, sockets, room, store, issued, stored, bounds>>

Init ==
  /\ doc = [r \in Replica |-> NewDoc]
  /\ head = [r \in Replica |-> 0]
  /\ outbox = [r \in Replica |-> <<>>]
  /\ connected = [r \in Replica |-> FALSE]
  /\ up = [r \in Replica |-> <<>>]
  /\ down = [r \in Replica |-> <<>>]
  /\ stale = [r \in Replica |-> <<>>]
  /\ room = {}
  /\ store = EmptyStore
  /\ issued = [r \in Replica |-> {}]
  /\ stored = <<>>
  /\ drops = 0
  /\ compactions = 0

-----------------------------------------------------------------------------
(* Messages *)

JoinMsg(since) == [type |-> "join", since |-> since]
OpMsg(op) == [type |-> "op", op |-> op]
WelcomeMsg(snapshot, ops, top) ==
  [type |-> "welcome", snapshot |-> snapshot, ops |-> ops, head |-> top]
StoredMsg(o) == [type |-> "stored", seq |-> o.seq, op |-> o.op]

-----------------------------------------------------------------------------
(* The room *)

(* The outbox is a Map keyed by the op's id: setting a key again replaces  *)
(* the operation and keeps its place.                                      *)
Put(box, op) ==
  IF \E i \in DOMAIN box : box[i].id = op.id
  THEN [i \in DOMAIN box |-> IF box[i].id = op.id THEN op ELSE box[i]]
  ELSE Append(box, op)

Sent(r, msgs) == IF connected[r] THEN [up EXCEPT ![r] = @ \o msgs] ELSE up

MayEdit == Cardinality(UNION {issued[s] : s \in Replica}) < MaxOps

(* A slip: what is sent is not queued. *)
AfterLocalUnqueued(r, d, op) ==
  /\ doc' = [doc EXCEPT ![r] = Apply(d, op)]
  /\ outbox' = IF connected[r] THEN outbox ELSE [outbox EXCEPT ![r] = Put(@, op)]
  /\ up' = Sent(r, <<OpMsg(op)>>)
  /\ issued' = [issued EXCEPT ![r] = @ \cup {op}]
  /\ UNCHANGED <<head, connected, down, stale, room, store, stored, bounds>>

AfterLocal(r, d, op) ==
  /\ Cardinality(UNION {issued[s] : s \in Replica}) < MaxOps
  /\ doc' = [doc EXCEPT ![r] = Apply(d, op)]
  /\ outbox' = [outbox EXCEPT ![r] = Put(@, op)]
  /\ up' = Sent(r, <<OpMsg(op)>>)
  /\ issued' = [issued EXCEPT ![r] = @ \cup {op}]
  /\ UNCHANGED <<head, connected, down, stale, room, store, stored, bounds>>

Insert(r) ==
  /\ MayEdit
  /\ \E parent \in {ROOT} \cup VisibleIds(doc[r]) :
       AfterLocal(r, Tick(doc[r]), InsertAfter(doc[r], r, parent))

Delete(r) ==
  /\ MayEdit /\ Erase # "none"
  /\ \E id \in VisibleIds(doc[r]) :
       /\ Erase = "confirmed" => \A i \in DOMAIN outbox[r] : outbox[r][i].id # id
       /\ AfterLocal(r, doc[r], DeleteOf(id))

(* connect, and the socket opens: join from the last seq applied, if any.  *)
Open(r) ==
  /\ ~ connected[r]
  /\ connected' = [connected EXCEPT ![r] = TRUE]
  /\ up' = [up EXCEPT ![r] = <<JoinMsg(head[r])>>]
  /\ UNCHANGED <<doc, head, outbox, down, stale, room, store, issued, stored, bounds>>

(* The socket breaks: the server still gets the first k messages. *)
Drop(r) ==
  /\ connected[r] /\ drops < MaxDrops /\ stale[r] = <<>>
  /\ \E k \in 0 .. Len(up[r]) : stale' = [stale EXCEPT ![r] = SubSeq(up[r], 1, k)]
  /\ connected' = [connected EXCEPT ![r] = FALSE]
  /\ up' = [up EXCEPT ![r] = <<>>]
  /\ down' = [down EXCEPT ![r] = <<>>]
  /\ room' = room \ {r}
  /\ drops' = drops + 1
  /\ UNCHANGED <<doc, head, outbox, store, issued, stored, compactions>>

(* integrate, for a list of stored operations. *)
IntegrateDoc(d, ops) == FoldLeft(ApplyStored, d, ops)

(* A slip: any operation that is heard confirms the whole outbox. *)
IntegrateOutboxWhole(box, ops) == IF ops = <<>> THEN box ELSE <<>>

IntegrateOutbox(box, ops) ==
  Kept(box, {op \in Range(box) : \A i \in DOMAIN ops : ops[i].op.id # op.id})

Highest(h, ops) == Max({h} \cup {ops[i].seq : i \in DOMAIN ops})

(* A slip: the outbox is not resent after a reconnect. *)
OnWelcomeSilent(r) ==
  /\ down[r] # <<>> /\ Head(down[r]).type = "welcome"
  /\ LET msg == Head(down[r]) IN
     /\ doc' = [doc EXCEPT ![r] = IntegrateDoc(MergeSnapshot(@, msg.snapshot.nodes), msg.ops)]
     /\ head' = [head EXCEPT ![r] = Highest(IF msg.head > @ THEN msg.head ELSE @, msg.ops)]
     /\ outbox' = [outbox EXCEPT ![r] = IntegrateOutbox(@, msg.ops)]
  /\ down' = [down EXCEPT ![r] = Tail(@)]
  /\ UNCHANGED <<connected, up, stale, room, store, issued, stored, bounds>>

OnWelcome(r) ==
  /\ down[r] # <<>> /\ Head(down[r]).type = "welcome"
  /\ LET msg == Head(down[r])
         box == IntegrateOutbox(outbox[r], msg.ops)
         top == Highest(head[r], msg.ops)
     IN
     /\ doc' = [doc EXCEPT ![r] = IntegrateDoc(MergeSnapshot(@, msg.snapshot.nodes), msg.ops)]
     /\ head' = [head EXCEPT ![r] = IF msg.head > top THEN msg.head ELSE top]
     /\ outbox' = [outbox EXCEPT ![r] = box]
     /\ up' = Sent(r, [i \in DOMAIN box |-> OpMsg(box[i])])
  /\ down' = [down EXCEPT ![r] = Tail(@)]
  /\ UNCHANGED <<connected, stale, room, store, issued, stored, bounds>>

OnStored(r) ==
  /\ down[r] # <<>> /\ Head(down[r]).type = "stored"
  /\ LET ops == <<Head(down[r])>> IN
     /\ doc' = [doc EXCEPT ![r] = IntegrateDoc(@, ops)]
     /\ head' = [head EXCEPT ![r] = Highest(@, ops)]
     /\ outbox' = [outbox EXCEPT ![r] = IntegrateOutbox(@, ops)]
  /\ down' = [down EXCEPT ![r] = Tail(@)]
  /\ UNCHANGED <<connected, up, stale, room, store, issued, stored, bounds>>

-----------------------------------------------------------------------------
(* The server *)

(* since = 0 is an omitted since: a fresh join. *)
Welcome(since) ==
  IF since = 0
  THEN WelcomeMsg(store.snapshot, Since(store, store.snapshot.version), Head1(store))
  ELSE WelcomeMsg(NoSnapshot, Since(store, since), Head1(store))

OnJoin(r) ==
  /\ up[r] # <<>> /\ Head(up[r]).type = "join"
  /\ room' = room \cup {r}
  /\ down' = [down EXCEPT ![r] = Append(@, Welcome(Head(up[r]).since))]
  /\ up' = [up EXCEPT ![r] = Tail(@)]
  /\ UNCHANGED <<rooms, stale, store, issued, stored, bounds>>

(* A slip: the author is skipped, as awareness and leaves do. *)
AppendAndBroadcastSkipsAuthor(r, op) ==
  LET after == Append1(store, op)
      out   == StoredMsg(Last(after.ops))
  IN  /\ store' = after
      /\ stored' = Append(stored, op)
      /\ down' = [s \in Replica |-> IF s \in room \ {r} THEN Append(down[s], out) ELSE down[s]]

(* Stored, then sent to every joined socket, the author's included. *)
AppendAndBroadcast(r, op) ==
  LET after == Append1(store, op)
      out   == StoredMsg(Last(after.ops))
  IN  /\ store' = after
      /\ stored' = Append(stored, op)
      /\ down' = [s \in Replica |-> IF s \in room THEN Append(down[s], out) ELSE down[s]]

OnOp(r) ==
  /\ up[r] # <<>> /\ Head(up[r]).type = "op"
  /\ AppendAndBroadcast(r, Head(up[r]).op)
  /\ up' = [up EXCEPT ![r] = Tail(@)]
  /\ UNCHANGED <<rooms, stale, room, issued, bounds>>

(* The same for a message of the broken socket; nobody hears its welcome. *)
OnStale(r) ==
  /\ stale[r] # <<>>
  /\ stale' = [stale EXCEPT ![r] = Tail(@)]
  /\ IF Head(stale[r]).type = "op"
     THEN AppendAndBroadcast(r, Head(stale[r]).op)
     ELSE UNCHANGED <<store, stored, down>>
  /\ UNCHANGED <<rooms, up, room, issued, bounds>>

(* The sweep compacts a document that has a room, once MinOps operations   *)
(* wait to be folded.                                                      *)
Sweep ==
  /\ room # {} /\ compactions < MaxCompactions
  /\ Head1(store) - store.snapshot.version >= MinOps
  /\ store' = Compact(store)
  /\ compactions' = compactions + 1
  /\ UNCHANGED <<rooms, sockets, room, issued, stored, drops>>

ClientStep(r) == Insert(r) \/ Delete(r) \/ Drop(r)
RoomStep(r) == Open(r) \/ OnWelcome(r) \/ OnStored(r)
ServerStep(r) == OnJoin(r) \/ OnOp(r) \/ OnStale(r)

Delivery == \E r \in Replica : RoomStep(r) \/ ServerStep(r)

Next == Sweep \/ Delivery \/ \E r \in Replica : ClientStep(r)

(* Something is on its way or a room has yet to connect: ENABLED Delivery. *)
Deliverable ==
  \E r \in Replica :
    ~ connected[r] \/ up[r] # <<>> \/ down[r] # <<>> \/ stale[r] # <<>>

(* Sockets deliver and timers reconnect (scheduleReconnect); users may     *)
(* stop and the sweep is not needed.  It is enough that something is       *)
(* delivered while anything can be: WF_vars(Delivery), whose ENABLED is    *)
(* written out as Deliverable.                                             *)
Fairness == []<>(~ Deliverable) \/ []<><<Delivery>>_vars

Spec == Init /\ [][Next]_vars /\ Fairness

-----------------------------------------------------------------------------
TypeOK ==
  /\ \A r \in Replica :
       /\ IsDoc(doc[r]) /\ head[r] \in Nat /\ connected[r] \in BOOLEAN
       /\ Range(outbox[r]) \subseteq Op /\ issued[r] \subseteq Op
       /\ Range(up[r]) \cup Range(stale[r]) \subseteq
            [type : {"join"}, since : Nat] \cup [type : {"op"}, op : Op]
  /\ room \subseteq Replica
  /\ Range(stored) \subseteq Op
  /\ store.seq = Len(stored)
  /\ drops \in 0 .. MaxDrops /\ compactions \in 0 .. MaxCompactions

HasOp(d, op) ==
  IF op.type = "insert" THEN op.id \in DOMAIN d.nodes ELSE op.id \in d.tombstones

(* What a room asks for after its head is all it misses: it has the effect *)
(* of every operation up to head (room.ts:41, protocol/src/index.ts:24).   *)
HeadCoversPrefix ==
  \A r \in Replica : \A s \in 1 .. head[r] : HasOp(doc[r], stored[s])

(* The document a room will have when what was sent to it has arrived. *)
Receives(d, msg) ==
  IF msg.type = "welcome"
  THEN IntegrateDoc(MergeSnapshot(d, msg.snapshot.nodes), msg.ops)
  ELSE Apply(d, msg.op)

Arrived(d, msgs) == FoldLeft(Receives, d, msgs)

(* Every stored operation reaches every current and future member of the   *)
(* room: a joined socket has, or is about to get, all of them              *)
(* (hub.ts:38-40).                                                         *)
ReachesEveryMember ==
  \A r \in room :
    LET d == Arrived(doc[r], down[r])
    IN  \A i \in DOMAIN stored : HasOp(d, stored[i])

(* Every local edit is stored, or still queued for the next reconnect, or  *)
(* on a socket (room.ts:37-38): no drop, reconnect or echo loses one.      *)
NoEditLost ==
  \A r \in Replica : \A op \in issued[r] :
    \/ op \in Range(stored)
    \/ op \in Range(outbox[r])
    \/ OpMsg(op) \in Range(up[r]) \cup Range(stale[r])

(* When everyone is connected and nothing is on a socket, every edit has   *)
(* been confirmed and every room holds the same document.                  *)
Agreement ==
  \A r \in Replica : outbox[r] = <<>> /\ \A s \in Replica : doc[r] = doc[s]

Quiet ==
  \A r \in Replica : connected[r] /\ up[r] = <<>> /\ down[r] = <<>> /\ stale[r] = <<>>

QuietMeansAgreed == Quiet => Agreement

(* Compaction is invisible: while the log holds every operation after the  *)
(* insert it refers to, the folded snapshot and the operations left in the *)
(* log make the document that the whole history makes (store.ts:23-28,     *)
(* compactor.ts).                                                          *)
Refers(op) == IF op.type = "insert" THEN op.parent ELSE op.id

LogIsCausal ==
  \A i \in DOMAIN stored :
    \/ Refers(stored[i]) = ROOT
    \/ \E j \in 1 .. i - 1 :
         stored[j].type = "insert" /\ stored[j].id = Refers(stored[i])

StoreKeepsHistory ==
  LogIsCausal =>
    Fold(store.snapshot, store.ops) = Snapshot(FoldLeft(Apply, NewDoc, stored))

(* ... and so a socket that joins, from a snapshot or from where it left   *)
(* off, with edits of its own or without, misses nothing of what was       *)
(* folded (hub.ts:38-40, protocol/src/index.ts:24-30).                     *)
MembersCatchUp == LogIsCausal => ReachesEveryMember

(* "Every op is persisted once and reaches every current and future room   *)
(* member" (hub.ts:38-40), with broken sockets and compaction: when        *)
(* everyone is connected and nothing is on a socket, every room and a      *)
(* first join have every operation ever stored.                            *)
EveryOpReaches ==
  Quiet =>
    \A d \in {doc[r] : r \in Replica} \cup {Receives(NewDoc, Welcome(0))} :
      \A i \in DOMAIN stored : HasOp(d, stored[i])

(* However often the sockets broke, once users pause and sockets stay up   *)
(* the rooms come to agree, and stay so.                                   *)
EventuallyAgreed == <>[]Agreement
=============================================================================
