------------------------------ MODULE Clients -------------------------------
(***************************************************************************)
(* The two clients of the Hub, on top of it: PlainTextRoom (packages/      *)
(* client/src/room.ts, storage.ts) when kind is "plain", and the Yjs       *)
(* provider (apps/web/lib/birga-yjs-provider.ts, RichTextEditor.tsx) when  *)
(* it is "rich".  A document is the set of edits applied to it: equal sets *)
(* make equal documents (ReplicasProofs, Converges; Yjs promises the same) *)
(* and no edit is keyed like another (edits here are inserts).             *)
(*                                                                         *)
(* A setting has the kind of editor, who makes an edit (one each), how     *)
(* many cursor moves there are, whether pages are reloaded, and how many   *)
(* handlers of the server throw.  Bounds: MaxBreaks broken sockets and     *)
(* reloaded pages, of the clients in Flaky; a page is reloaded at once; a  *)
(* client hears what has reached it, or loses it with its socket, before   *)
(* anything else happens (AllHeard: what is slow is slow to be sent).      *)
(*                                                                         *)
(* What a client does not come to have, history variables name: the edits  *)
(* missed below the head it joined from, those rebuffed by a handler that  *)
(* threw, the clients whose join did.                                      *)
(***************************************************************************)
EXTENDS Hub

CONSTANTS Flaky, MaxBreaks

ASSUME ClientsAssumption ==
  /\ IsFiniteSet(Client) /\ Flaky \subseteq Client
  /\ \A s \in Settings :
       /\ s.kind \in {"plain", "rich"} /\ s.authors \subseteq Client /\ s.cursors \in Nat
       /\ s.reloads \in BOOLEAN /\ s.failures \in Nat
  /\ MaxBreaks \in Nat
  /\ MaxConns = MaxBreaks + 1

VARIABLES
  cur, mount,         \* sockets opened, times the page was loaded
  doc, head, outbox,
  disk,               \* what storage holds: [doc, head, outbox]
  denied, quit,       \* read-only rooms; those closedByUser
  presence,           \* the presence map: replicas
  fresh,              \* history: the replicas heard of on the present socket
  issued, waived,     \* history: local edits; those unsaved or refused
  missed, rebuffed, unjoined, \* history, of the present socket: see above
  breaks, awareness, failures \* how many

local == <<doc, head, outbox>>
people == <<presence, fresh, awareness>>
page == <<cur, mount, disk, denied, quit, breaks>>
history == <<issued, waived>>
harm == <<missed, rebuffed, unjoined, failures>>
vars == <<hubVars, local, people, page, history, harm>>

Init ==
  /\ HubInit
  /\ cur = [p \in Client |-> 0] /\ mount = [p \in Client |-> 1]
  /\ doc = [p \in Client |-> {}]
  /\ head = [p \in Client |-> 0]
  /\ outbox = [p \in Client |-> {}]
  /\ disk = [p \in Client |-> [doc |-> {}, head |-> 0, outbox |-> {}]]
  /\ denied = {} /\ quit = {}
  /\ presence = [p \in Client |-> {}] /\ fresh = [p \in Client |-> {}]
  /\ issued = [p \in Client |-> {}] /\ waived = {}
  /\ missed = [p \in Client |-> {}] /\ rebuffed = [p \in Client |-> {}] /\ unjoined = {}
  /\ breaks = 0 /\ awareness = 0 /\ failures = 0

-----------------------------------------------------------------------------
Plain == setting.kind = "plain"
Sock(p) == <<p, cur[p]>>
Online(p) == cur[p] > 0 /\ sock[Sock(p)] = "open"
ReplicaOf(p) == <<p, mount[p]>>

Sent(p, msgs) == IF Online(p) THEN [up EXCEPT ![Sock(p)] = @ \o msgs] ELSE up

AllHeard == \A p \in Client : Online(p) => down[Sock(p)] = <<>>

Logged == OpsSince(0)

(* insert or setText and afterLocal; or an update of the Y.Doc. *)
Edit(p) ==
  LET e == Cardinality(UNION {issued[q] : q \in Client}) + 1 IN
  /\ AllHeard /\ p \in setting.authors /\ issued[p] = {} /\ p \notin denied
  /\ doc' = [doc EXCEPT ![p] = @ \cup {e}]
  /\ outbox' = IF Plain THEN [outbox EXCEPT ![p] = @ \cup {e}] ELSE outbox
  /\ up' = Sent(p, <<OpMsg({e})>>)
  /\ issued' = [issued EXCEPT ![p] = @ \cup {e}]
  /\ UNCHANGED <<setting, sock, down, server, head, people, page, waived, harm>>

SetAwareness(p) ==
  /\ AllHeard /\ Plain /\ Online(p) /\ awareness < setting.cursors
  /\ up' = Sent(p, <<AwarenessMsg>>)
  /\ awareness' = awareness + 1
  /\ UNCHANGED <<setting, sock, down, server, local, presence, fresh, page, history, harm>>

(* A slip: the provider does not push what it has. *)
HelloWithoutState(p) == <<JoinMsg(ReplicaOf(p), IF Plain THEN head[p] ELSE 0)>>

(* onOpen: the room joins from its head; the provider joins afresh and     *)
(* pushes its whole state.                                                 *)
Hello(p) ==
  IF Plain THEN <<JoinMsg(ReplicaOf(p), head[p])>>
  ELSE <<JoinMsg(ReplicaOf(p), 0), OpMsg(doc[p])>>

(* What a join from its head does not bring a room that does not have it.  *)
Gap(p) == Logged \ (OpsSince(head[p]) \cup doc[p])

(* connect, and the socket opens. *)
Open(p) ==
  /\ AllHeard /\ ~ Online(p) /\ p \notin quit /\ cur[p] < MaxConns
  /\ LET c == <<p, cur[p] + 1>> IN
     /\ cur' = [cur EXCEPT ![p] = @ + 1]
     /\ sock' = [sock EXCEPT ![c] = "open"]
     /\ up' = [up EXCEPT ![c] = Hello(p)]
  /\ fresh' = [fresh EXCEPT ![p] = {}]
  /\ missed' = [missed EXCEPT ![p] = Gap(p)]
  /\ rebuffed' = [rebuffed EXCEPT ![p] = {}]
  /\ unjoined' = unjoined \ {p}
  /\ UNCHANGED <<setting, down, server, local, presence, awareness, failures,
                 mount, disk, denied, quit, breaks, history>>

(* The client is rid of its socket; k of its messages still arrive. *)
Leave(p, k) ==
  /\ sock' = [sock EXCEPT ![Sock(p)] = "left"]
  /\ up' = [up EXCEPT ![Sock(p)] = SubSeq(@, 1, k)]
  /\ down' = [down EXCEPT ![Sock(p)] = <<>>]

Break(p) ==
  /\ p \in Flaky /\ Online(p) /\ breaks < MaxBreaks
  /\ \E k \in 0 .. Len(up[Sock(p)]) : Leave(p, k)
  /\ breaks' = breaks + 1
  /\ UNCHANGED <<setting, server, local, people,
                 cur, mount, disk, denied, quit, history, harm>>

(* persist takes a room's record, whole and of one moment; save, when its  *)
(* turn comes, puts it in the place of the last.  y-indexeddb adds to what *)
(* it has, when it gets to it.                                             *)
Record(p) ==
  [doc |-> doc[p] \cup (IF Plain THEN {} ELSE disk[p].doc), head |-> head[p], outbox |-> outbox[p]]

Save(p) ==
  /\ AllHeard /\ p \in Flaky /\ setting.reloads /\ breaks < MaxBreaks
  /\ disk' = [disk EXCEPT ![p] = Record(p)]
  /\ UNCHANGED <<hubVars, local, people, cur, mount, denied, quit, breaks, history, harm>>

(* A room is ready with what storage holds before it connects; what was    *)
(* not saved is gone.                                                      *)
Ready(p) ==
  /\ doc' = [doc EXCEPT ![p] = disk[p].doc]
  /\ head' = [head EXCEPT ![p] = disk[p].head]
  /\ outbox' = [outbox EXCEPT ![p] = disk[p].outbox]
  /\ waived' = waived \cup (outbox[p] \ disk[p].outbox)

(* The provider connects with an empty document while y-indexeddb has yet  *)
(* to load.                                                                *)
Remount(p) ==
  /\ doc' = [doc EXCEPT ![p] = {}]
  /\ waived' = waived \cup ((doc[p] \ disk[p].doc) \cap issued[p])
  /\ UNCHANGED <<head, outbox>>

(* The page is left and loaded again: a new replica. *)
Reload(p) ==
  /\ p \in Flaky /\ setting.reloads /\ breaks < MaxBreaks
  /\ IF Online(p)
     THEN \E k \in 0 .. Len(up[Sock(p)]) : Leave(p, k)
     ELSE UNCHANGED wires
  /\ IF Plain THEN Ready(p) ELSE Remount(p)
  /\ denied' = denied \ {p} /\ quit' = quit \ {p}
  /\ presence' = [presence EXCEPT ![p] = {}] /\ fresh' = [fresh EXCEPT ![p] = {}]
  /\ mount' = [mount EXCEPT ![p] = @ + 1]
  /\ breaks' = breaks + 1
  /\ UNCHANGED <<setting, server, cur, disk, awareness, issued, harm>>

(* y-indexeddb has loaded: updates like any other. *)
Load(p) ==
  /\ AllHeard /\ ~ Plain /\ ~ disk[p].doc \subseteq doc[p]
  /\ doc' = [doc EXCEPT ![p] = @ \cup disk[p].doc]
  /\ up' = Sent(p, <<OpMsg(disk[p].doc)>>)
  /\ UNCHANGED <<setting, sock, down, server, head, outbox, people, page, history, harm>>

-----------------------------------------------------------------------------
(* What the server sends *)

Hears(p, type) ==
  /\ Online(p) /\ down[Sock(p)] # <<>> /\ Head(down[Sock(p)]).type = type
  /\ down' = [down EXCEPT ![Sock(p)] = Tail(@)]
  /\ UNCHANGED <<setting, server, issued, failures, rebuffed, unjoined>>

Raise(h, n) == IF n > h THEN n ELSE h

(* integrate: applied, confirmed, and the head raised. *)
Integrate(p, edits, seq) ==
  /\ doc' = [doc EXCEPT ![p] = @ \cup edits]
  /\ head' = IF Plain THEN [head EXCEPT ![p] = Raise(@, seq)] ELSE head
  /\ outbox' = [outbox EXCEPT ![p] = @ \ edits]

InOrder(edits) ==
  CHOOSE s \in [1 .. Cardinality(edits) -> edits] : \A i, j \in DOMAIN s : i < j => s[i] < s[j]

(* A slip: everything counts as confirmed. *)
OnWelcomeConfirmsAll(p) ==
  /\ Hears(p, "welcome")
  /\ LET msg == Head(down[Sock(p)]) IN
     /\ doc' = [doc EXCEPT ![p] = @ \cup msg.ops]
     /\ head' = IF Plain THEN [head EXCEPT ![p] = Raise(@, msg.head)] ELSE head
  /\ outbox' = [outbox EXCEPT ![p] = {}]
  /\ UNCHANGED <<sock, up, people, page, waived, missed>>

(* A room then resends what it has not heard of. *)
OnWelcome(p) ==
  /\ Hears(p, "welcome")
  /\ LET msg == Head(down[Sock(p)])
         box == InOrder(outbox[p] \ msg.ops)
     IN  /\ Integrate(p, msg.ops, msg.head)
         /\ up' = Sent(p, [i \in DOMAIN box |-> OpMsg({box[i]})])
  /\ UNCHANGED <<sock, people, page, waived, missed>>

OnStored(p) ==
  /\ Hears(p, "stored")
  /\ LET msg == Head(down[Sock(p)]) IN Integrate(p, msg.op, msg.seq)
  /\ UNCHANGED <<sock, up, people, page, waived, missed>>

(* Rooms keep a presence map; for the provider this is y-protocols' part.  *)
OnAwarenessMsg(p) ==
  /\ Hears(p, "awareness")
  /\ LET replica == Head(down[Sock(p)]).replica IN
     /\ presence' = [presence EXCEPT ![p] = @ \cup {replica}]
     /\ fresh' = [fresh EXCEPT ![p] = @ \cup {replica}]
  /\ UNCHANGED <<sock, up, local, awareness, page, waived, missed>>

OnLeaveMsg(p) ==
  /\ Hears(p, "leave")
  /\ presence' = [presence EXCEPT ![p] = @ \ {Head(down[Sock(p)]).replica}]
  /\ UNCHANGED <<sock, up, local, fresh, awareness, page, waived, missed>>

Refusal(p, code) ==
  /\ Plain /\ Hears(p, "error") /\ Head(down[Sock(p)]).code = code
  /\ denied' = denied \cup {p}

(* A slip: the room keeps its head and so its old state of the document. *)
OnWriteRefusedKeepsHead(p) ==
  /\ Refusal(p, "forbidden-write")
  /\ doc' = [doc EXCEPT ![p] = {}]
  /\ outbox' = [outbox EXCEPT ![p] = {}]
  /\ waived' = waived \cup outbox[p]
  /\ up' = Sent(p, <<JoinMsg(ReplicaOf(p), head[p])>>)
  /\ missed' = [missed EXCEPT ![p] = {}]
  /\ UNCHANGED <<sock, head, people, cur, mount, disk, quit, breaks>>

(* resyncFromServer: drop everything and join afresh. *)
OnWriteRefused(p) ==
  /\ Refusal(p, "forbidden-write")
  /\ doc' = [doc EXCEPT ![p] = {}]
  /\ head' = [head EXCEPT ![p] = 0]
  /\ outbox' = [outbox EXCEPT ![p] = {}]
  /\ waived' = waived \cup outbox[p]
  /\ up' = Sent(p, <<JoinMsg(ReplicaOf(p), 0)>>)
  /\ missed' = [missed EXCEPT ![p] = {}]
  /\ UNCHANGED <<sock, people, cur, mount, disk, quit, breaks>>

(* No access: disconnect for good. *)
OnReadRefused(p) ==
  /\ Plain /\ Online(p) /\ down[Sock(p)] # <<>>
  /\ Head(down[Sock(p)]) = ErrorMsg("forbidden-read")
  /\ denied' = denied \cup {p} /\ quit' = quit \cup {p}
  /\ Leave(p, Len(up[Sock(p)]))
  /\ UNCHANGED <<setting, server, local, people, cur, mount, disk, breaks, history, harm>>

(* Other errors are logged; the provider does not even look at errors. *)
OnOtherError(p) ==
  /\ Hears(p, "error")
  /\ Plain => Head(down[Sock(p)]).code = "none"
  /\ UNCHANGED <<sock, up, local, people, page, waived, missed>>

Handle(p) ==
  \/ OnWelcome(p) \/ OnStored(p) \/ OnAwarenessMsg(p) \/ OnLeaveMsg(p)
  \/ OnWriteRefused(p) \/ OnReadRefused(p) \/ OnOtherError(p)

ServerStep == AllHeard /\ HubStep /\ UNCHANGED <<local, people, page, history, harm>>

(* A handler of the server throws.  Its operation is rebuffed, or stored   *)
(* with nobody told; its join brings nothing.                              *)
HandlerThrows(c, i) ==
  /\ AllHeard /\ failures < setting.failures /\ failures' = failures + 1
  /\ Fails(c, i)
  /\ LET task == tasks[c][i]
         present == {p \in Client : Sock(p) = c}
     IN  IF "op" \in DOMAIN task
         THEN /\ rebuffed' = [p \in Client |->
                               rebuffed[p] \cup (IF p \in present THEN task.op ELSE {})]
              /\ missed' = [p \in Client |->
                             missed[p] \cup (IF log' = log THEN {} ELSE task.op)]
              /\ UNCHANGED unjoined
         ELSE unjoined' = unjoined \cup present /\ UNCHANGED <<rebuffed, missed>>
  /\ UNCHANGED <<local, people, page, history>>

Lose(p) == Break(p) \/ Reload(p)
Act(p) == Edit(p) \/ SetAwareness(p) \/ Open(p) \/ Save(p) \/ Load(p)

Next ==
  \/ ServerStep
  \/ \E c \in Conn : \E i \in DOMAIN tasks[c] : HandlerThrows(c, i)
  \/ \E p \in Client : Handle(p) \/ Lose(p) \/ Act(p)

(* The instances and the sockets work, the timers reconnect, y-indexeddb   *)
(* loads.  Users may stop; nothing has to break or throw.                  *)
Fairness ==
  /\ WF_vars(ServerStep)
  /\ \A p \in Client : WF_vars(Open(p)) /\ WF_vars(Load(p)) /\ WF_vars(Handle(p))

Spec == Init /\ [][Next]_vars /\ Fairness

-----------------------------------------------------------------------------
TypeOK ==
  /\ \A c \in Conn :
       /\ sock[c] \in {"new", "open", "left", "closed"}
       /\ bound[c] = NoReplica \/ bound[c][1] = c[1]
  /\ room \subseteq {c \in Conn : bound[c] # NoReplica}
  /\ \A p \in Client :
       /\ doc[p] \cup outbox[p] \subseteq 1 .. Cardinality(Client)
       /\ head[p] \in 0 .. Len(log) /\ cur[p] \in 0 .. MaxConns
  /\ denied \cup quit \subseteq Client
  /\ waived \subseteq 1 .. Cardinality(Client) /\ breaks \in 0 .. MaxBreaks
  /\ unjoined \subseteq Client /\ failures \in 0 .. setting.failures

(* An edit is in the log, or its author still has it to send: in the       *)
(* outbox, for the provider in the document or on disk (room.ts:37-40,     *)
(* birga-yjs-provider.ts:113-114).  Unless it was refused, or the page     *)
(* left before it was saved.                                               *)
NoEditLost ==
  \A p \in Client :
    issued[p] \ waived \subseteq
      Logged \cup (IF Plain THEN outbox[p] ELSE doc[p] \cup disk[p].doc)

(* Nothing is on the wire or half done, and whoever may is connected. *)
Quiet ==
  /\ \A c \in Conn : up[c] = <<>> /\ down[c] = <<>> /\ tasks[c] = <<>> /\ sock[c] # "left"
  /\ \A i \in Instance : bus[i] = <<>>
  /\ \A p \in Client : Online(p) \/ p \in quit
  /\ \A p \in Client : Plain \/ disk[p].doc \subseteq doc[p]

(* The document is the log, and nothing waits to be sent, but for what the *)
(* present socket missed by its head or a handler's throw.                 *)
UpToDate(p) ==
  \/ p \in quit \cup unjoined
  \/ /\ Logged \ missed[p] \subseteq doc[p]
     /\ doc[p] \subseteq Logged \cup rebuffed[p]
     /\ outbox[p] \subseteq rebuffed[p]

(* The hub's promise, as far as it goes: when all is delivered, every      *)
(* document is the log, and nothing waits to be sent; a room that was      *)
(* refused shows the server's truth (hub.ts:38-40, room.ts:201-206).       *)
(* The provider under an authorizer is apart: EveryOpIsPersisted.          *)
QuietMeansShared ==
  Quiet /\ (Plain \/ ~ enforce) => \A p \in Client : UpToDate(p)

(* "A replica that missed ops catches up without gaps or dupes"            *)
(* (docs/TZ.md:82).                                                        *)
CatchesUp == Quiet /\ Plain => \A p \in Client : p \in quit \/ Logged \subseteq doc[p]

(* "Every op is persisted once" (hub.ts:38-40): when all is delivered, the *)
(* log has the edits of everyone who may write, those a provider pushes    *)
(* "so peers merge it" among them (birga-yjs-provider.ts:113-114).         *)
EveryOpIsPersisted ==
  Quiet => \A p \in Client :
    p \in quit \/ (enforce /\ role[p] # "editor") \/ issued[p] \ waived \subseteq Logged

(* And all is delivered, once users pause and sockets stay up. *)
EventuallyShared ==
  <>[]((Plain \/ ~ enforce) => \A p \in Client : UpToDate(p))

(* With an authorizer only editors' edits are stored, and who has no role  *)
(* sees nobody's (authz.ts:24-30).                                         *)
RolesHold ==
  enforce =>
    /\ Logged \subseteq UNION {issued[p] : p \in {q \in Client : role[q] = "editor"}}
    /\ \A p \in Client : role[p] = "none" => doc[p] \cup disk[p].doc \subseteq issued[p]

(* Whom a room heard of on its present socket and still shows has a socket *)
(* the server has not seen closed: a leave reaches everyone who was told   *)
(* of its replica, on any instance, and not before (hub.ts:174-184).       *)
NoFreshGhosts ==
  Quiet => \A p \in Client : Online(p) => \A replica \in fresh[p] \cap presence[p] :
    \E c \in Conn : bound[c] = replica /\ sock[c] # "closed"
=============================================================================
