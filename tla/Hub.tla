-------------------------------- MODULE Hub ---------------------------------
(***************************************************************************)
(* The server side of a document: class Hub (apps/server/src/hub.ts) on    *)
(* every instance, with the fan-out between instances (fanout.ts,          *)
(* redis.ts), the authorizer (authz.ts) and a log that all instances share *)
(* (SharedStore's log, never compacted here: an operation's number is its  *)
(* place).  A handler stops at each await; handlers of one socket and of   *)
(* others go on meanwhile, so the rest of it waits in tasks.  The two      *)
(* reads of a join are one step: the log only grows, and reading its head  *)
(* first only makes the welcome's head smaller than what it brings.        *)
(*                                                                         *)
(* A connection is <<client, n>>, its nth socket.  up and down are what is *)
(* on the wire; a socket the client has left is "left" until the server    *)
(* has read what was still on the wire and its close.  An operation is the *)
(* set of edits it carries.                                                *)
(***************************************************************************)
EXTENDS Naturals, SequencesExt, FiniteSets

CONSTANTS Client, Instance, MaxConns, MaxTasks, Home, Settings

ASSUME HubAssumption ==
  /\ MaxConns \in Nat \ {0} /\ MaxTasks \in Nat \ {0}
  /\ \A s \in Settings :
       s.enforce \in BOOLEAN /\ s.role \in [Client -> {"editor", "viewer", "none"}]

Conn == Client \X (1 .. MaxConns)

(* Home: the instance a socket is routed to. *)
ASSUME HomeAssumption == Home \in [Conn -> Instance]

VARIABLES
  setting,          \* never changes: with an authorizer? the roles
  sock,             \* "new", "open", "left", "closed"
  up, down,
  bound, room,      \* replicaByDoc: the replica, or NoReplica; the rooms
  tasks,            \* of each socket, what its handlers have yet to do
  bus,              \* to each instance, what the others published
  log

enforce == setting.enforce
role == setting.role
wires == <<sock, up, down>>
server == <<bound, room, tasks, bus, log>>
hubVars == <<setting, wires, server>>

NoReplica == <<>>

HubInit ==
  /\ setting \in Settings
  /\ sock = [c \in Conn |-> "new"]
  /\ up = [c \in Conn |-> <<>>]
  /\ down = [c \in Conn |-> <<>>]
  /\ bound = [c \in Conn |-> NoReplica]
  /\ room = {}
  /\ tasks = [c \in Conn |-> <<>>]
  /\ bus = [i \in Instance |-> <<>>]
  /\ log = <<>>

-----------------------------------------------------------------------------
JoinMsg(replica, since) == [type |-> "join", replica |-> replica, since |-> since]
OpMsg(op) == [type |-> "op", op |-> op]
AwarenessMsg == [type |-> "awareness"]

WelcomeMsg(ops, top) == [type |-> "welcome", ops |-> ops, head |-> top]
StoredMsg(seq, op) == [type |-> "stored", seq |-> seq, op |-> op]
PeerMsg(type, replica) == [type |-> type, replica |-> replica]
ErrorMsg(code) == [type |-> "error", code |-> code]

(* send, to each of a set of sockets: only an open one hears it. *)
SendTo(conns, msg) ==
  down' = [c \in Conn |->
    IF c \in conns /\ sock[c] = "open" THEN Append(down[c], msg) ELSE down[c]]

Members(i) == {c \in room : Home[c] = i}

Publish(i, msg) ==
  bus' = [j \in Instance |-> IF j = i THEN bus[j] ELSE Append(bus[j], msg)]

(* broadcastLocal and publish. *)
Spread(c, except, msg) ==
  /\ SendTo(Members(Home[c]) \ except, msg)
  /\ Publish(Home[c], msg)

Suspend(c, task) ==
  /\ Cardinality({t \in Conn \X (1 .. MaxTasks) : t[2] \in DOMAIN tasks[t[1]]}) < MaxTasks
  /\ tasks' = [tasks EXCEPT ![c] = Append(@, task)]
Resume(c, i, task) == tasks' = [tasks EXCEPT ![c][i] = task]
Finish(c, i) == tasks' = [tasks EXCEPT ![c] = RemoveAt(@, i)]

(* The operations after a number, and the edits they carry. *)
OpsSince(n) == UNION {log[k] : k \in (n + 1) .. Len(log)}

-----------------------------------------------------------------------------
(* The server reads a message of a socket *)

Reads(c, type) ==
  /\ sock[c] \in {"open", "left"} /\ up[c] # <<>> /\ Head(up[c]).type = type
  /\ up' = [up EXCEPT ![c] = Tail(@)]
  /\ UNCHANGED <<setting, sock>>

Enter(c, replica) ==
  /\ bound' = [bound EXCEPT ![c] = replica]
  /\ room' = room \cup {c}

(* onJoin, to its first await: the authorizer, or the reads of the store. *)
OnJoin(c) ==
  /\ Reads(c, "join")
  /\ LET msg == Head(up[c]) IN
     IF enforce
     THEN /\ Suspend(c, [pc |-> "authorize join", msg |-> msg])
          /\ UNCHANGED <<bound, room>>
     ELSE /\ Suspend(c, [pc |-> "welcome", msg |-> msg])
          /\ Enter(c, msg.replica)
  /\ UNCHANGED <<down, bus, log>>

JoinAuthorized(c, i) ==
  /\ tasks[c][i].pc = "authorize join"
  /\ IF role[c[1]] = "none"
     THEN SendTo({c}, ErrorMsg("forbidden-read")) /\ Finish(c, i) /\ UNCHANGED <<bound, room>>
     ELSE /\ Enter(c, tasks[c][i].msg.replica)
          /\ Resume(c, i, [tasks[c][i] EXCEPT !.pc = "welcome"])
          /\ UNCHANGED down
  /\ UNCHANGED <<setting, sock, up, bus, log>>

SendWelcome(c, i) ==
  /\ tasks[c][i].pc = "welcome"
  /\ SendTo({c}, WelcomeMsg(OpsSince(tasks[c][i].msg.since), Len(log)))
  /\ Finish(c, i)
  /\ UNCHANGED <<setting, sock, up, bound, room, bus, log>>

(* onOp: refused before the join, authorized, appended, then spread. *)
OnOp(c) ==
  /\ Reads(c, "op")
  /\ IF bound[c] = NoReplica
     THEN SendTo({c}, ErrorMsg("none")) /\ UNCHANGED tasks
     ELSE /\ Suspend(c, [pc |-> IF enforce THEN "authorize op" ELSE "append",
                         op |-> Head(up[c]).op])
          /\ UNCHANGED down
  /\ UNCHANGED <<bound, room, bus, log>>

(* A slip: any role may write. *)
OpAuthorizedForAny(c, i) ==
  /\ tasks[c][i].pc = "authorize op"
  /\ IF role[c[1]] # "none"
     THEN Resume(c, i, [tasks[c][i] EXCEPT !.pc = "append"]) /\ UNCHANGED down
     ELSE SendTo({c}, ErrorMsg("forbidden-write")) /\ Finish(c, i)
  /\ UNCHANGED <<setting, sock, up, bound, room, bus, log>>

OpAuthorized(c, i) ==
  /\ tasks[c][i].pc = "authorize op"
  /\ IF role[c[1]] = "editor"
     THEN Resume(c, i, [tasks[c][i] EXCEPT !.pc = "append"]) /\ UNCHANGED down
     ELSE SendTo({c}, ErrorMsg("forbidden-write")) /\ Finish(c, i)
  /\ UNCHANGED <<setting, sock, up, bound, room, bus, log>>

(* A slip: the number is one too high. *)
AppendOpMisnumbered(c, i) ==
  /\ tasks[c][i].pc = "append"
  /\ log' = Append(log, tasks[c][i].op)
  /\ Resume(c, i, [pc |-> "spread", seq |-> Len(log) + 2, op |-> tasks[c][i].op])
  /\ UNCHANGED <<setting, wires, bound, room, bus>>

AppendOp(c, i) ==
  /\ tasks[c][i].pc = "append"
  /\ log' = Append(log, tasks[c][i].op)
  /\ Resume(c, i, [pc |-> "spread", seq |-> Len(log) + 1, op |-> tasks[c][i].op])
  /\ UNCHANGED <<setting, wires, bound, room, bus>>

SpreadOp(c, i) ==
  /\ tasks[c][i].pc = "spread"
  /\ Spread(c, {}, StoredMsg(tasks[c][i].seq, tasks[c][i].op))
  /\ Finish(c, i)
  /\ UNCHANGED <<setting, sock, up, bound, room, log>>

OnAwareness(c) ==
  /\ Reads(c, "awareness")
  /\ IF bound[c] = NoReplica THEN UNCHANGED <<down, bus>>
     ELSE Spread(c, {c}, PeerMsg("awareness", bound[c]))
  /\ UNCHANGED <<bound, room, tasks, log>>

(* A slip: nobody is told of a leave. *)
OnCloseSilent(c) ==
  /\ sock[c] = "left" /\ up[c] = <<>>
  /\ sock' = [sock EXCEPT ![c] = "closed"]
  /\ room' = room \ {c}
  /\ UNCHANGED <<setting, up, down, bound, tasks, bus, log>>

(* The close comes after all that was sent (or the heartbeat missed a pong *)
(* and terminated the socket). The replica stays bound.                    *)
OnClose(c) ==
  /\ sock[c] = "left" /\ up[c] = <<>>
  /\ sock' = [sock EXCEPT ![c] = "closed"]
  /\ room' = room \ {c}
  /\ IF bound[c] = NoReplica THEN UNCHANGED <<down, bus>>
     ELSE Spread(c, {c}, PeerMsg("leave", bound[c]))
  /\ UNCHANGED <<setting, up, bound, tasks, log>>

(* A message of another instance reaches this one's members. *)
FanOut(i) ==
  /\ bus[i] # <<>>
  /\ SendTo(Members(i), Head(bus[i]))
  /\ bus' = [bus EXCEPT ![i] = Tail(@)]
  /\ UNCHANGED <<setting, sock, up, bound, room, tasks, log>>

(* What a handler awaits throws: the authorizer, the store's reads, or the *)
(* append, with the operation stored all the same or not.                  *)
Fails(c, i) ==
  /\ tasks[c][i].pc # "spread"
  /\ \/ UNCHANGED log
     \/ tasks[c][i].pc = "append" /\ log' = Append(log, tasks[c][i].op)
  /\ SendTo({c}, ErrorMsg("none"))
  /\ Finish(c, i)
  /\ UNCHANGED <<setting, sock, up, bound, room, bus>>

HubStep ==
  \/ \E c \in Conn :
       \/ OnJoin(c) \/ OnOp(c) \/ OnAwareness(c) \/ OnClose(c)
       \/ \E i \in DOMAIN tasks[c] :
            \/ JoinAuthorized(c, i) \/ SendWelcome(c, i)
            \/ OpAuthorized(c, i) \/ AppendOp(c, i) \/ SpreadOp(c, i)
  \/ \E i \in Instance : FanOut(i)

=============================================================================
