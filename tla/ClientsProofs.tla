-------------- MODULE ClientsProofs -----------------------------------------
(***************************************************************************)
(* The inductive invariants of Clients and four of its safety properties:  *)
(* no edit lost (NoEditLost), roles enforced (RolesHold), no replica shown *)
(* for ever that has gone (NoFreshGhosts), and whenever nothing is on its  *)
(* way all who may be connected show what is logged (QuietMeansShared);    *)
(* with the types, for every number of clients, sockets, instances and     *)
(* throwing handlers.                                                      *)
(*                                                                         *)
(* Sound, the conjunction of what ClientsTyping keeps, is inductive and    *)
(* holds of every behaviour; the others are inductive beside it. Sources   *)
(* says where edits come from: everything that is on its way is its        *)
(* author's or logged. Roles says of every place an edit or a reply can    *)
(* be that its role allows it there. For presence, LeaveFollows,           *)
(* HeardInRoom and GhostsLeave follow a replica from its last socket's     *)
(* close to the leave message that every other client receives after the   *)
(* last awareness message.                                                 *)
(*                                                                         *)
(* The invariant of QuietMeansShared follows an edit of the log to a       *)
(* client (Joined, Reached: one that a client lacks it missed, or will be  *)
(* welcomed with, or is about to be told of, or its instance is) and an    *)
(* edit to the log (Queued, Drafts, Pushed, NoBox: what an outbox still    *)
(* holds is on its way, waits for its handler, or was refused or           *)
(* rebuffed). When nothing is on its way, the first leaves no edit lacking *)
(* but the missed, and the second none unsent but the rebuffed.            *)
(***************************************************************************)
EXTENDS ClientsTyping

(* The setting is chosen once. *)
LEMMA SettingStep ==
  ASSUME Typed, Numbered, [Next]_vars
  PROVE  setting' = setting
<1>1. ASSUME NEW c \in Conn, OnJoin(c) \/ OnOp(c) \/ OnAwareness(c) PROVE setting' = setting
  BY <1>1, OnJoinEffect, OnOpEffect, OnAwarenessEffect DEF TakenOff
<1>2. ASSUME NEW c \in Conn, OnClose(c) PROVE setting' = setting
  BY <1>2, OnCloseEffect
<1>3. ASSUME NEW c \in Conn, NEW i \in DOMAIN tasks[c],
             \/ JoinAuthorized(c, i) \/ SendWelcome(c, i)
             \/ OpAuthorized(c, i) \/ AppendOp(c, i) \/ SpreadOp(c, i) \/ HandlerThrows(c, i)
      PROVE  setting' = setting
  BY <1>3, JoinAuthorizedEffect, SendWelcomeEffect, OpAuthorizedEffect, AppendOpEffect, SpreadOpEffect,
     HandlerThrowsEffect
<1>4. ASSUME NEW i \in Instance, FanOut(i) PROVE setting' = setting
  BY <1>4, FanOutEffect
<1>5. ASSUME NEW p \in Client,
             \/ Edit(p) \/ SetAwareness(p) \/ Open(p) \/ Save(p) \/ Load(p)
             \/ Break(p) \/ Reload(p)
      PROVE  setting' = setting
  BY <1>5, EditEffect, SetAwarenessEffect, OpenEffect, SaveEffect, LoadEffect, BreakEffect,
     ReloadEffect
  DEF hubVars
<1>6. ASSUME NEW p \in Client,
             \/ OnWelcome(p) \/ OnStored(p) \/ OnAwarenessMsg(p) \/ OnLeaveMsg(p)
             \/ OnWriteRefused(p) \/ OnReadRefused(p) \/ OnOtherError(p)
      PROVE  setting' = setting
  BY <1>6, OnWelcomeEffect, OnStoredEffect, OnAwarenessMsgEffect, OnLeaveMsgEffect,
     OnWriteRefusedEffect, OnReadRefusedEffect, OnOtherErrorEffect
<1>7. CASE UNCHANGED vars
  BY <1>7 DEF vars, hubVars
<1> QED BY <1>1, <1>2, <1>3, <1>4, <1>5, <1>6, <1>7, StepCases

-----------------------------------------------------------------------------
(* The log only grows *)

(* Only an append changes it, or the handler of one that throws. *)
LEMMA LogBy ==
  ASSUME Typed, Numbered, [Next]_vars
  PROVE  \/ UNCHANGED log
         \/ \E c \in Conn : \E i \in DOMAIN tasks[c] : AppendOp(c, i) \/ HandlerThrows(c, i)
<1>1. ASSUME NEW c \in Conn, OnJoin(c) \/ OnOp(c) \/ OnAwareness(c) \/ OnClose(c) PROVE UNCHANGED log
  BY <1>1, OnJoinEffect, OnOpEffect, OnAwarenessEffect, OnCloseEffect
<1>2. ASSUME NEW c \in Conn, NEW i \in DOMAIN tasks[c],
             JoinAuthorized(c, i) \/ SendWelcome(c, i) \/ OpAuthorized(c, i) \/ SpreadOp(c, i)
      PROVE  UNCHANGED log
  BY <1>2, JoinAuthorizedEffect, SendWelcomeEffect, OpAuthorizedEffect, SpreadOpEffect
<1>3. ASSUME NEW i \in Instance, FanOut(i) PROVE UNCHANGED log
  BY <1>3, FanOutEffect
<1>4. ASSUME NEW p \in Client,
             \/ Edit(p) \/ SetAwareness(p) \/ Open(p) \/ Save(p) \/ Load(p)
             \/ Break(p) \/ Reload(p)
      PROVE  UNCHANGED log
  BY <1>4, EditEffect, SetAwarenessEffect, OpenEffect, SaveEffect, LoadEffect, BreakEffect,
     ReloadEffect
  DEF hubVars, server
<1>5. ASSUME NEW p \in Client,
             \/ OnWelcome(p) \/ OnStored(p) \/ OnAwarenessMsg(p) \/ OnLeaveMsg(p)
             \/ OnWriteRefused(p) \/ OnReadRefused(p) \/ OnOtherError(p)
      PROVE  UNCHANGED log
  BY <1>5, OnWelcomeEffect, OnStoredEffect, OnAwarenessMsgEffect, OnLeaveMsgEffect,
     OnWriteRefusedEffect, OnReadRefusedEffect, OnOtherErrorEffect
  DEF server
<1>6. CASE UNCHANGED vars
  BY <1>6 DEF vars, hubVars, server
<1> QED BY <1>1, <1>2, <1>3, <1>4, <1>5, <1>6, StepCases

(* The task logged: an append of c that waits. *)
Appended(c, old) ==
  old \in Tasks(c) /\ old.pc = "append" /\ old.op \in SUBSET Edits /\ Logged1(old.op)

(* Either logs the operation of a task. *)
LEMMA LogStep ==
  ASSUME Typed, Numbered, [Next]_vars
  PROVE  UNCHANGED log \/ \E c \in Conn, old \in OpTasks : Appended(c, old)
<1>1. ASSUME NEW c \in Conn, NEW i \in DOMAIN tasks[c], AppendOp(c, i)
      PROVE  \E old \in OpTasks : Appended(c, old)
  BY <1>1, AppendOpEffect DEF Resumed, Appended
<1>2. ASSUME NEW c \in Conn, NEW i \in DOMAIN tasks[c], HandlerThrows(c, i)
      PROVE  UNCHANGED log \/ \E old \in OpTasks : Appended(c, old)
  BY <1>2, HandlerThrowsEffect DEF Finished, Harmed, Appended
<1> QED BY <1>1, <1>2, LogBy

(* What is logged stays, under its number. *)
LEMMA EntriesStay ==
  ASSUME Typed, Numbered, [Next]_vars
  PROVE  /\ Len(log) \in Nat /\ Len(log') \in Nat /\ Len(log) <= Len(log')
         /\ \A k \in 1 .. Len(log) : log'[k] = log[k]
         /\ \A n : n <= Len(log) /\ n \in Nat => n <= Len(log')
         /\ \A x : LogsOne(x) => LogsOne(x)'
         /\ Logged \subseteq Logged'
<1>1. Typed'
  BY TypedStep
<1>2. Len(log) \in Nat /\ Len(log') \in Nat
  BY <1>1 DEF Typed, HubTyped
<1>3. Len(log) <= Len(log') /\ \A k \in 1 .. Len(log) : log'[k] = log[k]
  <2>1. UNCHANGED log \/ \E edits : Logged1(edits)
    BY LogStep DEF Appended
  <2> QED BY <1>2, <2>1 DEF Logged1
<1>4. \A x : LogsOne(x) => LogsOne(x)'
  BY <1>2, <1>3 DEF LogsOne
<1>5. Logged \subseteq Logged'
  <2>1. \A e : e \in Logged <=> \E k \in 1 .. Len(log) : 0 < k /\ e \in log[k]
    BY LogFacts DEF Logged
  <2>2. Logged' = UNION {log'[k] : k \in 1 .. Len(log')}
    BY DEF Logged, OpsSince
  <2> QED BY <1>2, <1>3, <2>1, <2>2
<1> QED BY <1>2, <1>3, <1>4, <1>5

(* What an append logs. *)
LEMMA LogAdds ==
  ASSUME Typed, Numbered, NEW edits \in SUBSET Edits, Logged1(edits)
  PROVE  Logged' = Logged \cup edits
<1>1. Len(log) \in Nat
  BY DEF Typed, HubTyped
<1>2. \A e : e \in Logged <=> \E k \in 1 .. Len(log) : 0 < k /\ e \in log[k]
  BY LogFacts DEF Logged
<1>3. Logged' = UNION {log'[k] : k \in 1 .. Len(log')}
  BY DEF Logged, OpsSince
<1> QED BY <1>1, <1>2, <1>3 DEF Logged1

(* The edits logged are those of the entries. *)
LEMMA LoggedFacts ==
  ASSUME Typed
  PROVE  /\ Logged \subseteq Edits
         /\ \A e : e \in Logged <=> \E k \in 1 .. Len(log) : e \in log[k]
         /\ \A k \in 1 .. Len(log) : log[k] \subseteq Logged
         /\ \A n \in Nat : OpsSince(n) \subseteq Logged
         /\ \A n \in Nat : \A k \in 1 .. Len(log) : n < k => log[k] \subseteq OpsSince(n)
<1>1. \A e : e \in Logged <=> \E k \in 1 .. Len(log) : 0 < k /\ e \in log[k]
  BY LogFacts DEF Logged
<1>2. \A e : e \in Logged <=> \E k \in 1 .. Len(log) : e \in log[k]
  BY <1>1, LogFacts
<1>3. Logged \subseteq Edits
  BY LogFacts DEF Logged
<1>4. \A n \in Nat : \A e : e \in OpsSince(n) <=> \E k \in 1 .. Len(log) : n < k /\ e \in log[k]
  BY LogFacts
<1> QED BY <1>2, <1>3, <1>4

-----------------------------------------------------------------------------
(* Heads *)

(* The higher of two numbers. *)
LEMMA RaiseFacts ==
  \A h, n \in Nat : /\ Raise(h, n) \in Nat /\ h <= Raise(h, n) /\ n <= Raise(h, n)
                    /\ \A m \in Nat : h <= m /\ n <= m => Raise(h, n) <= m
                    /\ \A k \in Nat : k <= Raise(h, n) => k <= h \/ k <= n
BY DEF Raise

(* A room's head, and the one it saved, is one the server told of. *)
LEMMA HeadStep ==
  ASSUME Typed, Numbered, Heads, [Next]_vars
  PROVE  \A p \in Client : head'[p] <= Len(log) /\ disk'[p].head <= Len(log)
<1> DEFINE B == \A p \in Client : head'[p] <= Len(log) /\ disk'[p].head <= Len(log)
<1>0. /\ \A p \in Client : /\ head[p] <= Len(log) /\ disk[p].head <= Len(log)
                           /\ head[p] \in Nat /\ disk[p].head \in Nat
      /\ Len(log) \in Nat
  BY DEF Heads, Typed, HubTyped, LocalTyped
<1>1. ASSUME UNCHANGED <<head, disk>> PROVE B
  BY <1>0, <1>1
<1>2. ASSUME NEW p \in Client, OthersKeep(head, head', p), OthersKeep(disk, disk', p),
             head'[p] <= Len(log), disk'[p].head <= Len(log)
      PROVE  B
  BY <1>0, <1>2 DEF OthersKeep
<1>3. ASSUME NEW p \in Client, NEW n \in Nat, n <= Len(log), NEW edits,
             Integrated(p, edits, n), UNCHANGED disk
      PROVE  B
  <2>1. head'[p] <= Len(log)
    <3>1. head[p] \in Nat /\ head[p] <= Len(log)
      BY <1>0
    <3>2. Raise(head[p], n) <= Len(log)
      BY <1>0, <1>3, <3>1, RaiseFacts
    <3> QED BY <1>3, <3>1, <3>2 DEF Integrated
  <2> QED BY <1>0, <1>3, <2>1 DEF Integrated, OthersKeep
<1> HIDE DEF B
<1>4. ASSUME ServerOnly PROVE B
  BY <1>1, <1>4 DEF ServerOnly, local, page
<1>5. ASSUME NEW p \in Client, Edit(p) \/ SetAwareness(p) \/ Open(p) \/ Load(p) \/ Break(p)
      PROVE  B
  BY <1>1, <1>5, EditEffect, SetAwarenessEffect, OpenEffect, LoadEffect, BreakEffect
  DEF local, page
<1>6. ASSUME NEW p \in Client, Save(p) PROVE B
  BY <1>0, <1>6, SaveEffect DEF B, local, OthersKeep
<1>7. ASSUME NEW p \in Client, Reload(p) PROVE B
  <2>1. Reloaded(p) /\ OthersKeep(head, head', p) /\ UNCHANGED disk
    BY <1>7, ReloadEffect
  <2>2. head'[p] <= Len(log) /\ OthersKeep(disk, disk', p)
    BY <1>0, <2>1 DEF Reloaded, OthersKeep
  <2> QED BY <1>0, <1>2, <2>1, <2>2
<1>8. ASSUME NEW p \in Client, OnWelcome(p) PROVE B
  <2>1. PICK msg \in DownMsgs :
          /\ msg.type = "welcome" /\ HeardBy(p, msg) /\ msg.head \in Nat
          /\ Integrated(p, msg.ops, msg.head) /\ UNCHANGED disk /\ Sock(p) \in Conn
    BY <1>8, OnWelcomeEffect DEF page
  <2>2. msg.head <= Len(log)
    <3>1. msg \in Downs(Sock(p))
      BY <2>1 DEF HeardBy
    <3> QED BY <2>1, <3>1 DEF Heads
  <2> QED BY <1>3, <2>1, <2>2
<1>9. ASSUME NEW p \in Client, OnStored(p) PROVE B
  <2>1. PICK msg \in DownMsgs :
          /\ msg.type = "stored" /\ HeardBy(p, msg) /\ msg.seq \in Nat
          /\ Integrated(p, msg.op, msg.seq) /\ UNCHANGED disk /\ Sock(p) \in Conn
    BY <1>9, OnStoredEffect DEF page
  <2>2. LogsOne(msg)
    BY <2>1 DEF HeardBy, Heads
  <2>3. msg.seq <= Len(log)
    BY <1>0, <2>2 DEF LogsOne
  <2> QED BY <1>3, <2>1, <2>3
<1>10. ASSUME NEW p \in Client, OnAwarenessMsg(p) \/ OnLeaveMsg(p) \/ OnReadRefused(p) \/ OnOtherError(p)
       PROVE  B
  BY <1>1, <1>10, OnAwarenessMsgEffect, OnLeaveMsgEffect, OnReadRefusedEffect, OnOtherErrorEffect
  DEF local, page
<1>11. ASSUME NEW p \in Client, OnWriteRefused(p) PROVE B
  <2>1. head'[p] = 0 /\ OthersKeep(head, head', p) /\ UNCHANGED disk
    BY <1>11, OnWriteRefusedEffect
  <2> QED BY <1>0, <2>1 DEF B, OthersKeep
<1>12. ASSUME UNCHANGED vars PROVE B
  BY <1>1, <1>12 DEF vars, local, page
<1>13. B
  BY <1>4, <1>5, <1>6, <1>7, <1>8, <1>9, <1>10, <1>11, <1>12, StepCases
<1> QED BY <1>13 DEF B

(* At first every head is zero. *)
LEMMA HeadsInit == Init => Heads
<1> SUFFICES ASSUME Init PROVE Heads
  OBVIOUS
<1>1. /\ \A p \in Client : head[p] = 0 /\ disk[p].head = 0
      /\ \A c \in Conn : up[c] = <<>> /\ down[c] = <<>> /\ tasks[c] = <<>>
      /\ \A i \in Instance : bus[i] = <<>>
      /\ log = <<>>
  BY DEF Init, HubInit
<1>2. ToSet(<<>>) = {} /\ Len(<<>>) = 0
  BY DEF ToSet
<1>3. \A c \in Conn : Ups(c) = {} /\ Downs(c) = {} /\ Tasks(c) = {}
  BY <1>1, <1>2 DEF Ups, Downs, Tasks
<1>4. \A i \in Instance : Bus(i) = {}
  BY <1>1, <1>2 DEF Bus
<1>5. \A c \in Conn : Asked(c) = {}
  BY <1>3 DEF Asked
<1> QED BY <1>1, <1>2, <1>3, <1>4, <1>5 DEF Heads

(* Every step keeps what is said of heads. *)
LEMMA HeadsStep == Typed /\ Numbered /\ Sockets /\ Heads /\ [Next]_vars => Heads'
<1> SUFFICES ASSUME Typed, Numbered, Sockets, Heads, [Next]_vars PROVE Heads'
  OBVIOUS
<1>0. /\ Len(log) \in Nat /\ Len(log') \in Nat /\ Len(log) <= Len(log')
      /\ \A n : n <= Len(log) /\ n \in Nat => n <= Len(log')
      /\ \A x : LogsOne(x) => LogsOne(x)'
  BY EntriesStay
<1>1. Typed'
  BY TypedStep
<1>2. \A p \in Client : head'[p] <= Len(log') /\ disk'[p].head <= Len(log')
  <2>1. \A p \in Client : head'[p] \in Nat /\ disk'[p].head \in Nat
    BY <1>1 DEF Typed, LocalTyped
  <2> QED BY <1>0, <2>1, HeadStep
<1>3. ASSUME NEW c \in Conn, NEW m \in Asked(c)' PROVE m.since <= Len(log')
  <2>1. ASSUME m \in Asked(c) PROVE m.since <= Len(log')
    <3>1. m.since <= Len(log)
      BY <2>1 DEF Heads
    <3>2. m.since \in Nat
      BY <2>1, AskedFacts
    <3> QED BY <1>0, <3>1, <3>2
  <2>2. ASSUME NEW p \in Client, Open(p), m \notin Asked(c) PROVE m.since <= Len(log')
    <3>1. m = HelloJoin(p)
      BY <1>3, <2>2, AskedOnOpen
    <3>2. m.since = (IF Plain THEN head[p] ELSE 0)
      BY <3>1 DEF HelloJoin, JoinMsg
    <3>3. head[p] <= Len(log) /\ head[p] \in Nat
      BY DEF Heads, Typed, LocalTyped
    <3> QED BY <1>0, <3>2, <3>3
  <2>3. ASSUME NEW p \in Client, OnWriteRefused(p), m \notin Asked(c) PROVE m.since <= Len(log')
    <3>1. m = JoinMsg(ReplicaOf(p), 0)
      BY <1>3, <2>3, AskedOnRefusal
    <3>2. m.since = 0
      BY <3>1 DEF JoinMsg
    <3> QED BY <1>0, <3>2
  <2>4. AskedOnly => m \in Asked(c)
    BY <1>3 DEF AskedOnly
  <2> QED BY <2>1, <2>2, <2>3, <2>4, AskedStep
<1>4. \A t \in SpreadTasks : t.pc = "spread"
  BY DEF SpreadTasks
<1>5. \A m : TellsOfOp(m) => m.type = "stored" /\ LogsOne(m)
  <2> SUFFICES ASSUME NEW d \in Conn, NEW t \in Tasks(d), t.pc = "spread"
               PROVE  StoredMsg(t.seq, t.op).type = "stored" /\ LogsOne(StoredMsg(t.seq, t.op))
    BY DEF TellsOfOp
  <2>1. LogsOne(t)
    BY DEF Heads
  <2> QED BY <2>1 DEF LogsOne, StoredMsg
<1>6. \A m : TellsOfPeer(m) => m.type # "stored" /\ m.type # "welcome"
  BY DEF TellsOfPeer, PeerMsg
<1>7. ASSUME NEW c \in Conn, NEW m \in Downs(c)'
      PROVE  /\ m.type = "welcome" => m.head <= Len(log')
             /\ m.type = "stored" => LogsOne(m)'
  <2>1. ASSUME m \in Downs(c)
        PROVE  /\ m.type = "welcome" => m.head <= Len(log')
               /\ m.type = "stored" => LogsOne(m)'
    <3>1. /\ m.type = "welcome" => m.head <= Len(log)
          /\ m.type = "stored" => LogsOne(m)
      BY <2>1 DEF Heads
    <3>2. m.type = "welcome" => m.head \in Nat
      BY <2>1, AskedFacts, FieldFacts
    <3> QED BY <1>0, <3>1, <3>2
  <2>2. ASSUME Welcomes(c, m)
        PROVE  /\ m.type = "welcome" => m.head <= Len(log')
               /\ m.type = "stored" => LogsOne(m)'
    <3>1. m.type = "welcome" /\ m.head = Len(log)
      BY <2>2 DEF Welcomes, WelcomeMsg
    <3> QED BY <1>0, <3>1
  <2>3. Refuses(c, m) => m.type = "error"
    <3>1. \A code : ErrorMsg(code).type = "error"
      BY DEF ErrorMsg
    <3> QED BY <3>1 DEF Refuses
  <2>4. m \in Bus(Home[c]) => m.type # "welcome" /\ (m.type = "stored" => LogsOne(m))
    <3> SUFFICES ASSUME m \in Bus(Home[c]) PROVE m.type # "welcome" /\ (m.type = "stored" => LogsOne(m))
      OBVIOUS
    <3>1. Home[c] \in Instance
      BY HomeAssumption
    <3>2. m \in StoredMsgs \cup PeerMsgs
      BY <3>1 DEF Typed, HubTyped, Bus, ToSet
    <3>3. m.type # "welcome"
      BY <3>2 DEF StoredMsgs, PeerMsgs
    <3> QED BY <3>1, <3>3 DEF Heads
  <2> QED BY <1>0, <1>5, <1>6, <2>1, <2>2, <2>3, <2>4, DownsStep DEF SentBy
<1>8. ASSUME NEW c \in Conn, NEW t \in Tasks(c)', t.pc = "spread" PROVE LogsOne(t)'
  <2>1. t \in Tasks(c) => LogsOne(t)
    BY <1>8 DEF Heads
  <2>2. SpreadTask(c, t) => LogsOne(t)'
    BY <1>0 DEF SpreadTask, Logged1, LogsOne
  <2>3. ~ JoinTask(c, t) /\ ~ OpTask(c, t) /\ ~ AppendTask(c, t)
    BY <1>8 DEF JoinTask, OpTask, AppendTask
  <2> QED BY <1>0, <2>1, <2>2, <2>3, TasksStep DEF ComesOf
<1>9. ASSUME NEW i \in Instance, NEW m \in Bus(i)', m.type = "stored" PROVE LogsOne(m)'
  <2>1. m \in Bus(i) => LogsOne(m)
    BY <1>9 DEF Heads
  <2> QED BY <1>0, <1>5, <1>6, <1>9, <2>1, BusStep
<1> QED BY <1>2, <1>3, <1>7, <1>8, <1>9 DEF Heads

-----------------------------------------------------------------------------
(* Every reachable state is typed, and has the four parts above. *)
Sound == Typed /\ Numbered /\ Sockets /\ Names /\ Heads

(* The five parts hold in every reachable state. *)
LEMMA SoundAlways == Spec => []Sound
<1>1. Init => Sound
  BY TypedInit, SocketsInit, NamesInit, HeadsInit DEF Sound
<1>2. Sound /\ [Next]_vars => Sound'
  BY TypedStep, NumberedStep, SocketsStep, NamesStep, HeadsStep DEF Sound
<1> QED BY <1>1, <1>2, PTL DEF Spec

(* No more handlers throw than the setting has it. *)
FewFailures == failures \in 0 .. setting.failures

(* Only a handler that throws counts, and only while it may. *)
LEMMA FewFailuresStep == Typed /\ Numbered /\ FewFailures /\ [Next]_vars => FewFailures'
<1> SUFFICES ASSUME Typed, Numbered, FewFailures, [Next]_vars PROVE FewFailures'
  OBVIOUS
<1>1. setting' = setting /\ setting.failures \in Nat
  BY SettingStep, ClientsAssumption DEF Typed, HubTyped
<1>2. ASSUME UNCHANGED failures PROVE FewFailures'
  BY <1>1, <1>2 DEF FewFailures
<1>3. ASSUME NEW c \in Conn, NEW i \in DOMAIN tasks[c], HandlerThrows(c, i) PROVE FewFailures'
  BY <1>1, <1>3 DEF FewFailures, HandlerThrows
<1>4. ASSUME NEW p \in Client, \/ Edit(p) \/ SetAwareness(p) \/ Open(p) \/ Save(p) \/ Load(p)
                               \/ Break(p) \/ Reload(p)
      PROVE  UNCHANGED failures
  BY <1>4 DEF Edit, SetAwareness, Open, Save, Load, Break, Reload, harm
<1>5. ASSUME NEW p \in Client,
             \/ OnWelcome(p) \/ OnStored(p) \/ OnAwarenessMsg(p) \/ OnLeaveMsg(p)
             \/ OnWriteRefused(p) \/ OnReadRefused(p) \/ OnOtherError(p)
      PROVE  UNCHANGED failures
  BY <1>5 DEF OnWelcome, OnStored, OnAwarenessMsg, OnLeaveMsg, OnWriteRefused, OnReadRefused,
     OnOtherError, Refusal, Hears, harm
<1>6. UNCHANGED harm \/ UNCHANGED vars => UNCHANGED failures
  BY DEF vars, harm
<1> QED BY <1>2, <1>3, <1>4, <1>5, <1>6, StepCases

(* The type invariant: what each client and each socket holds, a head that *)
(* never runs ahead of the log, a socket bound to its client's replica     *)
(* only, and no socket in a room that has not joined it.                   *)
THEOREM TypeCorrect == Spec => []TypeOK
<1>1. Sound /\ FewFailures => TypeOK
  <2> SUFFICES ASSUME Sound, FewFailures PROVE TypeOK
    OBVIOUS
  <2>1. \A c \in Conn : bound[c] = NoReplica \/ bound[c][1] = c[1]
    <3> SUFFICES ASSUME NEW c \in Conn, bound[c] # NoReplica PROVE bound[c][1] = c[1]
      OBVIOUS
    <3>1. bound[c] \in NamesOf(c)
      BY DEF NamesOf
    <3> QED BY <3>1 DEF Sound, Names
  <2>2. \A p \in Client : head[p] \in 0 .. Len(log)
    BY DEF Sound, Heads, Typed, HubTyped, LocalTyped
  <2>3. \A p \in Client : doc[p] \cup outbox[p] \subseteq 1 .. Cardinality(Client)
    BY DEF Sound, Typed, LocalTyped, Edits
  <2> QED BY <2>1, <2>2, <2>3
          DEF Sound, Names, TypeOK, Typed, HubTyped, LocalTyped, HarmTyped, Edits, FewFailures
<1>2. Init => FewFailures
  BY ClientsAssumption DEF Init, HubInit, FewFailures
<1>3. Sound /\ FewFailures /\ [Next]_vars => FewFailures'
  BY FewFailuresStep DEF Sound
<1> QED BY <1>1, <1>2, <1>3, SoundAlways, PTL DEF Spec

-----------------------------------------------------------------------------
(* Where edits come from *)

(* An edit belongs to the socket's client, or the log has it. *)
OwnOrLogged(p, edits) == edits \subseteq issued[p] \cup Logged

Sources ==
  /\ \A c \in Conn :
       /\ \A m \in Ups(c) : m.type = "op" => OwnOrLogged(c[1], m.op)
       /\ \A t \in Tasks(c) : t.pc \in {"authorize op", "append"} => OwnOrLogged(c[1], t.op)
       /\ \A m \in Downs(c) : m.type = "welcome" => m.ops \subseteq Logged
  /\ \A p \in Client : OwnOrLogged(p, doc[p]) /\ OwnOrLogged(p, disk[p].doc)

(* What the server tells a client is in the log. *)
Told(p, e) ==
  \E m \in Downs(Sock(p)) : (m.type = "welcome" /\ e \in m.ops) \/ (m.type = "stored" /\ e \in m.op)

(* The log has whatever the server tells a client. *)
LEMMA ToldIsLogged ==
  ASSUME Typed, Heads, Sources, NEW p \in Client, NEW e, Sock(p) \in Conn, Told(p, e)
  PROVE  e \in Logged
<1>1. PICK m \in Downs(Sock(p)) :
        (m.type = "welcome" /\ e \in m.ops) \/ (m.type = "stored" /\ e \in m.op)
  BY DEF Told
<1>2. CASE m.type = "welcome" /\ e \in m.ops
  BY <1>2 DEF Sources
<1>3. CASE m.type = "stored" /\ e \in m.op
  <2>1. LogsOne(m)
    BY <1>3 DEF Heads
  <2> QED BY <1>3, <2>1, LoggedFacts DEF LogsOne
<1> QED BY <1>1, <1>2, <1>3

(* Edits a client made stay its own. *)
LEMMA IssuedStep ==
  ASSUME Typed, Numbered, [Next]_vars
  PROVE  \A p \in Client : issued[p] \subseteq issued'[p]
<1>1. ASSUME UNCHANGED issued PROVE \A p \in Client : issued[p] \subseteq issued'[p]
  BY <1>1
<1>2. ASSUME ServerOnly PROVE UNCHANGED issued
  BY <1>2 DEF ServerOnly, history
<1>3. ASSUME NEW q \in Client, Edit(q) PROVE \A p \in Client : issued[p] \subseteq issued'[p]
  BY <1>3, EditEffect DEF OthersKeep
<1>4. ASSUME NEW p \in Client,
             SetAwareness(p) \/ Open(p) \/ Save(p) \/ Load(p) \/ Break(p) \/ Reload(p)
      PROVE  UNCHANGED issued
  BY <1>4, SetAwarenessEffect, OpenEffect, SaveEffect, LoadEffect, BreakEffect, ReloadEffect
  DEF history
<1>5. ASSUME NEW p \in Client,
             \/ OnWelcome(p) \/ OnStored(p) \/ OnAwarenessMsg(p) \/ OnLeaveMsg(p)
             \/ OnWriteRefused(p) \/ OnReadRefused(p) \/ OnOtherError(p)
      PROVE  UNCHANGED issued
  BY <1>5, OnWelcomeEffect, OnStoredEffect, OnAwarenessMsgEffect, OnLeaveMsgEffect,
     OnWriteRefusedEffect, OnReadRefusedEffect, OnOtherErrorEffect
  DEF history
<1>6. ASSUME UNCHANGED vars PROVE UNCHANGED issued
  BY <1>6 DEF vars, history
<1> QED BY <1>1, <1>2, <1>3, <1>4, <1>5, <1>6, StepCases

(* What a client comes to hold it made, held before, or was told. *)
Held(p) == doc[p] \cup disk[p].doc

(* What is new in what a client holds it made, or was told. *)
LEMMA DocStep ==
  ASSUME Typed, Numbered, [Next]_vars
  PROVE  \A p \in Client : \A e \in Held(p)' :
           \/ e \in Held(p) \cup issued'[p]
           \/ Sock(p) \in Conn /\ Told(p, e)
<1> DEFINE B == \A p \in Client : \A e \in Held(p)' :
                  \/ e \in Held(p) \cup issued'[p]
                  \/ Sock(p) \in Conn /\ Told(p, e)
<1>1. ASSUME UNCHANGED <<doc, disk>> PROVE B
  BY <1>1 DEF Held
<1>2. ASSUME NEW p \in Client, OthersKeep(doc, doc', p), OthersKeep(disk, disk', p),
             doc'[p] \cup disk'[p].doc \subseteq Held(p) \cup issued'[p]
      PROVE  B
  BY <1>2 DEF OthersKeep, Held
<1>3. ASSUME NEW p \in Client, OthersKeep(doc, doc', p), UNCHANGED disk,
             NEW edits, doc'[p] = doc[p] \cup edits, Sock(p) \in Conn, \A e \in edits : Told(p, e)
      PROVE  B
  BY <1>3 DEF OthersKeep, Held
<1> HIDE DEF B
<1>4. ASSUME ServerOnly PROVE B
  BY <1>1, <1>4 DEF ServerOnly, local, page
<1>5. ASSUME NEW p \in Client, Edit(p) PROVE B
  <2>1. \E e \in Edits : doc'[p] = doc[p] \cup {e} /\ OthersKeep(doc, doc', p) /\ issued'[p] = {e}
    BY <1>5, EditEffect
  <2>2. UNCHANGED disk
    BY <1>5, EditEffect DEF page
  <2> QED BY <1>2, <2>1, <2>2 DEF OthersKeep, Held
<1>6. ASSUME NEW p \in Client, SetAwareness(p) \/ Open(p) \/ Break(p) PROVE B
  BY <1>1, <1>6, SetAwarenessEffect, OpenEffect, BreakEffect DEF local, page
<1>7. ASSUME NEW p \in Client, Save(p) PROVE B
  BY <1>2, <1>7, SaveEffect DEF local, OthersKeep, Held
<1>8. ASSUME NEW p \in Client, Load(p) PROVE B
  BY <1>2, <1>8, LoadEffect DEF page, OthersKeep, Held
<1>9. ASSUME NEW p \in Client, Reload(p) PROVE B
  <2>1. Reloaded(p) /\ OthersKeep(doc, doc', p) /\ UNCHANGED disk
    BY <1>9, ReloadEffect
  <2> QED BY <1>2, <2>1 DEF Reloaded, Held, OthersKeep
<1>10. ASSUME NEW p \in Client, OnWelcome(p) PROVE B
  <2>1. PICK msg \in DownMsgs :
          /\ msg.type = "welcome" /\ HeardBy(p, msg) /\ Sock(p) \in Conn
          /\ Integrated(p, msg.ops, msg.head) /\ UNCHANGED disk
    BY <1>10, OnWelcomeEffect DEF page
  <2>2. \A e \in msg.ops : Told(p, e)
    BY <2>1 DEF HeardBy, Told
  <2> QED BY <1>3, <2>1, <2>2 DEF Integrated
<1>11. ASSUME NEW p \in Client, OnStored(p) PROVE B
  <2>1. PICK msg \in DownMsgs :
          /\ msg.type = "stored" /\ HeardBy(p, msg) /\ Sock(p) \in Conn
          /\ Integrated(p, msg.op, msg.seq) /\ UNCHANGED disk
    BY <1>11, OnStoredEffect DEF page
  <2>2. \A e \in msg.op : Told(p, e)
    BY <2>1 DEF HeardBy, Told
  <2> QED BY <1>3, <2>1, <2>2 DEF Integrated
<1>12. ASSUME NEW p \in Client, OnAwarenessMsg(p) \/ OnLeaveMsg(p) \/ OnReadRefused(p) \/ OnOtherError(p)
       PROVE  B
  BY <1>1, <1>12, OnAwarenessMsgEffect, OnLeaveMsgEffect, OnReadRefusedEffect, OnOtherErrorEffect
  DEF local, page
<1>13. ASSUME NEW p \in Client, OnWriteRefused(p) PROVE B
  <2>1. doc'[p] = {} /\ OthersKeep(doc, doc', p) /\ UNCHANGED disk
    BY <1>13, OnWriteRefusedEffect
  <2> QED BY <1>2, <2>1 DEF OthersKeep, Held
<1>14. ASSUME UNCHANGED vars PROVE B
  BY <1>1, <1>14 DEF vars, local, page
<1>15. B
  BY <1>4, <1>5, <1>6, <1>7, <1>8, <1>9, <1>10, <1>11, <1>12, <1>13, <1>14, StepCases
<1> QED BY <1>15 DEF B

(* At first nobody holds an edit. *)
LEMMA SourcesInit == Init => Sources
<1> SUFFICES ASSUME Init PROVE Sources
  OBVIOUS
<1>1. /\ \A p \in Client : doc[p] = {} /\ disk[p].doc = {}
      /\ \A c \in Conn : up[c] = <<>> /\ down[c] = <<>> /\ tasks[c] = <<>>
  BY DEF Init, HubInit
<1>2. ToSet(<<>>) = {}
  BY DEF ToSet
<1>3. \A c \in Conn : Ups(c) = {} /\ Downs(c) = {} /\ Tasks(c) = {}
  BY <1>1, <1>2 DEF Ups, Downs, Tasks
<1> QED BY <1>1, <1>3 DEF Sources, OwnOrLogged

(* Every step keeps what is said of sources. *)
LEMMA SourcesStep == Typed /\ Numbered /\ Heads /\ Sources /\ [Next]_vars => Sources'
<1> SUFFICES ASSUME Typed, Numbered, Heads, Sources, [Next]_vars PROVE Sources'
  OBVIOUS
<1>1. \A p \in Client : \A edits : OwnOrLogged(p, edits) => OwnOrLogged(p, edits)'
  BY IssuedStep, EntriesStay DEF OwnOrLogged
<1>2. \A p \in Client : Knows(p) \subseteq issued'[p] \cup Logged'
  <2> SUFFICES ASSUME NEW p \in Client PROVE Knows(p) \subseteq issued'[p] \cup Logged'
    OBVIOUS
  <2>1. doc[p] \cup disk[p].doc \subseteq issued[p] \cup Logged
    BY DEF Sources, OwnOrLogged
  <2>2. outbox[p] \subseteq issued[p]
    BY DEF Numbered
  <2> QED BY <2>1, <2>2, IssuedStep, EntriesStay DEF Knows
<1>3. ASSUME NEW c \in Conn, NEW m \in Ups(c)', m.type = "op" PROVE OwnOrLogged(c[1], m.op)'
  <2>1. c[1] \in Client
    BY ConnFacts
  <2>2. CASE m \in Ups(c)
    BY <1>1, <1>3, <2>1, <2>2 DEF Sources
  <2>3. CASE m.op \subseteq Knows(c[1])
    BY <1>2, <2>1, <2>3 DEF OwnOrLogged
  <2> QED BY <1>3, <2>2, <2>3, UpsStep
<1>4. ASSUME NEW c \in Conn, NEW t \in Tasks(c)', t.pc \in {"authorize op", "append"}
      PROVE  OwnOrLogged(c[1], t.op)'
  <2>1. c[1] \in Client
    BY ConnFacts
  <2>2. CASE t \in Tasks(c)
    BY <1>1, <1>4, <2>1, <2>2 DEF Sources
  <2>3. CASE OpTask(c, t) \/ AppendTask(c, t)
    <3>1. OwnOrLogged(c[1], t.op)
      BY <2>3 DEF OpTask, AppendTask, Sources
    <3> QED BY <1>1, <2>1, <3>1
  <2>4. ~ JoinTask(c, t) /\ ~ SpreadTask(c, t)
    BY <1>4 DEF JoinTask, SpreadTask
  <2> QED BY <2>2, <2>3, <2>4, TasksStep DEF ComesOf
<1>5. ASSUME NEW c \in Conn, NEW m \in Downs(c)', m.type = "welcome" PROVE m.ops \subseteq Logged'
  <2>1. m.ops \subseteq Logged
    <3>1. CASE m \in Downs(c)
      BY <1>5, <3>1 DEF Sources
    <3>2. CASE Welcomes(c, m)
      <4>1. PICK t \in Tasks(c) : t.pc = "welcome" /\ m = WelcomeMsg(OpsSince(t.msg.since), Len(log))
        BY <3>2 DEF Welcomes
      <4>2. t.msg.since \in Nat
        BY <4>1, AskedFacts, FieldFacts
      <4>3. m.ops = OpsSince(t.msg.since)
        BY <4>1 DEF WelcomeMsg
      <4> QED BY <4>2, <4>3, LoggedFacts
    <3>3. ~ Refuses(c, m)
      <4>1. \A code : ErrorMsg(code).type # "welcome"
        BY DEF ErrorMsg
      <4> QED BY <1>5, <4>1 DEF Refuses
    <3>4. ~ TellsOfOp(m) /\ ~ TellsOfPeer(m)
      BY <1>5 DEF TellsOfOp, TellsOfPeer, StoredMsg, PeerMsg
    <3>5. m \notin Bus(Home[c])
      <4>1. Home[c] \in Instance
        BY HomeAssumption
      <4>2. Bus(Home[c]) \subseteq StoredMsgs \cup PeerMsgs
        BY <4>1 DEF Typed, HubTyped, Bus, ToSet
      <4> QED BY <1>5, <4>2 DEF StoredMsgs, PeerMsgs
    <3> QED BY <3>1, <3>2, <3>3, <3>4, <3>5, DownsStep DEF SentBy
  <2> QED BY <2>1, EntriesStay
<1>6. ASSUME NEW p \in Client PROVE Held(p)' \subseteq issued'[p] \cup Logged'
  <2> SUFFICES ASSUME NEW e \in Held(p)' PROVE e \in issued'[p] \cup Logged'
    OBVIOUS
  <2>1. CASE e \in Held(p) \cup issued'[p]
    BY <1>2, <2>1 DEF Held, Knows
  <2>2. CASE Sock(p) \in Conn /\ Told(p, e)
    BY <2>2, ToldIsLogged, EntriesStay
  <2> QED BY <2>1, <2>2, DocStep
<1>7. \A p \in Client : OwnOrLogged(p, doc[p])' /\ OwnOrLogged(p, disk[p].doc)'
  BY <1>6 DEF Held, OwnOrLogged
<1> QED BY <1>3, <1>4, <1>5, <1>7 DEF Sources

-----------------------------------------------------------------------------
(* Whatever is confirmed to a client, and leaves its outbox, is logged. *)
LEMMA NoEditLostStep ==
  Typed /\ Numbered /\ Heads /\ Sources /\ NoEditLost /\ [Next]_vars => NoEditLost'
<1> SUFFICES ASSUME Typed, Numbered, Heads, Sources, NoEditLost, [Next]_vars PROVE NoEditLost'
  OBVIOUS
<1> DEFINE Kept(p) == IF Plain THEN outbox[p] ELSE Held(p)
           B == \A p \in Client : issued'[p] \ waived' \subseteq Logged' \cup Kept(p)'
<1>1. Logged \subseteq Logged' /\ (Plain' <=> Plain)
  BY SettingStep, EntriesStay DEF Plain
<1>2. \A p \in Client : issued[p] \ waived \subseteq Logged \cup Kept(p)
  BY DEF NoEditLost, Held
<1>3. ASSUME UNCHANGED <<issued, waived>>, \A p \in Client : Kept(p) \subseteq Logged \cup Kept(p)'
      PROVE  B
  BY <1>1, <1>2, <1>3
<1>4. \A p \in Client :
        /\ UNCHANGED outbox \/ ~ Plain
        /\ Plain \/ Held(p) \subseteq Held(p)'
        => Kept(p) \subseteq Logged \cup Kept(p)'
  BY <1>1
<1>5. ASSUME NEW p \in Client, NEW edits, NEW n, Integrated(p, edits, n), edits \subseteq Logged,
             UNCHANGED disk
      PROVE  \A q \in Client : Kept(q) \subseteq Logged \cup Kept(q)'
  <2>1. \A q \in Client : outbox[q] \subseteq edits \cup outbox'[q] /\ doc[q] \subseteq doc'[q]
    BY <1>5 DEF Integrated, OthersKeep
  <2> QED BY <1>1, <1>5, <2>1 DEF Held
<1> HIDE DEF B
<1> HIDE DEF Kept
<1>6. ASSUME ServerOnly PROVE B
  <2>1. UNCHANGED <<local, disk, issued, waived>>
    BY <1>6 DEF ServerOnly, page, history
  <2> QED BY <1>3, <1>4, <2>1 DEF local, Held
<1>7. ASSUME NEW p \in Client, SetAwareness(p) \/ Open(p) \/ Break(p) \/ OnAwarenessMsg(p)
                 \/ OnLeaveMsg(p) \/ OnReadRefused(p) \/ OnOtherError(p)
      PROVE  B
  <2>1. UNCHANGED <<local, disk, issued, waived>>
    BY <1>7, SetAwarenessEffect, OpenEffect, BreakEffect, OnAwarenessMsgEffect, OnLeaveMsgEffect,
       OnReadRefusedEffect, OnOtherErrorEffect
    DEF history, page
  <2> QED BY <1>3, <1>4, <2>1 DEF local, Held
<1>8. ASSUME NEW p \in Client, Edit(p) PROVE B
  <2>1. PICK e \in Edits :
          /\ doc'[p] = doc[p] \cup {e} /\ OthersKeep(doc, doc', p)
          /\ outbox'[p] = (IF Plain THEN outbox[p] \cup {e} ELSE outbox[p])
          /\ OthersKeep(outbox, outbox', p)
          /\ issued'[p] = {e} /\ OthersKeep(issued, issued', p)
    BY <1>8, EditEffect
  <2>2. UNCHANGED <<disk, waived>>
    BY <1>8, EditEffect DEF page
  <2>3. \A q \in Client \ {p} : issued'[q] = issued[q] /\ Kept(q)' = Kept(q)
    BY <1>1, <2>1, <2>2 DEF OthersKeep, Kept, Held
  <2>4. e \in Kept(p)'
    BY <1>1, <2>1 DEF Kept, Held
  <2> QED BY <1>1, <1>2, <2>1, <2>2, <2>3, <2>4 DEF B
<1>9. ASSUME NEW p \in Client, Save(p) PROVE B
  <2>1. UNCHANGED <<local, history>> /\ OthersKeep(disk, disk', p)
        /\ disk'[p].doc = doc[p] \cup (IF Plain THEN {} ELSE disk[p].doc)
    BY <1>9, SaveEffect
  <2>2. ~ Plain => \A q \in Client : Held(q) \subseteq Held(q)'
    BY <2>1 DEF Held, OthersKeep, local
  <2> QED BY <1>3, <1>4, <2>1, <2>2 DEF local, history
<1>10. ASSUME NEW p \in Client, Load(p) PROVE B
  <2>1. /\ ~ Plain /\ doc'[p] = doc[p] \cup disk[p].doc /\ OthersKeep(doc, doc', p)
        /\ UNCHANGED <<page, history>>
    BY <1>10, LoadEffect
  <2>2. \A q \in Client : Held(q) \subseteq Held(q)'
    BY <2>1 DEF Held, OthersKeep, page
  <2> QED BY <1>3, <1>4, <2>1, <2>2 DEF history
<1>11. ASSUME NEW p \in Client, Reload(p) PROVE B
  <2>1. /\ Reloaded(p) /\ UNCHANGED <<issued, disk>>
        /\ OthersKeep(doc, doc', p) /\ OthersKeep(outbox, outbox', p)
    BY <1>11, ReloadEffect
  <2>2. CASE /\ Plain
             /\ doc'[p] = disk[p].doc /\ outbox'[p] = disk[p].outbox
             /\ waived' = waived \cup (outbox[p] \ disk[p].outbox)
    <3>1. \A q \in Client : outbox[q] \subseteq waived' \cup outbox'[q]
      BY <2>1, <2>2 DEF OthersKeep
    <3>2. \A q \in Client : Kept(q) = outbox[q] /\ Kept(q)' = outbox'[q]
      BY <1>1, <2>2 DEF Kept
    <3> QED BY <1>1, <1>2, <2>1, <2>2, <3>1, <3>2 DEF B
  <2>3. CASE /\ ~ Plain
             /\ doc'[p] = {} /\ waived' = waived \cup ((doc[p] \ disk[p].doc) \cap issued[p])
    <3>1. \A q \in Client : Kept(q) = Held(q) /\ Kept(q)' = Held(q)'
      BY <1>1, <2>3 DEF Kept
    <3>2. \A q \in Client : issued[q] \cap Held(q) \subseteq waived' \cup Held(q)'
      BY <2>1, <2>3 DEF OthersKeep, Held
    <3>3. waived \subseteq waived'
      BY <2>3
    <3> QED BY <1>1, <1>2, <2>1, <3>1, <3>2, <3>3 DEF B
  <2> QED BY <2>1, <2>2, <2>3 DEF Reloaded
<1>12. ASSUME NEW p \in Client, OnWelcome(p) PROVE B
  <2>1. PICK msg \in DownMsgs :
          /\ msg.type = "welcome" /\ HeardBy(p, msg) /\ Sock(p) \in Conn
          /\ Integrated(p, msg.ops, msg.head) /\ UNCHANGED <<disk, issued, waived>>
    BY <1>12, OnWelcomeEffect DEF page
  <2>2. msg.ops \subseteq Logged
    BY <2>1 DEF HeardBy, Sources
  <2> QED BY <1>3, <1>5, <2>1, <2>2
<1>13. ASSUME NEW p \in Client, OnStored(p) PROVE B
  <2>1. PICK msg \in DownMsgs :
          /\ msg.type = "stored" /\ HeardBy(p, msg) /\ Sock(p) \in Conn
          /\ Integrated(p, msg.op, msg.seq) /\ UNCHANGED <<disk, issued, waived>>
    BY <1>13, OnStoredEffect DEF page
  <2>2. LogsOne(msg)
    BY <2>1 DEF HeardBy, Heads
  <2>3. msg.op \subseteq Logged
    BY <2>2, LoggedFacts DEF LogsOne
  <2> QED BY <1>3, <1>5, <2>1, <2>3
<1>14. ASSUME NEW p \in Client, OnWriteRefused(p) PROVE B
  <2>1. /\ Plain /\ waived' = waived \cup outbox[p] /\ OthersKeep(outbox, outbox', p)
        /\ UNCHANGED issued
    BY <1>14, OnWriteRefusedEffect
  <2>2. \A q \in Client : outbox[q] \subseteq waived' \cup outbox'[q]
    BY <2>1 DEF OthersKeep
  <2>3. \A q \in Client : Kept(q) = outbox[q] /\ Kept(q)' = outbox'[q]
    BY <1>1, <2>1 DEF Kept
  <2> QED BY <1>1, <1>2, <2>1, <2>2, <2>3 DEF B
<1>15. ASSUME UNCHANGED vars PROVE B
  <2>1. UNCHANGED <<local, disk, issued, waived>>
    BY <1>15 DEF vars, page, history
  <2> QED BY <1>3, <1>4, <2>1 DEF local, Held
<1>16. B
  BY <1>6, <1>7, <1>8, <1>9, <1>10, <1>11, <1>12, <1>13, <1>14, <1>15, StepCases
<1> QED BY <1>16 DEF B, Kept, Held, NoEditLost

(* No edit is lost: until it is refused, or left unsaved with its page, an *)
(* edit is in the log or its author still has it to send, whatever breaks, *)
(* in every setting.                                                       *)
THEOREM EditsAreKept == Spec => []NoEditLost
<1>1. Init => Sources /\ NoEditLost
  BY SourcesInit DEF Init, NoEditLost
<1>2. Sound /\ Sources /\ NoEditLost /\ [Next]_vars => Sources' /\ NoEditLost'
  BY SourcesStep, NoEditLostStep DEF Sound
<1> QED BY <1>1, <1>2, SoundAlways, PTL DEF Spec

-----------------------------------------------------------------------------
(* Roles *)

(* An authorizer lets nobody without a role in, and only editors' edits    *)
(* through to the log.                                                     *)
Roles ==
  enforce =>
    \A c \in Conn :
      /\ role[c[1]] = "none" =>
           /\ bound[c] = NoReplica
           /\ \A t \in Tasks(c) : t.pc # "welcome"
           /\ \A m \in Downs(c) : m.type = "error"
      /\ \A t \in Tasks(c) : t.pc = "append" => role[c[1]] = "editor"

(* Every step keeps what the authorizer promises of sockets and tasks.     *)
LEMMA RolesStep == Typed /\ Numbered /\ Names /\ Roles /\ [Next]_vars => Roles'
<1> SUFFICES ASSUME Typed, Numbered, Names, Roles, [Next]_vars, enforce' PROVE Roles'
  BY DEF Roles
<1>1. enforce /\ \A p : role'[p] = role[p]
  BY SettingStep DEF enforce, role
<1>2. ASSUME NEW c \in Conn, role[c[1]] = "none" PROVE bound'[c] = NoReplica
  <2>1. bound[c] = NoReplica /\ ~ Admits(c)
    BY <1>1, <1>2 DEF Roles, Admits
  <2> QED BY <2>1, BoundStep
<1>3. ASSUME NEW c \in Conn, role[c[1]] = "none", NEW t \in Tasks(c)' PROVE t.pc # "welcome"
  <2>1. t \in Tasks(c) => t.pc # "welcome"
    BY <1>1, <1>3 DEF Roles
  <2>2. ComesOf(c, t) => t.pc # "welcome"
    BY <1>1, <1>3 DEF ComesOf, JoinTask, OpTask, AppendTask, SpreadTask
  <2> QED BY <2>1, <2>2, TasksStep
<1>4. ASSUME NEW c \in Conn, role[c[1]] = "none", NEW m \in Downs(c)' PROVE m.type = "error"
  <2>1. m \in Downs(c) => m.type = "error"
    BY <1>1, <1>4 DEF Roles
  <2>2. ~ Welcomes(c, m)
    BY <1>1, <1>4 DEF Welcomes, Roles
  <2>3. Refuses(c, m) => m.type = "error"
    <3>1. \A code : ErrorMsg(code).type = "error"
      BY DEF ErrorMsg
    <3> QED BY <3>1 DEF Refuses
  <2>4. c \notin room
    BY <1>1, <1>4 DEF Roles, Names
  <2> QED BY <2>1, <2>2, <2>3, <2>4, DownsStep DEF SentBy
<1>5. ASSUME NEW c \in Conn, NEW t \in Tasks(c)', t.pc = "append" PROVE role[c[1]] = "editor"
  <2>1. t \in Tasks(c) => role[c[1]] = "editor"
    BY <1>1, <1>5 DEF Roles
  <2>2. ComesOf(c, t) => role[c[1]] = "editor"
    BY <1>1, <1>5 DEF ComesOf, JoinTask, OpTask, AppendTask, SpreadTask
  <2> QED BY <2>1, <2>2, TasksStep
<1> QED BY <1>1, <1>2, <1>3, <1>4, <1>5 DEF Roles

(* So the log, and who has no role, stay as RolesHold says. *)
LEMMA RolesHoldStep ==
  Typed /\ Numbered /\ Sources /\ Roles /\ RolesHold /\ [Next]_vars => RolesHold'
<1> SUFFICES ASSUME Typed, Numbered, Sources, Roles, RolesHold, [Next]_vars, enforce'
             PROVE  RolesHold'
  BY DEF RolesHold
<1> DEFINE Editors == {q \in Client : role[q] = "editor"}
<1>1. enforce /\ \A p : role'[p] = role[p]
  BY SettingStep DEF enforce, role
<1>2. Editors' = Editors
  BY <1>1
<1>3. \A e \in Logged : \E p \in Editors : e \in issued[p]
  BY <1>1 DEF RolesHold
<1> HIDE DEF Editors
<1>4. \A e \in Logged' : \E p \in Editors : e \in issued'[p]
  <2>1. CASE UNCHANGED log
    <3>1. Logged' = Logged
      BY <2>1 DEF Logged, OpsSince
    <3>2. Editors \subseteq Client
      BY DEF Editors
    <3> QED BY <1>3, <3>1, <3>2, IssuedStep
  <2>2. ASSUME NEW c \in Conn, NEW old \in OpTasks, Appended(c, old)
        PROVE  \A e \in Logged' : \E p \in Editors : e \in issued'[p]
    <3>1. old.pc = "append" /\ old \in Tasks(c) /\ old.op \in SUBSET Edits /\ Logged1(old.op)
      BY <2>2 DEF Appended
    <3>2. Logged' = Logged \cup old.op
      BY <3>1, LogAdds
    <3>3. c[1] \in Editors
      BY <1>1, <3>1, ConnFacts DEF Roles, Editors
    <3>4. old.op \subseteq issued[c[1]] \cup Logged
      BY <3>1 DEF Sources, OwnOrLogged
    <3>5. Editors \subseteq Client
      BY DEF Editors
    <3> QED BY <1>3, <3>2, <3>3, <3>4, <3>5, IssuedStep
  <2> QED BY <2>1, <2>2, LogStep
<1>5. ASSUME NEW p \in Client, role[p] = "none" PROVE Held(p)' \subseteq issued'[p]
  <2>1. Held(p) \subseteq issued[p]
    BY <1>1, <1>5 DEF RolesHold, Held
  <2>2. \A e : ~ (Sock(p) \in Conn /\ Told(p, e))
    <3> SUFFICES ASSUME Sock(p) \in Conn, NEW m \in Downs(Sock(p)) PROVE m.type = "error"
      BY DEF Told
    <3>1. Sock(p)[1] = p
      BY DEF Sock
    <3> QED BY <1>1, <1>5, <3>1 DEF Roles
  <2> QED BY <2>1, <2>2, DocStep, IssuedStep
<1> QED BY <1>1, <1>2, <1>4, <1>5 DEF RolesHold, Held, Editors

(* With an authorizer the log holds editors' edits only, and who has no    *)
(* role never sees anybody else's, however joins, edits and refusals       *)
(* overtake each other.                                                    *)
THEOREM RolesAreEnforced == Spec => []RolesHold
<1>1. Init => Roles /\ RolesHold
  <2> SUFFICES ASSUME Init PROVE Roles /\ RolesHold
    OBVIOUS
  <2>1. /\ \A c \in Conn : bound[c] = NoReplica /\ tasks[c] = <<>> /\ down[c] = <<>>
        /\ \A p \in Client : doc[p] = {} /\ disk[p].doc = {}
        /\ log = <<>>
    BY DEF Init, HubInit
  <2>2. ToSet(<<>>) = {} /\ Len(<<>>) = 0
    BY DEF ToSet
  <2>3. \A c \in Conn : Downs(c) = {} /\ Tasks(c) = {}
    BY <2>1, <2>2 DEF Downs, Tasks
  <2>4. Logged = {}
    BY <2>1, <2>2 DEF Logged, OpsSince
  <2> QED BY <2>1, <2>3, <2>4 DEF Roles, RolesHold
<1>2. Sound /\ Sources /\ Roles /\ RolesHold /\ [Next]_vars => Roles' /\ RolesHold'
  BY RolesStep, RolesHoldStep DEF Sound
<1>3. Init => Sources
  BY SourcesInit
<1>4. Sound /\ Sources /\ [Next]_vars => Sources'
  BY SourcesStep DEF Sound
<1> QED BY <1>1, <1>2, <1>3, <1>4, SoundAlways, PTL DEF Spec

-----------------------------------------------------------------------------
(* Sockets, rooms and what is heard, from one state to the next *)

(* A socket keeps its replica, and is closed and removed by its close only. *)
LEMMA BoundStays ==
  ASSUME Typed, Numbered, Names, [Next]_vars
  PROVE  \A c \in Conn : bound[c] # NoReplica => bound'[c] = bound[c]
<1> SUFFICES ASSUME NEW c \in Conn, bound[c] # NoReplica, NEW m \in Asked(c)
             PROVE  m.replica = bound[c]
  BY BoundStep
<1>1. bound[c] \in NamesOf(c) /\ m.replica \in NamesOf(c)
  BY DEF NamesOf
<1> QED BY <1>1 DEF Names

(* A socket is closed, and out of the room, by its close only. *)
LEMMA ClosedStep ==
  ASSUME Typed, Numbered, [Next]_vars
  PROVE  \A c \in Conn : OnClose(c) \/ /\ sock'[c] = "closed" => sock[c] = "closed"
                                       /\ c \in room => c \in room'
<1> DEFINE B == \A c \in Conn : OnClose(c) \/ /\ sock'[c] = "closed" => sock[c] = "closed"
                                              /\ c \in room => c \in room'
<1>1. ASSUME UNCHANGED <<sock, room>> PROVE B
  BY <1>1
<1>2. ASSUME NEW c \in Conn, NEW r, UNCHANGED sock, Entered(c, r) PROVE B
  BY <1>2 DEF Entered
<1>3. ASSUME NEW p \in Client, Left(p), UNCHANGED room PROVE B
  BY <1>3 DEF Left
<1>4. ASSUME NEW p \in Client, NEW c \in Conn, Opened(p, c), UNCHANGED room PROVE B
  BY <1>4 DEF Opened
<1>5. ASSUME NEW c \in Conn, OnClose(c) PROVE B
  BY <1>5, OnCloseEffect
<1> HIDE DEF B
<1>6. ASSUME NEW c \in Conn, OnJoin(c) PROVE B
  <2>1. UNCHANGED sock /\ (UNCHANGED room \/ \E r : Entered(c, r))
    BY <1>6, OnJoinEffect DEF TakenOff
  <2> QED BY <1>1, <1>2, <2>1
<1>7. ASSUME NEW c \in Conn, NEW i \in DOMAIN tasks[c], JoinAuthorized(c, i) PROVE B
  <2>1. UNCHANGED sock /\ (UNCHANGED room \/ \E r : Entered(c, r))
    BY <1>7, JoinAuthorizedEffect
  <2> QED BY <1>1, <1>2, <2>1
<1>8. ASSUME NEW c \in Conn, OnOp(c) \/ OnAwareness(c) PROVE B
  BY <1>1, <1>8, OnOpEffect, OnAwarenessEffect DEF TakenOff
<1>9. ASSUME NEW c \in Conn, NEW i \in DOMAIN tasks[c],
             \/ SendWelcome(c, i) \/ OpAuthorized(c, i) \/ AppendOp(c, i) \/ SpreadOp(c, i)
             \/ HandlerThrows(c, i)
      PROVE  B
  BY <1>1, <1>9, SendWelcomeEffect, OpAuthorizedEffect, AppendOpEffect, SpreadOpEffect,
     HandlerThrowsEffect
<1>10. ASSUME NEW i \in Instance, FanOut(i) PROVE B
  BY <1>1, <1>10, FanOutEffect
<1>11. ASSUME NEW p \in Client, Edit(p) \/ SetAwareness(p) \/ Save(p) \/ Load(p) PROVE B
  BY <1>1, <1>11, EditEffect, SetAwarenessEffect, SaveEffect, LoadEffect
  DEF hubVars, wires, server
<1>12. ASSUME NEW p \in Client, Open(p) PROVE B
  BY <1>4, <1>12, OpenEffect DEF server
<1>13. ASSUME NEW p \in Client, Break(p) \/ Reload(p) \/ OnReadRefused(p) PROVE B
  <2>1. UNCHANGED room /\ (Left(p) \/ UNCHANGED sock)
    BY <1>13, BreakEffect, ReloadEffect, OnReadRefusedEffect DEF server, wires
  <2> QED BY <1>1, <1>3, <2>1
<1>14. ASSUME NEW p \in Client,
              \/ OnWelcome(p) \/ OnStored(p) \/ OnAwarenessMsg(p) \/ OnLeaveMsg(p)
              \/ OnWriteRefused(p) \/ OnOtherError(p)
       PROVE  B
  BY <1>1, <1>14, OnWelcomeEffect, OnStoredEffect, OnAwarenessMsgEffect, OnLeaveMsgEffect,
     OnWriteRefusedEffect, OnOtherErrorEffect
  DEF server
<1>15. ASSUME UNCHANGED vars PROVE B
  BY <1>1, <1>15 DEF vars, hubVars, wires, server
<1>16. B
  BY <1>5, <1>6, <1>7, <1>8, <1>9, <1>10, <1>11, <1>12, <1>13, <1>14, <1>15, StepCases
<1> QED BY <1>16 DEF B

(* Who is online was so on the same socket, or has just opened it. *)
LEMMA OnlineStep ==
  ASSUME Typed, Numbered, Sockets, [Next]_vars
  PROVE  \A p \in Client : Online(p)' =>
           \/ Online(p) /\ Sock(p)' = Sock(p) /\ Sock(p) \in Conn
           \/ \E c \in Conn : Open(p) /\ Opened(p, c) /\ Sock(p)' = c
<1> SUFFICES ASSUME NEW p \in Client, Online(p)'
             PROVE  \/ Online(p) /\ Sock(p)' = Sock(p) /\ Sock(p) \in Conn
                    \/ \E c \in Conn : Open(p) /\ Opened(p, c) /\ Sock(p)' = c
  OBVIOUS
<1>1. Typed' /\ Sockets'
  BY TypedStep, SocketsStep
<1>2. PICK c \in Conn : c = <<p, cur'[p]>>
  <2>1. cur'[p] \in 1 .. MaxConns
    BY <1>1, ConnFacts DEF Typed, LocalTyped, Online
  <2> QED BY <2>1, ConnFacts
<1>3. Sock(p)' = c /\ c[1] = p /\ sock'[c] = "open" /\ cur'[p] > 0
  BY <1>2 DEF Sock, Online
<1>4. CASE sock[c] = "open" /\ cur'[c[1]] = cur[c[1]]
  BY <1>2, <1>3, <1>4 DEF Sock, Online
<1>5. ASSUME NEW q \in Client, Open(q), Opened(q, c)
      PROVE  Open(p) /\ Opened(p, c)
  <2>1. q = p
    BY <1>3, <1>5 DEF Opened
  <2> QED BY <1>5, <2>1
<1> QED BY <1>3, <1>4, <1>5, OpenStep

(* What is taken off the wire to an open socket its client handles. *)
Handles(p, m) ==
  /\ HeardBy(p, m)
  /\ \/ m.type = "welcome" /\ OnWelcome(p)
     \/ m.type = "stored" /\ OnStored(p)
     \/ m.type = "awareness" /\ OnAwarenessMsg(p)
     \/ m.type = "leave" /\ OnLeaveMsg(p)
     \/ m = ErrorMsg("forbidden-write") /\ OnWriteRefused(p)
     \/ m.type = "error" /\ (Plain => m = ErrorMsg("none")) /\ OnOtherError(p)

(* What was on its way to a socket that stays open still is, or its client *)
(* has handled it.                                                         *)
LEMMA DownsLost ==
  ASSUME Typed, Numbered, Sockets, [Next]_vars
  PROVE  \A c \in Conn : sock'[c] = "open" => \A m \in Downs(c) : m \in Downs(c)' \/
           \E p \in Client : c = Sock(p) /\ Online(p) /\ Handles(p, m)
<1> DEFINE B == \A c \in Conn : sock'[c] = "open" => \A m \in Downs(c) : m \in Downs(c)' \/
                  \E p \in Client : c = Sock(p) /\ Online(p) /\ Handles(p, m)
<1>1. ASSUME AllHeard PROVE B
  BY <1>1, HeardAll
<1>2. ASSUME DownsKept PROVE B
  BY <1>2 DEF DownsKept
<1>3. ASSUME NEW p \in Client, NEW m, Online(p), HeardBy(p, m), Handles(p, m) PROVE B
  <2> SUFFICES ASSUME NEW c \in Conn, NEW n \in Downs(c), n \notin Downs(c)'
               PROVE  c = Sock(p) /\ n = m
    BY <1>3
  <2> QED BY <1>3 DEF HeardBy
<1>4. ASSUME NEW p \in Client, Left(p) PROVE B
  <2>1. \A c \in Conn : sock'[c] = "open" => c # Sock(p)
    BY <1>4 DEF Left
  <2> QED BY <1>4, <2>1 DEF Left
<1> HIDE DEF B
<1>5. ASSUME ServerOnly PROVE B
  BY <1>1, <1>5 DEF ServerOnly
<1>6. ASSUME NEW p \in Client, Edit(p) \/ SetAwareness(p) \/ Open(p) \/ Save(p) \/ Load(p) PROVE B
  BY <1>2, <1>6, EditEffect, SetAwarenessEffect, OpenEffect, SaveEffect, LoadEffect
<1>7. ASSUME NEW p \in Client, Break(p) \/ Reload(p) \/ OnReadRefused(p) PROVE B
  BY <1>2, <1>4, <1>7, BreakEffect, ReloadEffect, OnReadRefusedEffect
<1>8. ASSUME NEW p \in Client, OnWelcome(p) PROVE B
  <2>1. \E m : Online(p) /\ HeardBy(p, m) /\ m.type = "welcome"
    BY <1>8, OnWelcomeEffect
  <2> QED BY <1>3, <1>8, <2>1 DEF Handles
<1>9. ASSUME NEW p \in Client, OnStored(p) PROVE B
  <2>1. \E m : Online(p) /\ HeardBy(p, m) /\ m.type = "stored"
    BY <1>9, OnStoredEffect
  <2> QED BY <1>3, <1>9, <2>1 DEF Handles
<1>10. ASSUME NEW p \in Client, OnAwarenessMsg(p) PROVE B
  <2>1. \E m : Online(p) /\ HeardBy(p, m) /\ m.type = "awareness"
    <3>1. PICK r \in ReplicaId : HeardBy(p, PeerMsg("awareness", r))
      BY <1>10, OnAwarenessMsgEffect
    <3>2. PeerMsg("awareness", r).type = "awareness"
      BY DEF PeerMsg
    <3> QED BY <1>10, <3>1, <3>2, OnAwarenessMsgEffect
  <2> QED BY <1>3, <1>10, <2>1 DEF Handles
<1>11. ASSUME NEW p \in Client, OnLeaveMsg(p) PROVE B
  <2>1. \E m : Online(p) /\ HeardBy(p, m) /\ m.type = "leave"
    <3>1. PICK r \in ReplicaId : HeardBy(p, PeerMsg("leave", r))
      BY <1>11, OnLeaveMsgEffect
    <3>2. PeerMsg("leave", r).type = "leave"
      BY DEF PeerMsg
    <3> QED BY <1>11, <3>1, <3>2, OnLeaveMsgEffect
  <2> QED BY <1>3, <1>11, <2>1 DEF Handles
<1>12. ASSUME NEW p \in Client, OnWriteRefused(p) PROVE B
  <2>1. Online(p) /\ HeardBy(p, ErrorMsg("forbidden-write"))
    BY <1>12, OnWriteRefusedEffect
  <2> QED BY <1>3, <1>12, <2>1 DEF Handles
<1>13. ASSUME NEW p \in Client, OnOtherError(p) PROVE B
  <2>1. \E m : Online(p) /\ HeardBy(p, m) /\ m.type = "error" /\ (Plain => m = ErrorMsg("none"))
    BY <1>13, OnOtherErrorEffect DEF ErrorMsg
  <2> QED BY <1>3, <1>13, <2>1 DEF Handles
<1>14. ASSUME UNCHANGED vars PROVE B
  BY <1>2, <1>14, DownsUnchanged DEF vars, hubVars, wires
<1>15. B
  BY <1>5, <1>6, <1>7, <1>8, <1>9, <1>10, <1>11, <1>12, <1>13, <1>14, StepCases
<1> QED BY <1>15 DEF B

-----------------------------------------------------------------------------
(* Presence: whoever is told of a replica is told that it left *)

(* A queue between instances gets one message more, or loses its first. *)
LEMMA BusOrder ==
  ASSUME Typed, Numbered, [Next]_vars
  PROVE  \A i \in Instance :
           \/ bus'[i] = bus[i]
           \/ \E m : /\ bus'[i] = Append(bus[i], m) /\ m \in StoredMsgs \cup PeerMsgs
                     /\ m.type = "awareness" => \E d \in Conn :
                          /\ OnAwareness(d) /\ bound[d] # NoReplica /\ Home[d] # i
                          /\ m = PeerMsg("awareness", bound[d])
           \/ FanOut(i) /\ bus[i] # <<>> /\ bus'[i] = Tail(bus[i])
<1> DEFINE B == \A i \in Instance :
                  \/ bus'[i] = bus[i]
                  \/ \E m : /\ bus'[i] = Append(bus[i], m) /\ m \in StoredMsgs \cup PeerMsgs
                            /\ m.type = "awareness" => \E d \in Conn :
                                 /\ OnAwareness(d) /\ bound[d] # NoReplica /\ Home[d] # i
                                 /\ m = PeerMsg("awareness", bound[d])
                  \/ FanOut(i) /\ bus[i] # <<>> /\ bus'[i] = Tail(bus[i])
<1>1. ASSUME BusKept PROVE B
  BY <1>1 DEF BusKept
<1>2. ASSUME NEW i, NEW m \in StoredMsgs \cup PeerMsgs, Published(i, m),
             m.type = "awareness" => \E d \in Conn :
               /\ OnAwareness(d) /\ bound[d] # NoReplica /\ Home[d] = i
               /\ m = PeerMsg("awareness", bound[d])
      PROVE  B
  BY <1>2 DEF Published
<1> HIDE DEF B
<1>3. ASSUME NEW c \in Conn, OnJoin(c) \/ OnOp(c) PROVE B
  BY <1>1, <1>3, OnJoinEffect, OnOpEffect
<1>4. ASSUME NEW c \in Conn, NEW i \in DOMAIN tasks[c],
             \/ JoinAuthorized(c, i) \/ SendWelcome(c, i) \/ OpAuthorized(c, i) \/ AppendOp(c, i)
             \/ HandlerThrows(c, i)
      PROVE  B
  BY <1>1, <1>4, JoinAuthorizedEffect, SendWelcomeEffect, OpAuthorizedEffect, AppendOpEffect,
     HandlerThrowsEffect
<1>5. ASSUME NEW c \in Conn, NEW i \in DOMAIN tasks[c], SpreadOp(c, i) PROVE B
  <2>1. PICK old \in SpreadTasks :
          /\ old.seq \in Nat /\ old.op \in SUBSET Edits
          /\ Published(Home[c], StoredMsg(old.seq, old.op))
    BY <1>5, SpreadOpEffect
  <2>2. StoredMsg(old.seq, old.op) \in StoredMsgs /\ StoredMsg(old.seq, old.op).type = "stored"
    BY <2>1, MessageFacts
  <2> QED BY <1>2, <2>1, <2>2
<1>6. ASSUME NEW c \in Conn, OnAwareness(c) PROVE B
  <2>1. CASE BusKept
    BY <1>1, <2>1
  <2>2. CASE /\ bound[c] # NoReplica /\ bound[c] \in ReplicaId
             /\ Published(Home[c], PeerMsg("awareness", bound[c]))
    <3>1. PeerMsg("awareness", bound[c]) \in PeerMsgs
      BY <2>2, MessageFacts
    <3> QED BY <1>2, <1>6, <2>2, <3>1
  <2> QED BY <1>6, <2>1, <2>2, OnAwarenessEffect
<1>7. ASSUME NEW c \in Conn, OnClose(c) PROVE B
  <2>1. CASE BusKept
    BY <1>1, <2>1
  <2>2. CASE bound[c] \in ReplicaId /\ Published(Home[c], PeerMsg("leave", bound[c]))
    <3>1. /\ PeerMsg("leave", bound[c]) \in PeerMsgs
          /\ PeerMsg("leave", bound[c]).type # "awareness"
      BY <2>2, MessageFacts
    <3> QED BY <1>2, <2>2, <3>1
  <2> QED BY <1>7, <2>1, <2>2, OnCloseEffect
<1>8. ASSUME NEW i \in Instance, FanOut(i) PROVE B
  BY <1>8, FanOutEffect DEF B
<1>9. ASSUME NEW p \in Client,
             \/ Edit(p) \/ SetAwareness(p) \/ Open(p) \/ Save(p) \/ Load(p)
             \/ Break(p) \/ Reload(p)
      PROVE  B
  BY <1>1, <1>9, EditEffect, SetAwarenessEffect, OpenEffect, SaveEffect, LoadEffect,
     BreakEffect, ReloadEffect
<1>10. ASSUME NEW p \in Client,
              \/ OnWelcome(p) \/ OnStored(p) \/ OnAwarenessMsg(p) \/ OnLeaveMsg(p)
              \/ OnWriteRefused(p) \/ OnReadRefused(p) \/ OnOtherError(p)
       PROVE  B
  BY <1>1, <1>10, OnWelcomeEffect, OnStoredEffect, OnAwarenessMsgEffect, OnLeaveMsgEffect,
     OnWriteRefusedEffect, OnReadRefusedEffect, OnOtherErrorEffect
<1>11. ASSUME UNCHANGED vars PROVE B
  BY <1>1, <1>11, BusUnchanged DEF vars, hubVars, server
<1>12. B
  BY <1>3, <1>4, <1>5, <1>6, <1>7, <1>8, <1>9, <1>10, <1>11, StepCases
<1> QED BY <1>12 DEF B

(* Behind an awareness message on its way between instances there is a     *)
(* socket of its replica still to be closed, on another instance, or a     *)
(* leave that follows it.                                                  *)
Shown(i, r) == \E c \in Conn : bound[c] = r /\ sock[c] # "closed" /\ Home[c] # i
LeaveFollows ==
  \A i \in Instance : \A n \in DOMAIN bus[i] : bus[i][n].type = "awareness" =>
    \/ Shown(i, bus[i][n].replica)
    \/ \E k \in DOMAIN bus[i] : k > n /\ bus[i][k] = PeerMsg("leave", bus[i][n].replica)

(* When the last such socket closes, the leave is published. *)
LEMMA ShownStep ==
  ASSUME Typed, Numbered, Names, [Next]_vars
  PROVE  \A i \in Instance, r \in ReplicaId :
           Shown(i, r) => Shown(i, r)' \/ bus'[i] = Append(bus[i], PeerMsg("leave", r))
<1> SUFFICES ASSUME NEW i \in Instance, NEW r \in ReplicaId,
                    NEW c \in Conn, bound[c] = r, sock[c] # "closed", Home[c] # i
             PROVE  Shown(i, r)' \/ bus'[i] = Append(bus[i], PeerMsg("leave", r))
  BY DEF Shown
<1>1. bound[c] # NoReplica
  BY ReplicaFacts
<1>2. CASE OnClose(c)
  BY <1>1, <1>2, OnCloseEffect DEF Published
<1>3. CASE ~ OnClose(c)
  BY <1>1, <1>3, BoundStays, ClosedStep DEF Shown
<1> QED BY <1>2, <1>3

(* Every step keeps it so. *)
LEMMA LeaveFollowsStep == Typed /\ Numbered /\ Names /\ LeaveFollows /\ [Next]_vars => LeaveFollows'
<1> SUFFICES ASSUME Typed, Numbered, Names, LeaveFollows, [Next]_vars,
                    NEW i \in Instance, NEW n \in DOMAIN bus'[i], bus'[i][n].type = "awareness",
                    NEW r, r = bus'[i][n].replica
             PROVE  \/ Shown(i, r)'
                    \/ \E k \in DOMAIN bus'[i] : k > n /\ bus'[i][k] = PeerMsg("leave", r)
  BY DEF LeaveFollows, Shown
<1> DEFINE Q == bus[i]
<1>1. Q \in Seq(StoredMsgs \cup PeerMsgs) /\ bus'[i] \in Seq(StoredMsgs \cup PeerMsgs)
  BY TypedStep DEF Typed, HubTyped
<1>2. r \in ReplicaId
  <2>1. bus'[i][n] \in StoredMsgs \cup PeerMsgs
    BY <1>1
  <2> QED BY <2>1 DEF StoredMsgs, PeerMsgs
<1>3. ASSUME NEW m \in DOMAIN Q, Q[m] = bus'[i][n]
      PROVE  \/ Shown(i, r)
             \/ \E k \in DOMAIN Q : k > m /\ Q[k] = PeerMsg("leave", r)
  BY <1>3 DEF LeaveFollows
<1> HIDE DEF Q
<1>4. CASE bus'[i] = Q
  <2>1. Q # Append(Q, PeerMsg("leave", r))
    <3>1. PeerMsg("leave", r) \in StoredMsgs \cup PeerMsgs
      BY <1>2, MessageFacts
    <3> QED BY <1>1, <3>1
  <2> QED BY <1>2, <1>3, <1>4, <2>1, ShownStep DEF Q
<1>5. ASSUME NEW m, m \in StoredMsgs \cup PeerMsgs, bus'[i] = Append(Q, m),
             m.type = "awareness" => \E d \in Conn :
               /\ OnAwareness(d) /\ bound[d] # NoReplica /\ Home[d] # i
               /\ m = PeerMsg("awareness", bound[d])
      PROVE  Shown(i, r)' \/ \E k \in DOMAIN bus'[i] : k > n /\ bus'[i][k] = PeerMsg("leave", r)
  <2>1. /\ DOMAIN bus'[i] = 1 .. Len(Q) + 1 /\ DOMAIN Q = 1 .. Len(Q) /\ Len(Q) \in Nat
        /\ bus'[i][Len(Q) + 1] = m
        /\ \A k \in 1 .. Len(Q) : bus'[i][k] = Q[k]
    BY <1>1, <1>5
  <2>2. CASE n = Len(Q) + 1
    <3>1. bus'[i][n] = m
      BY <2>1, <2>2
    <3>2. PICK d \in Conn :
            /\ OnAwareness(d) /\ bound[d] # NoReplica /\ Home[d] # i
            /\ m = PeerMsg("awareness", bound[d])
      BY <1>5, <3>1
    <3>3. r = bound[d]
      BY <3>1, <3>2 DEF PeerMsg
    <3>4. UNCHANGED sock /\ sock[d] # "closed" /\ UNCHANGED bound
      BY <3>2, OnAwarenessEffect DEF TakenOff
    <3> QED BY <3>2, <3>3, <3>4 DEF Shown
  <2>3. CASE n \in 1 .. Len(Q)
    <3>1. Q[n] = bus'[i][n]
      BY <2>1, <2>3
    <3>2. CASE Shown(i, r)
      <4>1. Shown(i, r)' \/ bus'[i] = Append(Q, PeerMsg("leave", r))
        BY <1>2, <3>2, ShownStep DEF Q
      <4>2. PeerMsg("leave", r) \in StoredMsgs \cup PeerMsgs
        BY <1>2, MessageFacts
      <4>3. bus'[i] = Append(Q, PeerMsg("leave", r)) => bus'[i][Len(Q) + 1] = PeerMsg("leave", r)
        BY <1>1, <4>2
      <4>4. Len(Q) + 1 \in DOMAIN bus'[i] /\ Len(Q) + 1 > n
        BY <2>1, <2>3
      <4> QED BY <4>1, <4>3, <4>4
    <3>3. ASSUME NEW k \in DOMAIN Q, k > n, Q[k] = PeerMsg("leave", r)
          PROVE  \E l \in DOMAIN bus'[i] : l > n /\ bus'[i][l] = PeerMsg("leave", r)
      BY <2>1, <3>3
    <3> QED BY <1>3, <2>1, <2>3, <3>1, <3>2, <3>3
  <2> QED BY <2>1, <2>2, <2>3
<1>6. CASE FanOut(i) /\ Q # <<>> /\ bus'[i] = Tail(Q)
  <2>1. /\ DOMAIN Q = 1 .. Len(Q) /\ Len(Q) \in Nat \ {0}
        /\ DOMAIN bus'[i] = 1 .. Len(Q) - 1
        /\ \A k \in 1 .. Len(Q) - 1 : bus'[i][k] = Q[k + 1]
    BY <1>1, <1>6
  <2>2. n + 1 \in DOMAIN Q /\ Q[n + 1] = bus'[i][n] /\ n \in Nat
    BY <2>1
  <2>3. CASE Shown(i, r)
    BY <1>6, <2>3, FanOutEffect DEF Shown
  <2>4. ASSUME NEW k \in DOMAIN Q, k > n + 1, Q[k] = PeerMsg("leave", r)
        PROVE  \E l \in DOMAIN bus'[i] : l > n /\ bus'[i][l] = PeerMsg("leave", r)
    <3>1. k - 1 \in DOMAIN bus'[i] /\ k - 1 > n /\ bus'[i][k - 1] = Q[k]
      BY <2>1, <2>2, <2>4
    <3> QED BY <2>4, <3>1
  <2> QED BY <1>3, <2>2, <2>3, <2>4
<1> QED BY <1>4, <1>5, <1>6, BusOrder DEF Q

(* A client hears of a replica from a socket of it on its own instance, or *)
(* from the bus.                                                           *)
LEMMA PeerNews ==
  ASSUME Typed, Numbered, [Next]_vars
  PROVE  \A c \in Conn, r \in ReplicaId : PeerMsg("awareness", r) \in Downs(c)' =>
           \/ PeerMsg("awareness", r) \in Downs(c)
           \/ \E d \in Conn : OnAwareness(d) /\ bound[d] = r
           \/ /\ c \in room /\ FanOut(Home[c])
              /\ bus[Home[c]] # <<>> /\ bus[Home[c]][1] = PeerMsg("awareness", r)
<1> SUFFICES ASSUME NEW c \in Conn, NEW r \in ReplicaId,
                    PeerMsg("awareness", r) \in Downs(c)', PeerMsg("awareness", r) \notin Downs(c)
             PROVE  \/ \E d \in Conn : OnAwareness(d) /\ bound[d] = r
                    \/ /\ c \in room /\ FanOut(Home[c])
                       /\ bus[Home[c]] # <<>> /\ bus[Home[c]][1] = PeerMsg("awareness", r)
  OBVIOUS
<1> DEFINE B == \/ \E d \in Conn : OnAwareness(d) /\ bound[d] = r
                \/ /\ c \in room /\ FanOut(Home[c])
                   /\ bus[Home[c]] # <<>> /\ bus[Home[c]][1] = PeerMsg("awareness", r)
           msg == PeerMsg("awareness", r)
<1>1. DownsOnly => B
  BY DEF DownsOnly
<1>2. msg.type = "awareness" /\ msg.replica = r
  BY DEF PeerMsg
<1> HIDE DEF B, msg
<1>3. ASSUME NEW S, NEW m, SentDown(S, m) PROVE c \in S /\ m = msg
  BY <1>3, SentDownAdds DEF msg
<1>4. ASSUME NEW S, NEW m, SentDown(S, m), m.type # "awareness" PROVE B
  BY <1>2, <1>3, <1>4
<1>5. ASSUME NEW d \in Conn, OnJoin(d) PROVE B
  BY <1>1, <1>5, OnJoinEffect, DownsOnlyFacts
<1>6. \A code : ErrorMsg(code).type # "awareness"
  BY DEF ErrorMsg
<1>7. ASSUME NEW d \in Conn, NEW i \in DOMAIN tasks[d],
             JoinAuthorized(d, i) \/ OpAuthorized(d, i) \/ HandlerThrows(d, i)
      PROVE  B
  <2>1. DownsKept \/ \E S, code : SentDown(S, ErrorMsg(code))
    BY <1>7, JoinAuthorizedEffect, OpAuthorizedEffect, HandlerThrowsEffect
  <2> QED BY <1>1, <1>4, <1>6, <2>1, DownsOnlyFacts
<1>8. ASSUME NEW d \in Conn, NEW i \in DOMAIN tasks[d], SendWelcome(d, i) PROVE B
  <2>1. \A ops, n : WelcomeMsg(ops, n).type # "awareness"
    BY DEF WelcomeMsg
  <2> QED BY <1>4, <1>8, <2>1, SendWelcomeEffect
<1>9. ASSUME NEW d \in Conn, OnOp(d) PROVE B
  <2>1. DownsKept \/ \E S, code : SentDown(S, ErrorMsg(code))
    BY <1>9, OnOpEffect
  <2> QED BY <1>1, <1>4, <1>6, <2>1, DownsOnlyFacts
<1>10. ASSUME NEW d \in Conn, NEW i \in DOMAIN tasks[d], AppendOp(d, i) PROVE B
  BY <1>1, <1>10, AppendOpEffect, DownsOnlyFacts
<1>11. ASSUME NEW d \in Conn, NEW i \in DOMAIN tasks[d], SpreadOp(d, i) PROVE B
  <2>1. \A n, ops : StoredMsg(n, ops).type # "awareness"
    BY DEF StoredMsg
  <2> QED BY <1>4, <1>11, <2>1, SpreadOpEffect
<1>12. ASSUME NEW d \in Conn, OnAwareness(d) PROVE B
  <2>1. DownsKept \/ SentDown(Members(Home[d]) \ {d}, PeerMsg("awareness", bound[d]))
    BY <1>12, OnAwarenessEffect
  <2>2. SentDown(Members(Home[d]) \ {d}, PeerMsg("awareness", bound[d])) => bound[d] = r
    <3>1. PeerMsg("awareness", bound[d]).replica = bound[d]
      BY DEF PeerMsg
    <3> QED BY <1>2, <1>3, <3>1
  <2> QED BY <1>1, <1>12, <2>1, <2>2, DownsOnlyFacts DEF B
<1>13. ASSUME NEW d \in Conn, OnClose(d) PROVE B
  <2>1. DownsKept \/ SentDown(Members(Home[d]) \ {d}, PeerMsg("leave", bound[d]))
    BY <1>13, OnCloseEffect
  <2>2. PeerMsg("leave", bound[d]).type # "awareness"
    BY DEF PeerMsg
  <2> QED BY <1>1, <1>4, <2>1, <2>2, DownsOnlyFacts
<1>14. ASSUME NEW i \in Instance, FanOut(i) PROVE B
  <2>1. PICK m : m = bus[i][1] /\ bus[i] # <<>> /\ SentDown(Members(i), m)
    BY <1>14, FanOutEffect
  <2>2. c \in Members(i) /\ m = msg
    BY <1>3, <2>1
  <2>3. c \in room /\ Home[c] = i
    BY <2>2, MembersFacts
  <2> QED BY <1>14, <2>1, <2>2, <2>3 DEF B, msg
<1>15. ASSUME NEW p \in Client,
              \/ Edit(p) \/ SetAwareness(p) \/ Open(p) \/ Save(p) \/ Load(p)
              \/ Break(p) \/ Reload(p)
              \/ OnWelcome(p) \/ OnStored(p) \/ OnAwarenessMsg(p) \/ OnLeaveMsg(p)
              \/ OnWriteRefused(p) \/ OnReadRefused(p) \/ OnOtherError(p)
       PROVE  B
  BY <1>1, <1>15, ClientDowns
<1>16. ASSUME UNCHANGED vars PROVE B
  BY <1>1, <1>16, DownsUnchanged, DownsOnlyFacts DEF vars, hubVars, wires
<1>17. B
  BY <1>5, <1>7, <1>8, <1>9, <1>10, <1>11, <1>12, <1>13, <1>14, <1>15, <1>16, StepCases
<1> QED BY <1>17 DEF B

(* What a client shows it showed before, or is told of now. *)
LEMMA FreshStep ==
  ASSUME Typed, Numbered, [Next]_vars
  PROVE  \A p \in Client : \A r \in fresh'[p] :
           \/ r \in fresh[p] /\ (r \in presence'[p] => r \in presence[p])
           \/ PeerMsg("awareness", r) \in Downs(Sock(p))
<1> DEFINE B == \A p \in Client : \A r \in fresh'[p] :
                  \/ r \in fresh[p] /\ (r \in presence'[p] => r \in presence[p])
                  \/ PeerMsg("awareness", r) \in Downs(Sock(p))
<1>1. ASSUME UNCHANGED <<fresh, presence>> PROVE B
  BY <1>1
<1>2. ASSUME NEW p \in Client, fresh'[p] = {}, OthersKeep(fresh, fresh', p),
             OthersKeep(presence, presence', p)
      PROVE  B
  BY <1>2 DEF OthersKeep
<1>3. ASSUME ServerOnly PROVE B
  BY <1>1, <1>3 DEF ServerOnly, people
<1>4. ASSUME NEW p \in Client, Edit(p) \/ SetAwareness(p) \/ Save(p) \/ Load(p) \/ Break(p) PROVE B
  BY <1>1, <1>4, EditEffect, SetAwarenessEffect, SaveEffect, LoadEffect, BreakEffect DEF people
<1>5. ASSUME NEW p \in Client, Open(p) PROVE B
  BY <1>2, <1>5, OpenEffect DEF OthersKeep
<1>6. ASSUME NEW p \in Client, Reload(p) PROVE B
  BY <1>2, <1>6, ReloadEffect
<1>7. ASSUME NEW p \in Client, OnAwarenessMsg(p) PROVE B
  <2>1. PICK r \in ReplicaId :
          /\ HeardBy(p, PeerMsg("awareness", r)) /\ Sock(p) \in Conn
          /\ presence'[p] = presence[p] \cup {r} /\ OthersKeep(presence, presence', p)
          /\ fresh'[p] = fresh[p] \cup {r} /\ OthersKeep(fresh, fresh', p)
    BY <1>7, OnAwarenessMsgEffect
  <2>2. PeerMsg("awareness", r) \in Downs(Sock(p))
    BY <2>1 DEF HeardBy
  <2> QED BY <2>1, <2>2 DEF OthersKeep
<1>8. ASSUME NEW p \in Client, OnLeaveMsg(p) PROVE B
  BY <1>8, OnLeaveMsgEffect DEF OthersKeep
<1>9. ASSUME NEW p \in Client,
             OnWelcome(p) \/ OnStored(p) \/ OnWriteRefused(p) \/ OnReadRefused(p) \/ OnOtherError(p)
      PROVE  B
  BY <1>1, <1>9, OnWelcomeEffect, OnStoredEffect, OnWriteRefusedEffect, OnReadRefusedEffect,
     OnOtherErrorEffect
  DEF people
<1>10. ASSUME UNCHANGED vars PROVE B
  BY <1>1, <1>10 DEF vars, people
<1> HIDE DEF B
<1>11. B
  BY <1>3, <1>4, <1>5, <1>6, <1>7, <1>8, <1>9, <1>10, StepCases
<1> QED BY <1>11 DEF B

(* Only the sockets in a room are told of it. *)
HeardInRoom ==
  \A p \in Client : Online(p) =>
    /\ fresh[p] # {} => Sock(p) \in room
    /\ \A m \in Downs(Sock(p)) : m.type \in {"awareness", "leave", "stored"} => Sock(p) \in room

(* An open socket that is in the room stays there. *)
LEMMA RoomStays ==
  ASSUME Typed, Numbered, [Next]_vars, NEW c \in Conn, sock[c] = "open", c \in room
  PROVE  c \in room'
BY ClosedStep, OnCloseEffect

(* Every step keeps it so. *)
LEMMA HeardInRoomStep ==
  Typed /\ Numbered /\ Sockets /\ HeardInRoom /\ [Next]_vars => HeardInRoom'
<1> SUFFICES ASSUME Typed, Numbered, Sockets, HeardInRoom, [Next]_vars,
                    NEW p \in Client, Online(p)', NEW c, c = Sock(p)'
             PROVE  /\ fresh'[p] # {} => c \in room'
                    /\ \A m \in Downs(c)' : m.type \in {"awareness", "leave", "stored"} => c \in room'
  BY DEF HeardInRoom
<1>1. CASE Online(p) /\ c = Sock(p) /\ c \in Conn
  <2>1. sock[c] = "open" /\ (c \in room => c \in room')
    BY <1>1, RoomStays DEF Online
  <2>2. \A m \in Downs(c) : m.type \in {"awareness", "leave", "stored"} => c \in room
    BY <1>1 DEF HeardInRoom
  <2>3. fresh'[p] # {} => c \in room
    <3>1. \A r : PeerMsg("awareness", r).type = "awareness"
      BY DEF PeerMsg
    <3>2. \A r \in fresh'[p] : r \in fresh[p] \/ PeerMsg("awareness", r) \in Downs(c)
      BY <1>1, FreshStep
    <3> QED BY <1>1, <2>2, <3>1, <3>2 DEF HeardInRoom
  <2>4. ASSUME NEW m \in Downs(c)', m.type \in {"awareness", "leave", "stored"} PROVE c \in room
    <3>1. ~ Welcomes(c, m)
      BY <2>4 DEF Welcomes, WelcomeMsg
    <3>2. ~ Refuses(c, m)
      <4>1. \A code : ErrorMsg(code).type = "error"
        BY DEF ErrorMsg
      <4> QED BY <2>4, <4>1 DEF Refuses
    <3> QED BY <1>1, <2>2, <2>4, <3>1, <3>2, DownsStep DEF SentBy
  <2> QED BY <2>1, <2>3, <2>4
<1>2. CASE c \in Conn /\ Open(p) /\ Opened(p, c)
  <2>1. sock[c] = "new"
    <3>1. c[2] > cur[c[1]]
      <4>1. cur[p] \in Nat
        BY DEF Typed, LocalTyped
      <4> QED BY <1>2, <4>1 DEF Opened
    <3> QED BY <1>2, <3>1 DEF Sockets
  <2>2. Downs(c)' = {} /\ fresh'[p] = {}
    BY <1>2, <2>1, DownFacts, OpenEffect DEF DownsKept
  <2> QED BY <2>2
<1> QED BY <1>1, <1>2, OnlineStep

(* A replica of which every socket is closed is gone, and whoever still    *)
(* shows it, or is told of it now, is about to hear that.                  *)
Gone(r) == \A c \in Conn : bound[c] = r => sock[c] = "closed"

Shows(p, r) == r \in fresh[p] \cap presence[p] \/ PeerMsg("awareness", r) \in Downs(Sock(p))

LeaveComes(c, r) ==
  \/ PeerMsg("leave", r) \in Downs(c)
  \/ PeerMsg("leave", r) \in Bus(Home[c])

GhostsLeave ==
  \A p \in Client : Online(p) =>
    \A r \in ReplicaId : Gone(r) /\ Shows(p, r) => LeaveComes(Sock(p), r)

(* A leave on its way arrives, or is heard. *)
LEMMA LeaveStays ==
  ASSUME Typed, Numbered, Sockets, [Next]_vars,
         NEW p \in Client, Online(p), Sock(p) \in room, Sock(p) \in Conn, sock'[Sock(p)] = "open",
         NEW r \in ReplicaId, LeaveComes(Sock(p), r), NEW c, c = Sock(p)
  PROVE  \/ PeerMsg("leave", r) \in Downs(c)' \cup Bus(Home[c])'
         \/ OnLeaveMsg(p) /\ HeardBy(p, PeerMsg("leave", r))
<1> DEFINE m == PeerMsg("leave", r)
           i == Home[c]
<1>1. m.type = "leave" /\ i \in Instance /\ m \in StoredMsgs \cup PeerMsgs
  BY MessageFacts, HomeAssumption
<1> HIDE DEF m
<1>2. CASE m \in Downs(c)
  <2>1. m \in Downs(c)' \/ \E q \in Client : c = Sock(q) /\ Handles(q, m)
    BY <1>2, DownsLost
  <2>2. ASSUME NEW q \in Client, c = Sock(q), Handles(q, m) PROVE OnLeaveMsg(p) /\ HeardBy(p, m)
    <3>1. q = p
      BY <2>2 DEF Sock
    <3>2. \A code : m # ErrorMsg(code)
      BY <1>1 DEF ErrorMsg
    <3> QED BY <1>1, <2>2, <3>1, <3>2 DEF Handles
  <2> QED BY <2>1, <2>2 DEF m
<1>3. CASE m \in Bus(i)
  <2>1. bus[i] \in Seq(StoredMsgs \cup PeerMsgs)
    BY <1>1 DEF Typed, HubTyped
  <2>2. CASE bus'[i] = bus[i]
    BY <1>3, <2>2 DEF Bus, m
  <2>3. CASE \E n \in StoredMsgs \cup PeerMsgs : bus'[i] = Append(bus[i], n)
    <3>1. PICK n \in StoredMsgs \cup PeerMsgs : bus'[i] = Append(bus[i], n)
      BY <2>3
    <3>2. ToSet(bus'[i]) = ToSet(bus[i]) \cup {n}
      BY <2>1, <3>1, AppendElements
    <3> QED BY <1>3, <3>2 DEF Bus, m
  <2>4. CASE FanOut(i)
    <3>1. PICK n : Bus(i) = {n} \cup Bus(i)' /\ SentDown(Members(i), n)
      BY <1>1, <2>4, FanOutEffect
    <3>2. c \in Members(i) /\ sock[c] = "open"
      BY MembersFacts DEF Online
    <3>3. n \in Downs(c)'
      BY <3>1, <3>2 DEF SentDown
    <3> QED BY <1>3, <3>1, <3>3 DEF m
  <2> QED BY <1>1, <2>2, <2>3, <2>4, BusOrder
<1> QED BY <1>2, <1>3 DEF LeaveComes, m

(* Every step keeps it so. *)
LEMMA GhostsLeaveStep ==
  Typed /\ Numbered /\ Sockets /\ Names /\ LeaveFollows /\ HeardInRoom /\ GhostsLeave /\ [Next]_vars
    => GhostsLeave'
<1> SUFFICES ASSUME Typed, Numbered, Sockets, Names, LeaveFollows, HeardInRoom, GhostsLeave,
                    [Next]_vars,
                    NEW p \in Client, Online(p)', NEW c, c = Sock(p)',
                    NEW r \in ReplicaId, Gone(r)',
                    \/ r \in fresh'[p] \cap presence'[p]
                    \/ PeerMsg("awareness", r) \in Downs(c)'
             PROVE  PeerMsg("leave", r) \in Downs(c)' \cup Bus(Home[c])'
  BY DEF GhostsLeave, Shows, LeaveComes
<1>0. sock'[c] = "open"
  BY DEF Online
<1>1. CASE c \in Conn /\ Open(p) /\ Opened(p, c)
  <2>1. sock[c] = "new"
    <3>1. c[2] > cur[c[1]]
      <4>1. cur[p] \in Nat
        BY DEF Typed, LocalTyped
      <4> QED BY <1>1, <4>1 DEF Opened
    <3> QED BY <1>1, <3>1 DEF Sockets
  <2>2. Downs(c)' = {} /\ fresh'[p] = {}
    BY <1>1, <2>1, DownFacts, OpenEffect DEF DownsKept
  <2> QED BY <2>2
<1>2. CASE Online(p) /\ c = Sock(p) /\ c \in Conn
  <2>0. PeerMsg("awareness", r).type = "awareness" /\ PeerMsg("awareness", r).replica = r
    BY MessageFacts
  <2>1. ASSUME NEW d \in Conn, bound[d] = r, sock[d] # "closed" PROVE OnClose(d)
    <3>1. bound'[d] = r
      BY <2>1, BoundStays, ReplicaFacts
    <3>2. sock'[d] = "closed"
      BY <3>1 DEF Gone
    <3> QED BY <2>1, <3>2, ClosedStep
  <2>2. CASE \E d \in Conn : bound[d] = r /\ sock[d] # "closed"
    <3>1. PICK d \in Conn : bound[d] = r /\ sock[d] # "closed" /\ OnClose(d)
      BY <2>1, <2>2
    <3>2. /\ SentDown(Members(Home[d]) \ {d}, PeerMsg("leave", r))
          /\ Published(Home[d], PeerMsg("leave", r))
          /\ sock[d] = "left"
      BY <3>1, OnCloseEffect, ReplicaFacts
    <3>3. c # d /\ sock[c] = "open"
      BY <1>2, <3>2 DEF Online
    <3>4. PeerMsg("awareness", r) \notin Downs(c)' \/ PeerMsg("awareness", r) \in Downs(c)
      <4>1. PeerMsg("leave", r) # PeerMsg("awareness", r)
        BY DEF PeerMsg
      <4> QED BY <1>2, <3>2, <4>1, SentDownAdds
    <3>5. c \in room
      <4>1. r \in fresh[p] \/ PeerMsg("awareness", r) \in Downs(c)
        BY <1>2, <3>4, FreshStep
      <4> QED BY <1>2, <2>0, <4>1 DEF HeardInRoom
    <3>6. CASE Home[c] = Home[d]
      BY <1>2, <3>2, <3>3, <3>5, <3>6, MembersFacts DEF SentDown
    <3>7. CASE Home[c] # Home[d]
      BY <1>2, <3>2, <3>7, HomeAssumption DEF Published
    <3> QED BY <3>6, <3>7
  <2>3. CASE Gone(r)
    <3>1. Shows(p, r) \/ (c \in room /\ FanOut(Home[c]) /\ bus[Home[c]] # <<>>
                          /\ bus[Home[c]][1] = PeerMsg("awareness", r))
      <4>1. ASSUME r \in fresh'[p] \cap presence'[p] PROVE Shows(p, r)
        BY <1>2, <4>1, FreshStep DEF Shows
      <4>2. ASSUME NEW d \in Conn, OnAwareness(d), bound[d] = r PROVE FALSE
        BY <2>3, <4>2, OnAwarenessEffect DEF Gone, TakenOff
      <4> QED BY <1>2, <4>1, <4>2, PeerNews DEF Shows
    <3>2. CASE Shows(p, r)
      <4>1. LeaveComes(c, r)
        BY <1>2, <2>3, <3>2 DEF GhostsLeave
      <4>2. c \in room
        BY <1>2, <2>0, <3>2 DEF HeardInRoom, Shows
      <4>3. ASSUME OnLeaveMsg(p), HeardBy(p, PeerMsg("leave", r)) PROVE FALSE
        <5>1. /\ presence'[p] = presence[p] \ {r}
              /\ Downs(c)' = {}
          <6>1. Len(down[c]) <= 1
            BY <1>2 DEF Sockets
          <6>2. Downs(c) = {PeerMsg("leave", r)} /\ Downs(c)' = {}
            BY <1>2, <4>3, <6>1 DEF HeardBy
          <6>3. PICK s \in ReplicaId : /\ HeardBy(p, PeerMsg("leave", s))
                                       /\ presence'[p] = presence[p] \ {s}
            BY <4>3, OnLeaveMsgEffect
          <6>4. PeerMsg("leave", s) = PeerMsg("leave", r)
            BY <1>2, <6>2, <6>3 DEF HeardBy
          <6>5. s = r
            BY <6>4 DEF PeerMsg
          <6> QED BY <6>2, <6>3, <6>5
        <5> QED BY <5>1
      <4> QED BY <1>0, <1>2, <4>1, <4>2, <4>3, LeaveStays
    <3>3. CASE /\ c \in room /\ FanOut(Home[c]) /\ bus[Home[c]] # <<>>
               /\ bus[Home[c]][1] = PeerMsg("awareness", r)
      <4> DEFINE i == Home[c]
      <4>1. i \in Instance /\ bus[i] \in Seq(StoredMsgs \cup PeerMsgs)
        BY <1>2, HomeAssumption DEF Typed, HubTyped
      <4>2. 1 \in DOMAIN bus[i]
        BY <3>3, <4>1
      <4>3. ~ Shown(i, r)
        BY <2>3 DEF Shown, Gone
      <4>4. PICK k \in DOMAIN bus[i] : k > 1 /\ bus[i][k] = PeerMsg("leave", r)
        BY <2>0, <3>3, <4>1, <4>2, <4>3 DEF LeaveFollows
      <4>5. bus'[i] = Tail(bus[i])
        BY <3>3, <4>1, FanOutEffect
      <4>6. k - 1 \in DOMAIN bus'[i] /\ bus'[i][k - 1] = PeerMsg("leave", r)
        BY <4>1, <4>4, <4>5, SMTT(30)
      <4> QED BY <4>6 DEF Bus, ToSet
    <3> QED BY <3>1, <3>2, <3>3
  <2> QED BY <2>2, <2>3 DEF Gone
<1> QED BY <1>1, <1>2, OnlineStep

(* When all is delivered no room shows a participant, heard of on its      *)
(* present socket, that has no socket left on any instance.                *)
THEOREM NoGhostStays == Spec => []NoFreshGhosts
<1> DEFINE Inv == LeaveFollows /\ HeardInRoom /\ GhostsLeave
<1>1. Init => Inv
  <2> SUFFICES ASSUME Init PROVE Inv
    OBVIOUS
  <2>1. /\ \A p \in Client : cur[p] = 0 /\ ~ Online(p)
        /\ \A i \in Instance : bus[i] = <<>>
    BY DEF Init, HubInit, Online
  <2>2. DOMAIN <<>> = {}
    OBVIOUS
  <2> QED BY <2>1, <2>2 DEF LeaveFollows, HeardInRoom, GhostsLeave
<1>2. Sound /\ Inv /\ [Next]_vars => Inv'
  BY LeaveFollowsStep, HeardInRoomStep, GhostsLeaveStep DEF Sound
<1>3. Sound /\ Inv => NoFreshGhosts
  <2> SUFFICES ASSUME Sound, Inv, Quiet, NEW p \in Client, Online(p),
                      NEW r \in fresh[p] \cap presence[p]
               PROVE  \E c \in Conn : bound[c] = r /\ sock[c] # "closed"
    BY DEF NoFreshGhosts
  <2>1. r \in ReplicaId /\ Sock(p) \in Conn /\ Home[Sock(p)] \in Instance
    BY OnlineFacts, HomeAssumption DEF Sound, Typed, LocalTyped
  <2>2. ToSet(<<>>) = {}
    BY DEF ToSet
  <2>3. Downs(Sock(p)) = {} /\ Bus(Home[Sock(p)]) = {}
    BY <2>1, <2>2 DEF Quiet, Downs, Bus
  <2>4. ~ Gone(r)
    BY <2>1, <2>3 DEF GhostsLeave, Shows, LeaveComes
  <2> QED BY <2>4 DEF Gone
<1> HIDE DEF Inv
<1> QED BY <1>1, <1>2, <1>3, SoundAlways, PTL DEF Spec

-----------------------------------------------------------------------------
(* What an action takes off a queue, and what comes of it *)

(* What comes of a message that the server has read. *)
Read(c, m) ==
  \/ /\ m.type = "join"
     /\ \E t \in Tasks(c)' : /\ t.pc \in Joining /\ t.msg = m
                             /\ t.pc = "authorize join" \/ c \in room'
  \/ /\ m.type = "op"
     /\ \/ bound[c] = NoReplica /\ SentDown({c}, ErrorMsg("none"))
        \/ \E t \in Tasks(c)' : t.pc \in {"authorize op", "append"} /\ t.op = m.op
  \/ m.type = "awareness"

(* What was on its way up a socket that stays open still is, behind the    *)
(* same message, or one was read.                                          *)
LEMMA UpsLost ==
  ASSUME Typed, Numbered, Sockets, [Next]_vars
  PROVE  \A c \in Conn : sock'[c] = "open" =>
           \/ /\ Ups(c) \subseteq Ups(c)'
              /\ up[c] # <<>> => up'[c] # <<>> /\ Head(up'[c]) = Head(up[c])
           \/ \E m : TakenOff(c, m) /\ Read(c, m)
<1> DEFINE B == \A c \in Conn : sock'[c] = "open" =>
                  \/ /\ Ups(c) \subseteq Ups(c)'
                     /\ up[c] # <<>> => up'[c] # <<>> /\ Head(up'[c]) = Head(up[c])
                  \/ \E m : TakenOff(c, m) /\ Read(c, m)
<1>1. ASSUME UpsKept PROVE B
  BY <1>1 DEF UpsKept
<1>2. ASSUME NEW c \in Conn, NEW m, TakenOff(c, m), Read(c, m) PROVE B
  BY <1>2 DEF TakenOff
<1>3. ASSUME NEW p \in Client, NEW msgs, SentUp(p, msgs) PROVE B
  BY <1>3 DEF SentUp
<1>4. ASSUME NEW p \in Client, Left(p) PROVE B
  BY <1>4 DEF Left
<1> HIDE DEF B
<1>5. ASSUME NEW c \in Conn, OnJoin(c) PROVE B
  <2>1. PICK msg \in JoinMsgs, task \in JoinTasks :
          /\ TakenOff(c, msg) /\ msg.type = "join" /\ Suspended(c, task) /\ task.msg = msg
          /\ task.pc = IF enforce THEN "authorize join" ELSE "welcome"
          /\ IF enforce THEN UNCHANGED <<bound, room>> ELSE Entered(c, msg.replica)
    BY <1>5, OnJoinEffect
  <2>2. task \in Tasks(c)' /\ task.pc \in Joining /\ (enforce \/ c \in room')
    BY <2>1 DEF Suspended, Joining, Entered
  <2>3. Read(c, msg)
    BY <2>1, <2>2 DEF Read
  <2> QED BY <1>2, <2>1, <2>3
<1>6. ASSUME NEW c \in Conn, OnOp(c) PROVE B
  <2>1. PICK msg \in UpMsgs :
          /\ TakenOff(c, msg) /\ msg.type = "op"
          /\ \/ bound[c] = NoReplica /\ SentDown({c}, ErrorMsg("none"))
             \/ \E task \in OpTasks :
                  /\ Suspended(c, task) /\ task.op = msg.op
                  /\ task.pc = IF enforce THEN "authorize op" ELSE "append"
    BY <1>6, OnOpEffect
  <2>2. Read(c, msg)
    BY <2>1 DEF Read, Suspended
  <2> QED BY <1>2, <2>1, <2>2
<1>7. ASSUME NEW c \in Conn, OnAwareness(c) PROVE B
  BY <1>2, <1>7, OnAwarenessEffect DEF Read
<1>8. ASSUME NEW c \in Conn, OnClose(c) PROVE B
  BY <1>1, <1>8, OnCloseEffect
<1>9. ASSUME NEW c \in Conn, NEW i \in DOMAIN tasks[c],
             \/ JoinAuthorized(c, i) \/ SendWelcome(c, i)
             \/ OpAuthorized(c, i) \/ AppendOp(c, i) \/ SpreadOp(c, i) \/ HandlerThrows(c, i)
      PROVE  B
  BY <1>1, <1>9, JoinAuthorizedEffect, SendWelcomeEffect, OpAuthorizedEffect, AppendOpEffect,
     SpreadOpEffect, HandlerThrowsEffect
<1>10. ASSUME NEW i \in Instance, FanOut(i) PROVE B
  BY <1>1, <1>10, FanOutEffect
<1>11. ASSUME NEW p \in Client, Edit(p) \/ SetAwareness(p) \/ Load(p) \/ OnWelcome(p) \/ OnWriteRefused(p)
       PROVE  B
  BY <1>3, <1>11, EditEffect, SetAwarenessEffect, LoadEffect, OnWelcomeEffect, OnWriteRefusedEffect
<1>12. ASSUME NEW p \in Client, Open(p) PROVE B
  <2>1. PICK c \in Conn : Opened(p, c) /\ sock[c] = "new"
    BY <1>12, AskedOnOpen
  <2>2. Ups(c) = {} /\ up[c] = <<>>
    BY <2>1, NewFacts DEF Sockets
  <2> QED BY <2>1, <2>2 DEF Opened, B
<1>13. ASSUME NEW p \in Client,
              \/ Save(p) \/ OnStored(p) \/ OnAwarenessMsg(p) \/ OnLeaveMsg(p) \/ OnOtherError(p)
       PROVE  B
  BY <1>1, <1>13, SaveEffect, OnStoredEffect, OnAwarenessMsgEffect, OnLeaveMsgEffect, OnOtherErrorEffect
<1>14. ASSUME NEW p \in Client, Break(p) \/ Reload(p) \/ OnReadRefused(p) PROVE B
  BY <1>1, <1>4, <1>14, BreakEffect, ReloadEffect, OnReadRefusedEffect
<1>15. ASSUME UNCHANGED vars PROVE B
  BY <1>1, <1>15, UpsUnchanged DEF vars, hubVars, wires
<1>16. B
  BY <1>5, <1>6, <1>7, <1>8, <1>9, <1>10, <1>11, <1>12, <1>13, <1>14, <1>15, StepCases
<1> QED BY <1>16 DEF B

(* A message on its way up an open socket stays there until it is read. *)
LEMMA MessageLost ==
  ASSUME Typed, Numbered, Sockets, [Next]_vars,
         NEW c \in Conn, sock'[c] = "open", NEW m \in Ups(c)
  PROVE  m \in Ups(c)' \/ (TakenOff(c, m) /\ Read(c, m))
<1>1. CASE Ups(c) \subseteq Ups(c)'
  BY <1>1
<1>2. ASSUME NEW n, TakenOff(c, n), Read(c, n) PROVE m \in Ups(c)' \/ (TakenOff(c, m) /\ Read(c, m))
  BY <1>2 DEF TakenOff
<1> QED BY <1>1, <1>2, UpsLost

(* t threw: the client whose socket it was misses what it was for.         *)
Threw(c, t) ==
  \/ t.pc \in Joining /\ \A p \in Client : Sock(p) = c => p \in unjoined'
  \/ /\ t.pc \in {"authorize op", "append"}
     /\ \A p \in Client : Sock(p) = c => t.op \subseteq rebuffed'[p]

(* What comes of a task that is done. *)
Done(c, t) ==
  \/ Threw(c, t)
  \/ /\ t.pc = "authorize join"
     /\ \/ SentDown({c}, ErrorMsg("forbidden-read"))
        \/ c \in room' /\ \E s \in Tasks(c)' : s.pc = "welcome" /\ s.msg = t.msg
  \/ /\ t.pc = "welcome" /\ UNCHANGED log
     /\ SentDown({c}, WelcomeMsg(OpsSince(t.msg.since), Len(log)))
  \/ /\ t.pc = "authorize op"
     /\ \/ SentDown({c}, ErrorMsg("forbidden-write"))
        \/ \E s \in Tasks(c)' : s.pc = "append" /\ s.op = t.op
  \/ /\ t.pc = "append" /\ Logged1(t.op) /\ t.op \in SUBSET Edits
     /\ \E s \in Tasks(c)' : s.pc = "spread" /\ s.seq = Len(log) + 1
  \/ /\ t.pc = "spread"
     /\ SentDown(Members(Home[c]), StoredMsg(t.seq, t.op))
     /\ Published(Home[c], StoredMsg(t.seq, t.op))

(* A task stays until it is done. *)
LEMMA TasksLost ==
  ASSUME Typed, Numbered, [Next]_vars
  PROVE  \A c \in Conn : \A t \in Tasks(c) : t \in Tasks(c)' \/ Done(c, t)
<1> DEFINE B == \A c \in Conn : \A t \in Tasks(c) : t \in Tasks(c)' \/ Done(c, t)
<1>1. ASSUME TasksKept PROVE B
  BY <1>1 DEF TasksKept
<1>2. ASSUME NEW c \in Conn, NEW t, Suspended(c, t) PROVE B
  BY <1>2 DEF Suspended
<1>3. ASSUME NEW c \in Conn, NEW t, Done(c, t), Finished(c, t) \/ \E s : Resumed(c, t, s) PROVE B
  BY <1>3 DEF Finished, Resumed
<1> HIDE DEF B
<1>4. ASSUME NEW c \in Conn, OnJoin(c) PROVE B
  BY <1>2, <1>4, OnJoinEffect
<1>5. ASSUME NEW c \in Conn, OnOp(c) PROVE B
  BY <1>1, <1>2, <1>5, OnOpEffect
<1>6. ASSUME NEW c \in Conn, OnAwareness(c) \/ OnClose(c) PROVE B
  BY <1>1, <1>6, OnAwarenessEffect, OnCloseEffect
<1>7. ASSUME NEW c \in Conn, NEW i \in DOMAIN tasks[c], JoinAuthorized(c, i) PROVE B
  <2>1. PICK old \in JoinTasks :
          /\ old.pc = "authorize join"
          /\ \/ SentDown({c}, ErrorMsg("forbidden-read")) /\ Finished(c, old)
             \/ /\ Entered(c, old.msg.replica)
                /\ \E new \in JoinTasks :
                     new.pc = "welcome" /\ new.msg = old.msg /\ Resumed(c, old, new)
    BY <1>7, JoinAuthorizedEffect
  <2>2. Done(c, old)
    BY <2>1 DEF Done, Entered, Resumed
  <2> QED BY <1>3, <2>1, <2>2
<1>8. ASSUME NEW c \in Conn, NEW i \in DOMAIN tasks[c], SendWelcome(c, i) PROVE B
  <2>1. PICK old \in JoinTasks :
          /\ old.pc = "welcome" /\ Finished(c, old) /\ UNCHANGED log
          /\ SentDown({c}, WelcomeMsg(OpsSince(old.msg.since), Len(log)))
    BY <1>8, SendWelcomeEffect
  <2>2. Done(c, old)
    BY <2>1 DEF Done
  <2> QED BY <1>3, <2>1, <2>2
<1>9. ASSUME NEW c \in Conn, NEW i \in DOMAIN tasks[c], OpAuthorized(c, i) PROVE B
  <2>1. PICK old \in OpTasks :
          /\ old.pc = "authorize op"
          /\ \/ \E new \in OpTasks : new.pc = "append" /\ new.op = old.op /\ Resumed(c, old, new)
             \/ SentDown({c}, ErrorMsg("forbidden-write")) /\ Finished(c, old)
    BY <1>9, OpAuthorizedEffect
  <2>2. Done(c, old)
    BY <2>1 DEF Done, Resumed
  <2> QED BY <1>3, <2>1, <2>2
<1>10. ASSUME NEW c \in Conn, NEW i \in DOMAIN tasks[c], AppendOp(c, i) PROVE B
  <2>1. PICK old \in OpTasks, new \in SpreadTasks :
          /\ old.pc = "append" /\ Resumed(c, old, new)
          /\ new.pc = "spread" /\ new.seq = Len(log) + 1
          /\ Logged1(old.op) /\ old.op \in SUBSET Edits
    BY <1>10, AppendOpEffect
  <2>2. Done(c, old)
    BY <2>1 DEF Done, Resumed
  <2> QED BY <1>3, <2>1, <2>2
<1>11. ASSUME NEW c \in Conn, NEW i \in DOMAIN tasks[c], SpreadOp(c, i) PROVE B
  <2>1. PICK old \in SpreadTasks :
          /\ old.pc = "spread" /\ Finished(c, old)
          /\ SentDown(Members(Home[c]), StoredMsg(old.seq, old.op))
          /\ Published(Home[c], StoredMsg(old.seq, old.op))
    BY <1>11, SpreadOpEffect
  <2>2. Done(c, old)
    BY <2>1 DEF Done
  <2> QED BY <1>3, <2>1, <2>2
<1>12. ASSUME NEW i \in Instance, FanOut(i) PROVE B
  BY <1>1, <1>12, FanOutEffect
<1>13. ASSUME NEW p \in Client,
              \/ Edit(p) \/ SetAwareness(p) \/ Open(p) \/ Save(p) \/ Load(p)
              \/ Break(p) \/ Reload(p)
       PROVE  B
  BY <1>1, <1>13, EditEffect, SetAwarenessEffect, OpenEffect, SaveEffect, LoadEffect,
     BreakEffect, ReloadEffect
<1>14. ASSUME NEW p \in Client,
              \/ OnWelcome(p) \/ OnStored(p) \/ OnAwarenessMsg(p) \/ OnLeaveMsg(p)
              \/ OnWriteRefused(p) \/ OnReadRefused(p) \/ OnOtherError(p)
       PROVE  B
  BY <1>1, <1>14, OnWelcomeEffect, OnStoredEffect, OnAwarenessMsgEffect, OnLeaveMsgEffect,
     OnWriteRefusedEffect, OnReadRefusedEffect, OnOtherErrorEffect
<1>15. ASSUME UNCHANGED vars PROVE B
  BY <1>1, <1>15, TasksUnchanged DEF vars, hubVars, server
<1>16. ASSUME NEW c \in Conn, NEW i \in DOMAIN tasks[c], HandlerThrows(c, i) PROVE B
  <2>1. PICK old \in JoinTasks \cup OpTasks : Finished(c, old) /\ Harmed(c, old)
    BY <1>16, HandlerThrowsEffect
  <2>2. Threw(c, old)
    BY <2>1 DEF Harmed, Threw, Joining, JoinTasks, OpTasks
  <2>3. Done(c, old)
    BY <2>2 DEF Done
  <2> QED BY <1>3, <2>1, <2>3
<1>17. B
  BY <1>4, <1>5, <1>6, <1>7, <1>8, <1>9, <1>10, <1>11, <1>12, <1>13, <1>14, <1>15, <1>16, StepCases
<1> QED BY <1>17 DEF B

(* What a socket missed it has missed until the next one opens, or its     *)
(* room drops all it had.                                                  *)
LEMMA HarmStep ==
  ASSUME Typed, Numbered, [Next]_vars
  PROVE  \A p \in Client :
           \/ Open(p)
           \/ /\ rebuffed[p] \subseteq rebuffed'[p] /\ (p \in unjoined => p \in unjoined')
              /\ missed[p] \subseteq missed'[p] \/ OnWriteRefused(p)
<1> DEFINE B == \A p \in Client :
                  \/ Open(p)
                  \/ /\ rebuffed[p] \subseteq rebuffed'[p] /\ (p \in unjoined => p \in unjoined')
                     /\ missed[p] \subseteq missed'[p] \/ OnWriteRefused(p)
<1>1. ASSUME UNCHANGED <<missed, rebuffed, unjoined>> PROVE B
  BY <1>1
<1>2. ASSUME NEW p \in Client, Open(p) PROVE B
  BY <1>2, OpenEffect DEF OthersKeep
<1>3. ASSUME NEW p \in Client, OnWriteRefused(p) PROVE B
  BY <1>3, OnWriteRefusedEffect DEF OthersKeep
<1>4. ASSUME NEW c \in Conn, NEW i \in DOMAIN tasks[c], HandlerThrows(c, i) PROVE B
  <2>1. PICK old : Harmed(c, old)
    BY <1>4, HandlerThrowsEffect
  <2> QED BY <2>1 DEF Harmed
<1> HIDE DEF B
<1>5. ASSUME UNCHANGED harm PROVE B
  BY <1>1, <1>5 DEF harm
<1>6. ASSUME NEW p \in Client,
             \/ Edit(p) \/ SetAwareness(p) \/ Save(p) \/ Load(p) \/ Break(p) \/ Reload(p)
      PROVE  B
  BY <1>5, <1>6, EditEffect, SetAwarenessEffect, SaveEffect, LoadEffect, BreakEffect, ReloadEffect
<1>7. ASSUME NEW p \in Client,
             \/ OnWelcome(p) \/ OnStored(p) \/ OnAwarenessMsg(p) \/ OnLeaveMsg(p)
             \/ OnReadRefused(p) \/ OnOtherError(p)
      PROVE  B
  BY <1>5, <1>7, OnWelcomeEffect, OnStoredEffect, OnAwarenessMsgEffect, OnLeaveMsgEffect,
     OnReadRefusedEffect, OnOtherErrorEffect
<1>8. ASSUME UNCHANGED vars PROVE B
  BY <1>5, <1>8 DEF vars
<1>9. B
  BY <1>2, <1>3, <1>4, <1>5, <1>6, <1>7, <1>8, StepCases
<1> QED BY <1>9 DEF B

-----------------------------------------------------------------------------
(* Without an authorizer nobody is refused. *)
Unchecked ==
  ~ enforce => \A c \in Conn :
    /\ \A t \in Tasks(c) : t.pc \notin {"authorize join", "authorize op"}
    /\ \A m \in Downs(c) : m.type = "error" => m = ErrorMsg("none")

(* Every step keeps it so. *)
LEMMA UncheckedStep == Typed /\ Numbered /\ Unchecked /\ [Next]_vars => Unchecked'
<1> SUFFICES ASSUME Typed, Numbered, Unchecked, [Next]_vars, ~ enforce' PROVE Unchecked'
  BY DEF Unchecked
<1>1. ~ enforce
  BY SettingStep DEF enforce
<1>2. ASSUME NEW c \in Conn, NEW t \in Tasks(c)' PROVE t.pc \notin {"authorize join", "authorize op"}
  <2>1. t \in Tasks(c) => t.pc \notin {"authorize join", "authorize op"}
    BY <1>1 DEF Unchecked
  <2>2. ComesOf(c, t) => t.pc \notin {"authorize join", "authorize op"}
    BY <1>1 DEF ComesOf, JoinTask, OpTask, AppendTask, SpreadTask
  <2> QED BY <2>1, <2>2, TasksStep
<1>3. ASSUME NEW c \in Conn, NEW m \in Downs(c)', m.type = "error" PROVE m = ErrorMsg("none")
  <2>1. m \in Downs(c) => m = ErrorMsg("none")
    BY <1>1, <1>3 DEF Unchecked
  <2>2. Refuses(c, m) => m = ErrorMsg("none")
    BY <1>1 DEF Refuses, Unchecked
  <2>3. ~ Welcomes(c, m) /\ ~ TellsOfOp(m) /\ ~ TellsOfPeer(m)
    BY <1>3 DEF Welcomes, TellsOfOp, TellsOfPeer, WelcomeMsg, StoredMsg, PeerMsg
  <2>4. m \notin Bus(Home[c])
    <3>1. Home[c] \in Instance
      BY HomeAssumption
    <3>2. Bus(Home[c]) \subseteq StoredMsgs \cup PeerMsgs
      BY <3>1 DEF Typed, HubTyped, Bus, ToSet
    <3> QED BY <1>3, <3>2 DEF StoredMsgs, PeerMsgs
  <2> QED BY <2>1, <2>2, <2>3, <2>4, DownsStep DEF SentBy
<1> QED BY <1>2, <1>3 DEF Unchecked

(* Whoever may be refused minds it: the setting of QuietMeansShared. *)
Minded == Plain \/ ~ enforce

ReadRefused(c) == ErrorMsg("forbidden-read") \in Downs(c)

(* A client that minds a refusal does not miss it while its socket stays   *)
(* open.                                                                   *)
LEMMA RefusalStays ==
  ASSUME Typed, Numbered, Sockets, Unchecked, Minded, [Next]_vars,
         NEW c \in Conn, sock'[c] = "open", ReadRefused(c)
  PROVE  ReadRefused(c)'
<1> SUFFICES ASSUME NEW p \in Client, Handles(p, ErrorMsg("forbidden-read")) PROVE FALSE
  BY DownsLost DEF ReadRefused
<1>1. /\ ErrorMsg("forbidden-read").type = "error"
      /\ ErrorMsg("forbidden-read") # ErrorMsg("forbidden-write")
      /\ ErrorMsg("forbidden-read") # ErrorMsg("none")
  BY DEF ErrorMsg
<1>2. ~ Plain
  BY <1>1 DEF Handles
<1>3. ~ enforce /\ ErrorMsg("forbidden-read") \in Downs(c)
  BY <1>2 DEF Minded, ReadRefused
<1> QED BY <1>1, <1>3 DEF Unchecked

(* Who is online is in the room, or has asked to be, or is refused, unless *)
(* the handler of its join threw.                                          *)
Entering(c) ==
  \/ c \in room \/ ReadRefused(c)
  \/ \E m \in Ups(c) : m.type = "join"
  \/ \E t \in Tasks(c) : t.pc = "authorize join"
Joined == Minded => \A p \in Client : Online(p) /\ p \notin unjoined => Entering(Sock(p))

(* Every step keeps it so. *)
LEMMA JoinedStep == Typed /\ Numbered /\ Sockets /\ Unchecked /\ Joined /\ [Next]_vars => Joined'
<1> SUFFICES ASSUME Typed, Numbered, Sockets, Unchecked, Joined, [Next]_vars, Minded',
                    NEW p \in Client, Online(p)', p \notin unjoined', NEW c, c = Sock(p)'
             PROVE  Entering(c)'
  BY DEF Joined
<1>1. Minded /\ sock'[c] = "open"
  BY SettingStep DEF Minded, Plain, enforce, Online
<1>2. ASSUME c \in Conn, Opened(p, c) PROVE Entering(c)'
  <2>1. HelloJoin(p) \in Ups(c)'
    BY <1>2 DEF Opened
  <2>2. HelloJoin(p).type = "join"
    BY DEF HelloJoin, JoinMsg
  <2> QED BY <2>1, <2>2 DEF Entering
<1>3. ASSUME Online(p), c = Sock(p), c \in Conn PROVE Entering(c)'
  <2>1. Entering(c) /\ sock[c] = "open"
    <3>1. p \notin unjoined
      BY <1>3, HarmStep, OpenEffect
    <3> QED BY <1>1, <1>3, <3>1 DEF Joined, Online
  <2>2. CASE c \in room
    BY <1>3, <2>1, <2>2, RoomStays DEF Entering
  <2>3. CASE ReadRefused(c)
    BY <1>1, <1>3, <2>3, RefusalStays DEF Entering
  <2>4. ASSUME NEW m \in Ups(c), m.type = "join" PROVE Entering(c)'
    <3>1. m \in Ups(c)' \/ Read(c, m)
      BY <1>1, <1>3, MessageLost
    <3> QED BY <2>4, <3>1 DEF Entering, Read
  <2>5. ASSUME NEW t \in Tasks(c), t.pc = "authorize join" PROVE Entering(c)'
    <3>1. t \in Tasks(c)' \/ Done(c, t)
      BY <1>3, TasksLost
    <3>2. Done(c, t) => SentDown({c}, ErrorMsg("forbidden-read")) \/ c \in room'
      BY <1>3, <2>5 DEF Done, Threw
    <3>3. SentDown({c}, ErrorMsg("forbidden-read")) => ReadRefused(c)'
      BY <1>3, <2>1 DEF SentDown, ReadRefused
    <3> QED BY <2>5, <3>1, <3>2, <3>3 DEF Entering
  <2> QED BY <2>1, <2>2, <2>3, <2>4, <2>5 DEF Entering
<1> QED BY <1>2, <1>3, OnlineStep

(* A join that was asked for is so until it is answered with a welcome, of *)
(* all that came after its head, or with a refusal, or its handler throws. *)
LEMMA Answered ==
  ASSUME Typed, Numbered, Sockets, [Next]_vars,
         NEW c \in Conn, sock[c] = "open", sock'[c] = "open", NEW m \in Asked(c)
  PROVE  \/ m \in Asked(c)' \/ ReadRefused(c)'
         \/ \A p \in Client : Sock(p) = c => p \in unjoined'
         \/ UNCHANGED log /\ \E w \in Downs(c)' : w.type = "welcome" /\ w.ops = OpsSince(m.since)
<1>0. \A n : n \in Asked(c)' <=> \/ n \in Ups(c)' /\ n.type = "join"
                                 \/ \E t \in Tasks(c)' : t.pc \in Joining /\ t.msg = n
  <2> DEFINE Top == \A n : n \in Asked(c) <=> \/ n \in Ups(c) /\ n.type = "join"
                                              \/ \E t \in Tasks(c) : t.pc \in Joining /\ t.msg = n
  <2>1. Top
    BY AskedMembers
  <2>2. Top'
    BY <2>1, AskedMembers DEF Asked
  <2> QED BY <2>2
<1>1. CASE m \in Ups(c) /\ m.type = "join"
  BY <1>0, <1>1, MessageLost DEF Read
<1>2. ASSUME NEW t \in Tasks(c), t.pc \in Joining, t.msg = m
      PROVE  \/ m \in Asked(c)' \/ ReadRefused(c)'
             \/ \A p \in Client : Sock(p) = c => p \in unjoined'
             \/ UNCHANGED log /\ \E w \in Downs(c)' : w.type = "welcome" /\ w.ops = OpsSince(m.since)
  <2>1. t \in Tasks(c)' \/ Done(c, t)
    BY TasksLost
  <2>2. CASE t \in Tasks(c)'
    BY <1>0, <1>2, <2>2
  <2>3. CASE Threw(c, t)
    BY <1>2, <2>3 DEF Threw, Joining
  <2>4. CASE Done(c, t) /\ ~ Threw(c, t) /\ t.pc = "authorize join"
    <3>1. SentDown({c}, ErrorMsg("forbidden-read")) => ReadRefused(c)'
      BY DEF SentDown, ReadRefused
    <3>2. (\E s \in Tasks(c)' : s.pc = "welcome" /\ s.msg = t.msg) => m \in Asked(c)'
      BY <1>0, <1>2 DEF Joining
    <3> QED BY <2>4, <3>1, <3>2 DEF Done
  <2>5. CASE Done(c, t) /\ ~ Threw(c, t) /\ t.pc = "welcome"
    <3>1. UNCHANGED log /\ SentDown({c}, WelcomeMsg(OpsSince(m.since), Len(log)))
      BY <1>2, <2>5 DEF Done
    <3>2. WelcomeMsg(OpsSince(m.since), Len(log)) \in Downs(c)'
      BY <3>1 DEF SentDown
    <3>3. /\ WelcomeMsg(OpsSince(m.since), Len(log)).type = "welcome"
          /\ WelcomeMsg(OpsSince(m.since), Len(log)).ops = OpsSince(m.since)
      BY DEF WelcomeMsg
    <3> QED BY <3>1, <3>2, <3>3
  <2> QED BY <1>2, <2>1, <2>2, <2>3, <2>4, <2>5 DEF Joining
<1> QED BY <1>1, <1>2, AskedMembers

(* Edits of the log number k are on their way to the room of c. *)
Announced(c, k) ==
  \/ StoredMsg(k, log[k]) \in Downs(c)
  \/ /\ c \in room
     /\ \/ StoredMsg(k, log[k]) \in Bus(Home[c])
        \/ \E d \in Conn : \E t \in Tasks(d) : t.pc = "spread" /\ t.seq = k

(* An entry that was announced stays so until the client has it.           *)
LEMMA AnnouncedStep ==
  ASSUME Typed, Numbered, Sockets, Heads, [Next]_vars,
         NEW p \in Client, NEW c \in Conn, c = Sock(p), sock[c] = "open", sock'[c] = "open",
         NEW k \in 1 .. Len(log), Announced(c, k)
  PROVE  Announced(c, k)' \/ Handles(p, StoredMsg(k, log[k]))
<1> DEFINE m == StoredMsg(k, log[k])
<1>0. log'[k] = log[k] /\ k \in Nat /\ log[k] \in SUBSET Edits
  BY EntriesStay, LogFacts
<1>1. /\ StoredMsg(k, log'[k]) = m /\ m \in StoredMsgs /\ m.type = "stored"
      /\ \A code : m # ErrorMsg(code)
  BY <1>0, MessageFacts DEF ErrorMsg
<1>2. \A i \in Instance : bus[i] \in Seq(StoredMsgs \cup PeerMsgs)
  BY DEF Typed, HubTyped
<1>3. Home[c] \in Instance
  BY HomeAssumption
<1>4. c \in room => c \in room'
  BY RoomStays
<1> HIDE DEF m
<1>5. CASE m \in Downs(c)
  <2>1. m \in Downs(c)' \/ \E q \in Client : c = Sock(q) /\ Handles(q, m)
    BY <1>5, DownsLost
  <2>2. \A q \in Client : c = Sock(q) => q = p
    BY DEF Sock
  <2> QED BY <1>1, <2>1, <2>2 DEF Announced, m
<1>6. CASE c \in room /\ m \in Bus(Home[c])
  <2> DEFINE i == Home[c]
  <2>1. CASE bus'[i] = bus[i]
    BY <1>1, <1>4, <1>6, <2>1 DEF Announced, Bus
  <2>2. CASE \E n \in StoredMsgs \cup PeerMsgs : bus'[i] = Append(bus[i], n)
    <3>1. PICK n \in StoredMsgs \cup PeerMsgs : bus'[i] = Append(bus[i], n)
      BY <2>2
    <3>2. ToSet(bus'[i]) = ToSet(bus[i]) \cup {n}
      BY <1>2, <1>3, <3>1, AppendElements
    <3> QED BY <1>1, <1>4, <1>6, <3>2 DEF Announced, Bus
  <2>3. CASE FanOut(i)
    <3>1. PICK n : Bus(i) = {n} \cup Bus(i)' /\ SentDown(Members(i), n)
      BY <1>3, <2>3, FanOutEffect
    <3>2. n \in Downs(c)'
      BY <1>6, <3>1, MembersFacts DEF SentDown
    <3> QED BY <1>1, <1>4, <1>6, <3>1, <3>2 DEF Announced
  <2> QED BY <1>3, <2>1, <2>2, <2>3, BusOrder
<1>7. ASSUME c \in room, NEW d \in Conn, NEW t \in Tasks(d), t.pc = "spread", t.seq = k
      PROVE  Announced(c, k)'
  <2>1. t \in Tasks(d)' \/ Done(d, t)
    BY TasksLost
  <2>2. CASE t \in Tasks(d)'
    BY <1>4, <1>7, <2>2 DEF Announced
  <2>3. CASE Done(d, t)
    <3>1. t.op = log[k]
      BY <1>7 DEF Heads, LogsOne
    <3>2. SentDown(Members(Home[d]), m) /\ Published(Home[d], m)
      BY <1>7, <2>3, <3>1 DEF Done, Threw, Joining, m
    <3>3. CASE Home[c] = Home[d]
      BY <1>1, <1>7, <3>2, <3>3, MembersFacts DEF SentDown, Announced
    <3>4. CASE Home[c] # Home[d]
      BY <1>1, <1>3, <1>4, <1>7, <3>2, <3>4 DEF Published, Announced
    <3> QED BY <3>3, <3>4
  <2> QED BY <2>1, <2>2, <2>3
<1> QED BY <1>5, <1>6, <1>7 DEF Announced, m

-----------------------------------------------------------------------------
(* How clients come and go, and what they hold *)

(* A document only grows, and a head stays but for what the server says,   *)
(* unless the client starts anew.                                          *)
LEMMA DocStays ==
  ASSUME Typed, Numbered, [Next]_vars
  PROVE  \A p \in Client :
           \/ doc[p] \subseteq doc'[p] /\ (head'[p] = head[p] \/ OnWelcome(p) \/ OnStored(p))
           \/ OnWriteRefused(p) \/ Reload(p)
<1> DEFINE B == \A p \in Client :
                  \/ doc[p] \subseteq doc'[p] /\ (head'[p] = head[p] \/ OnWelcome(p) \/ OnStored(p))
                  \/ OnWriteRefused(p) \/ Reload(p)
<1>1. ASSUME UNCHANGED <<doc, head>> PROVE B
  BY <1>1
<1>2. ASSUME NEW p \in Client, OthersKeep(doc, doc', p), OthersKeep(head, head', p),
             \/ doc[p] \subseteq doc'[p] /\ (head'[p] = head[p] \/ OnWelcome(p) \/ OnStored(p))
             \/ OnWriteRefused(p) \/ Reload(p)
      PROVE  B
  BY <1>2 DEF OthersKeep
<1> HIDE DEF B
<1>3. ASSUME ServerOnly PROVE B
  BY <1>1, <1>3 DEF ServerOnly, local
<1>4. ASSUME NEW p \in Client, Edit(p) \/ Load(p) PROVE B
  <2>1. UNCHANGED head /\ OthersKeep(doc, doc', p) /\ doc[p] \subseteq doc'[p]
    BY <1>4, EditEffect, LoadEffect
  <2> QED BY <1>2, <2>1 DEF OthersKeep
<1>5. ASSUME NEW p \in Client,
             \/ SetAwareness(p) \/ Open(p) \/ Save(p) \/ Break(p) \/ OnAwarenessMsg(p)
             \/ OnLeaveMsg(p) \/ OnReadRefused(p) \/ OnOtherError(p)
      PROVE  B
  BY <1>1, <1>5, SetAwarenessEffect, OpenEffect, SaveEffect, BreakEffect, OnAwarenessMsgEffect,
     OnLeaveMsgEffect, OnReadRefusedEffect, OnOtherErrorEffect
  DEF local
<1>6. ASSUME NEW p \in Client, OnWelcome(p) \/ OnStored(p) PROVE B
  <2>1. \E edits, n : Integrated(p, edits, n)
    BY <1>6, OnWelcomeEffect, OnStoredEffect
  <2> QED BY <1>2, <1>6, <2>1 DEF Integrated
<1>7. ASSUME NEW p \in Client, OnWriteRefused(p) \/ Reload(p) PROVE B
  BY <1>2, <1>7, OnWriteRefusedEffect, ReloadEffect
<1>8. ASSUME UNCHANGED vars PROVE B
  BY <1>1, <1>8 DEF vars, local
<1>9. B
  BY <1>3, <1>4, <1>5, <1>6, <1>7, <1>8, StepCases
<1> QED BY <1>9 DEF B

-----------------------------------------------------------------------------
(* What a client is to hear *)

(* What came after a number only grows. *)
LEMMA SinceGrows ==
  ASSUME Typed, Numbered, [Next]_vars, NEW n \in Nat
  PROVE  OpsSince(n) \subseteq OpsSince(n)'
<1>1. /\ Len(log) \in Nat /\ Len(log') \in Nat /\ Len(log) <= Len(log')
      /\ \A k \in 1 .. Len(log) : log'[k] = log[k]
  BY EntriesStay
<1>2. \A e : e \in OpsSince(n) <=> \E k \in 1 .. Len(log) : n < k /\ e \in log[k]
  BY LogFacts
<1>3. OpsSince(n)' = UNION {log'[k] : k \in (n + 1) .. Len(log')}
  BY DEF OpsSince
<1> QED BY <1>1, <1>2, <1>3

(* An edit that is new in the log is about to be spread, or its handler    *)
(* threw and everyone misses it.                                           *)
LEMMA NewEntry ==
  ASSUME Typed, Numbered, [Next]_vars, NEW e \in Logged', e \notin Logged
  PROVE  \/ \A p \in Client : e \in missed'[p]
         \/ /\ AskedKept /\ DownsKept /\ UNCHANGED room
            /\ Len(log') = Len(log) + 1 /\ e \in log'[Len(log) + 1]
            /\ \E d \in Conn : \E t \in Tasks(d)' : t.pc = "spread" /\ t.seq = Len(log) + 1
<1>1. log' # log
  BY DEF Logged, OpsSince
<1>2. ASSUME NEW c \in Conn, NEW i \in DOMAIN tasks[c], HandlerThrows(c, i)
      PROVE  \A p \in Client : e \in missed'[p]
  <2>1. PICK old : Harmed(c, old)
    BY <1>2, HandlerThrowsEffect
  <2>2. old.op \in SUBSET Edits /\ Logged1(old.op) /\ \A p \in Client : missed'[p] = missed[p] \cup old.op
    BY <1>1, <2>1 DEF Harmed
  <2>3. e \in old.op
    BY <2>2, LogAdds
  <2> QED BY <2>2, <2>3
<1>3. ASSUME NEW c \in Conn, NEW i \in DOMAIN tasks[c], AppendOp(c, i)
      PROVE  /\ AskedKept /\ DownsKept /\ UNCHANGED room
             /\ Len(log') = Len(log) + 1 /\ e \in log'[Len(log) + 1]
             /\ \E t \in Tasks(c)' : t.pc = "spread" /\ t.seq = Len(log) + 1
  <2>1. PICK old \in OpTasks, new \in SpreadTasks :
          /\ Resumed(c, old, new) /\ new.pc = "spread" /\ new.seq = Len(log) + 1
          /\ old.op \in SUBSET Edits /\ Logged1(old.op)
    BY <1>3, AppendOpEffect
  <2>2. e \in old.op
    BY <2>1, LogAdds
  <2>3. Len(log') = Len(log) + 1 /\ log'[Len(log) + 1] = old.op
    BY <2>1 DEF Logged1
  <2>4. AskedKept /\ DownsKept /\ UNCHANGED room
    BY <1>3, AskedOnTask, AppendOpEffect
  <2>5. \E t \in Tasks(c)' : t.pc = "spread" /\ t.seq = Len(log) + 1
    BY <2>1 DEF Resumed
  <2> QED BY <2>2, <2>3, <2>4, <2>5
<1> QED BY <1>1, <1>2, <1>3, LogBy

(* Whatever is logged a client has, or missed, or it is still to come.     *)
Coming(c, e) ==
  \/ \E m \in Asked(c) : e \in OpsSince(m.since)
  \/ \E m \in Downs(c) : m.type = "welcome" /\ e \in m.ops
  \/ \E k \in 1 .. Len(log) : e \in log[k] /\ Announced(c, k)
  \/ ReadRefused(c)

Reached ==
  Minded => \A p \in Client : Online(p) /\ p \notin unjoined =>
    \A e \in Logged : e \in doc[p] \cup missed[p] \/ Coming(Sock(p), e)

(* Every step keeps it so: a new entry is announced, or to be in a welcome.*)
LEMMA ReachedStep ==
  Typed /\ Numbered /\ Sockets /\ Heads /\ Unchecked /\ Joined /\ Reached /\ [Next]_vars => Reached'
<1> SUFFICES ASSUME Typed, Numbered, Sockets, Heads, Unchecked, Joined, Reached, [Next]_vars, Minded',
                    NEW p \in Client, Online(p)', p \notin unjoined', NEW c, c = Sock(p)',
                    NEW e \in Logged'
             PROVE  e \in doc'[p] \cup missed'[p] \/ Coming(c, e)'
  BY DEF Reached
<1>0. Minded /\ sock'[c] = "open" /\ (Plain' <=> Plain)
  BY SettingStep DEF Minded, Plain, enforce, Online
<1>1. Coming(c, e)' <=>
        \/ \E m \in Asked(c)' : e \in OpsSince(m.since)'
        \/ \E m \in Downs(c)' : m.type = "welcome" /\ e \in m.ops
        \/ \E k \in 1 .. Len(log') : e \in log'[k] /\ Announced(c, k)'
        \/ ReadRefused(c)'
  BY DEF Coming
<1>2. ASSUME c \in Conn, Open(p), Opened(p, c) PROVE e \in missed'[p] \cup doc'[p] \/ Coming(c, e)'
  <2>1. Asked(c)' = {HelloJoin(p)}
    <3>1. PICK d \in Conn : Opened(p, d) /\ Asked(d)' = {HelloJoin(p)}
      BY <1>2, AskedOnOpen
    <3>2. c = d
      BY <1>2, <3>1 DEF Opened
    <3> QED BY <3>1, <3>2
  <2>2. UNCHANGED <<log, doc>> /\ missed'[p] = Gap(p)
    BY <1>2, OpenEffect DEF server, local
  <2>3. e \in Logged
    BY <2>2 DEF Logged, OpsSince
  <2>4. e \in OpsSince(HelloJoin(p).since) \cup doc[p] \cup Gap(p)
    <3>1. HelloJoin(p).since = (IF Plain THEN head[p] ELSE 0)
      BY DEF HelloJoin, JoinMsg
    <3> QED BY <2>3, <3>1 DEF Gap, Logged
  <2>5. \A n : OpsSince(n)' = OpsSince(n)
    BY <2>2 DEF OpsSince
  <2> QED BY <1>1, <2>1, <2>2, <2>4, <2>5
<1>3. ASSUME Online(p), c = Sock(p), c \in Conn
      PROVE  e \in doc'[p] \cup missed'[p] \/ Coming(c, e)'
  <2>0. /\ sock[c] = "open" /\ p \notin unjoined
        /\ missed[p] \subseteq missed'[p] \/ OnWriteRefused(p)
    BY <1>3, HarmStep, OpenEffect DEF Online
  <2>1. CASE e \notin Logged
    <3>1. CASE \A q \in Client : e \in missed'[q]
      BY <3>1
    <3>2. CASE /\ AskedKept /\ DownsKept /\ UNCHANGED room
               /\ Len(log') = Len(log) + 1 /\ e \in log'[Len(log) + 1]
               /\ \E d \in Conn : \E t \in Tasks(d)' : t.pc = "spread" /\ t.seq = Len(log) + 1
      <4>1. Len(log) \in Nat /\ Len(log) + 1 \in 1 .. Len(log')
        BY <3>2, LogFacts
      <4>2. c \in room \/ ReadRefused(c) \/ Asked(c) # {}
        <5>1. Entering(c)
          BY <1>0, <1>3, <2>0 DEF Joined
        <5> QED BY <5>1, AskedMembers DEF Entering, Joining
      <4>3. CASE c \in room
        <5>1. \A k : (\E d \in Conn : \E t \in Tasks(d)' : t.pc = "spread" /\ t.seq = k)
                       => Announced(c, k)'
          BY <3>2, <4>3 DEF Announced
        <5> QED BY <1>1, <3>2, <4>1, <5>1
      <4>4. CASE ReadRefused(c)
        BY <1>1, <1>3, <3>2, <4>4 DEF DownsKept, ReadRefused
      <4>5. ASSUME NEW m \in Asked(c) PROVE Coming(c, e)'
        <5>1. m \in Asked(c)' /\ m.since <= Len(log) /\ m.since \in Nat
          BY <1>3, <3>2, <4>5, AskedFacts DEF AskedKept, Heads
        <5>2. OpsSince(m.since)' = UNION {log'[k] : k \in (m.since + 1) .. Len(log')}
          BY DEF OpsSince
        <5>3. Len(log) + 1 \in (m.since + 1) .. Len(log')
          BY <3>2, <4>1, <5>1
        <5>4. e \in OpsSince(m.since)'
          BY <3>2, <5>2, <5>3
        <5> QED BY <1>1, <5>1, <5>4
      <4> QED BY <4>2, <4>3, <4>4, <4>5
    <3> QED BY <2>1, <3>1, <3>2, NewEntry
  <2>2. CASE e \in Logged
    <3>0. e \in doc[p] \cup missed[p] \/ Coming(c, e)
      BY <1>0, <1>3, <2>0, <2>2 DEF Reached
    <3>1. CASE OnWriteRefused(p)
      <4>1. JoinMsg(ReplicaOf(p), 0) \in Asked(c)'
        BY <1>3, <3>1, AskedOnRefusal
      <4>2. JoinMsg(ReplicaOf(p), 0).since = 0
        BY DEF JoinMsg
      <4>3. e \in OpsSince(0)'
        BY DEF Logged
      <4> QED BY <1>1, <4>1, <4>2, <4>3
    <3>2. CASE e \in doc[p] /\ ~ OnWriteRefused(p)
      <4>1. ~ Reload(p)
        BY <1>0, <1>3, ReloadEffect DEF Left
      <4> QED BY <3>2, <4>1, DocStays
    <3>3. CASE e \in missed[p] /\ ~ OnWriteRefused(p)
      BY <2>0, <3>3
    <3>4. ASSUME NEW m \in Asked(c), e \in OpsSince(m.since) PROVE Coming(c, e)'
      <4>1. m.since \in Nat
        BY <1>3, <3>4, AskedFacts
      <4>2. e \in OpsSince(m.since)'
        BY <3>4, <4>1, SinceGrows
      <4>3. \/ m \in Asked(c)' \/ ReadRefused(c)'
            \/ \E w \in Downs(c)' : w.type = "welcome" /\ w.ops = OpsSince(m.since)
        BY <1>0, <1>3, <2>0, <3>4, Answered
      <4> QED BY <1>1, <3>4, <4>2, <4>3
    <3>5. ASSUME NEW m \in Downs(c), m.type = "welcome", e \in m.ops
          PROVE  e \in doc'[p] \/ Coming(c, e)'
      <4>1. CASE m \in Downs(c)'
        BY <1>1, <3>5, <4>1
      <4>2. ASSUME NEW q \in Client, c = Sock(q), Handles(q, m) PROVE e \in doc'[p]
        <5>1. q = p
          BY <1>3, <4>2 DEF Sock
        <5>2. OnWelcome(p) /\ HeardBy(p, m)
          <6>1. \A code : ErrorMsg(code).type = "error"
            BY DEF ErrorMsg
          <6> QED BY <3>5, <4>2, <5>1, <6>1 DEF Handles
        <5>3. Len(down[c]) <= 1
          BY <1>3 DEF Sockets
        <5>4. PICK w \in DownMsgs : HeardBy(p, w) /\ Integrated(p, w.ops, w.head)
          BY <5>2, OnWelcomeEffect
        <5>5. w = m
          BY <1>3, <5>2, <5>3, <5>4 DEF HeardBy
        <5> QED BY <3>5, <5>4, <5>5 DEF Integrated
      <4> QED BY <1>0, <1>3, <3>5, <4>1, <4>2, DownsLost
    <3>6. ASSUME NEW k \in 1 .. Len(log), e \in log[k], Announced(c, k)
          PROVE  e \in doc'[p] \/ Coming(c, e)'
      <4> DEFINE m == StoredMsg(k, log[k])
      <4>1. ASSUME Handles(p, m) PROVE e \in doc'[p]
        <5>1. m.type = "stored" /\ m.op = log[k]
          BY DEF StoredMsg
        <5> HIDE DEF m
        <5>2. OnStored(p) /\ HeardBy(p, m)
          <6>1. \A code : ErrorMsg(code).type = "error"
            BY DEF ErrorMsg
          <6> QED BY <4>1, <5>1, <6>1 DEF Handles
        <5>3. Len(down[c]) <= 1
          BY <1>3 DEF Sockets
        <5>4. PICK w \in DownMsgs : HeardBy(p, w) /\ Integrated(p, w.op, w.seq)
          BY <5>2, OnStoredEffect
        <5>5. w = m
          BY <1>3, <5>2, <5>3, <5>4 DEF HeardBy
        <5> QED BY <3>6, <5>1, <5>4, <5>5 DEF Integrated
      <4>2. Announced(c, k)' \/ Handles(p, m)
        BY <1>0, <1>3, <2>0, <3>6, AnnouncedStep
      <4>3. log'[k] = log[k] /\ k \in 1 .. Len(log')
        BY EntriesStay
      <4> QED BY <1>1, <3>6, <4>1, <4>2, <4>3
    <3>7. CASE ReadRefused(c)
      BY <1>0, <1>1, <1>3, <3>7, RefusalStays
    <3> QED BY <3>0, <3>1, <3>2, <3>3, <3>4, <3>5, <3>6, <3>7 DEF Coming
  <2> QED BY <2>1, <2>2
<1> QED BY <1>2, <1>3, OnlineStep

-----------------------------------------------------------------------------
(* What a client has yet to send *)

(* e is on its way from c to the log. *)
Underway(c, e) ==
  \/ \E m \in Ups(c) : m.type = "op" /\ e \in m.op
  \/ \E t \in Tasks(c) : t.pc \in {"authorize op", "append"} /\ e \in t.op

(* An edit goes on to the log, unless its socket has not joined yet or its *)
(* author may not write, or its handler throws.                            *)
LEMMA UnderwayStep ==
  ASSUME Typed, Numbered, Sockets, [Next]_vars,
         NEW c \in Conn, sock[c] = "open", sock'[c] = "open", NEW e, Underway(c, e)
  PROVE  \/ Underway(c, e)'
         \/ \A p \in Client : Sock(p) = c => e \in rebuffed'[p]
         \/ bound[c] = NoReplica /\ up[c] # <<>> /\ Head(up[c]).type = "op"
         \/ /\ ErrorMsg("forbidden-write") \in Downs(c)'
            /\ \E t \in Tasks(c) : t.pc = "authorize op"
         \/ \E edits \in SUBSET Edits :
              /\ e \in edits /\ Logged1(edits)
              /\ \E t \in Tasks(c)' : t.pc = "spread" /\ t.seq = Len(log) + 1
<1>1. \/ Underway(c, e)'
      <=> \/ \E m \in Ups(c)' : m.type = "op" /\ e \in m.op
          \/ \E t \in Tasks(c)' : t.pc \in {"authorize op", "append"} /\ e \in t.op
  BY DEF Underway
<1>2. ASSUME NEW m \in Ups(c), m.type = "op", e \in m.op
      PROVE  \/ Underway(c, e)'
             \/ bound[c] = NoReplica /\ up[c] # <<>> /\ Head(up[c]).type = "op"
  <2>1. m \in Ups(c)' \/ (TakenOff(c, m) /\ Read(c, m))
    BY MessageLost
  <2>2. CASE m \in Ups(c)'
    BY <1>1, <1>2, <2>2
  <2>3. CASE TakenOff(c, m) /\ Read(c, m)
    <3>1. m = Head(up[c]) /\ up[c] # <<>>
      BY <2>3 DEF TakenOff
    <3>2. \/ bound[c] = NoReplica
          \/ \E t \in Tasks(c)' : t.pc \in {"authorize op", "append"} /\ t.op = m.op
      BY <1>2, <2>3 DEF Read
    <3> QED BY <1>1, <1>2, <3>1, <3>2
  <2> QED BY <2>1, <2>2, <2>3
<1>3. ASSUME NEW t \in Tasks(c), t.pc \in {"authorize op", "append"}, e \in t.op
      PROVE  \/ Underway(c, e)'
             \/ \A p \in Client : Sock(p) = c => e \in rebuffed'[p]
             \/ ErrorMsg("forbidden-write") \in Downs(c)' /\ t.pc = "authorize op"
             \/ \E edits \in SUBSET Edits :
                  /\ e \in edits /\ Logged1(edits)
                  /\ \E s \in Tasks(c)' : s.pc = "spread" /\ s.seq = Len(log) + 1
  <2>1. t \in Tasks(c)' \/ Done(c, t)
    BY TasksLost
  <2>2. CASE t \in Tasks(c)'
    BY <1>1, <1>3, <2>2
  <2>3. CASE Threw(c, t)
    BY <1>3, <2>3 DEF Threw, Joining
  <2>4. CASE Done(c, t) /\ ~ Threw(c, t) /\ t.pc = "authorize op"
    <3>1. \/ SentDown({c}, ErrorMsg("forbidden-write"))
          \/ \E s \in Tasks(c)' : s.pc = "append" /\ s.op = t.op
      BY <2>4 DEF Done
    <3>2. SentDown({c}, ErrorMsg("forbidden-write")) => ErrorMsg("forbidden-write") \in Downs(c)'
      BY DEF SentDown
    <3> QED BY <1>1, <1>3, <2>4, <3>1, <3>2
  <2>5. CASE Done(c, t) /\ ~ Threw(c, t) /\ t.pc = "append"
    <3>1. /\ Logged1(t.op) /\ t.op \in SUBSET Edits
          /\ \E s \in Tasks(c)' : s.pc = "spread" /\ s.seq = Len(log) + 1
      BY <2>5 DEF Done
    <3> QED BY <1>3, <3>1
  <2> QED BY <1>3, <2>1, <2>2, <2>3, <2>4, <2>5
<1> QED BY <1>2, <1>3 DEF Underway

(* A room has no edits in its outbox but those it had and a new one, which *)
(* it sends; a provider has no outbox.                                     *)
LEMMA BoxStep ==
  ASSUME Typed, Numbered, [Next]_vars
  PROVE  \A p \in Client : \A e \in outbox'[p] :
           e \in outbox[p] \/ (Plain /\ (Reload(p) \/ SentUp(p, {OpMsg({e})})))
<1> DEFINE B == \A p \in Client : \A e \in outbox'[p] :
                  e \in outbox[p] \/ (Plain /\ (Reload(p) \/ SentUp(p, {OpMsg({e})})))
<1>1. ASSUME UNCHANGED outbox PROVE B
  BY <1>1
<1>2. ASSUME NEW p \in Client, OthersKeep(outbox, outbox', p), outbox'[p] \subseteq outbox[p] PROVE B
  BY <1>2 DEF OthersKeep
<1>3. ASSUME NEW p \in Client, OthersKeep(outbox, outbox', p), Plain, Reload(p) PROVE B
  BY <1>3 DEF OthersKeep
<1>4. ASSUME NEW p \in Client, OthersKeep(outbox, outbox', p), Plain,
             NEW e, outbox'[p] = outbox[p] \cup {e}, SentUp(p, {OpMsg({e})})
      PROVE  B
  BY <1>4 DEF OthersKeep
<1> HIDE DEF B
<1>5. ASSUME ServerOnly PROVE B
  BY <1>1, <1>5 DEF ServerOnly, local
<1>6. ASSUME NEW p \in Client, Edit(p) PROVE B
  <2>1. PICK e \in Edits :
          /\ outbox'[p] = (IF Plain THEN outbox[p] \cup {e} ELSE outbox[p])
          /\ OthersKeep(outbox, outbox', p) /\ SentUp(p, {OpMsg({e})})
    BY <1>6, EditEffect
  <2> QED BY <1>2, <1>4, <2>1
<1>7. ASSUME NEW p \in Client,
             \/ SetAwareness(p) \/ Open(p) \/ Save(p) \/ Load(p) \/ Break(p) \/ OnAwarenessMsg(p)
             \/ OnLeaveMsg(p) \/ OnReadRefused(p) \/ OnOtherError(p)
      PROVE  B
  BY <1>1, <1>7, SetAwarenessEffect, OpenEffect, SaveEffect, LoadEffect, BreakEffect,
     OnAwarenessMsgEffect, OnLeaveMsgEffect, OnReadRefusedEffect, OnOtherErrorEffect
  DEF local
<1>8. ASSUME NEW p \in Client, OnWelcome(p) \/ OnStored(p) \/ OnWriteRefused(p) PROVE B
  <2>1. OthersKeep(outbox, outbox', p) /\ outbox'[p] \subseteq outbox[p]
    <3>1. (\E edits, n : Integrated(p, edits, n)) \/ OnWriteRefused(p)
      BY <1>8, OnWelcomeEffect, OnStoredEffect
    <3> QED BY <3>1, OnWriteRefusedEffect DEF Integrated
  <2> QED BY <1>2, <2>1
<1>9. ASSUME NEW p \in Client, Reload(p) PROVE B
  <2>1. OthersKeep(outbox, outbox', p) /\ (Plain \/ UNCHANGED outbox)
    BY <1>9, ReloadEffect DEF Reloaded
  <2> QED BY <1>1, <1>3, <1>9, <2>1
<1>10. ASSUME UNCHANGED vars PROVE B
  BY <1>1, <1>10 DEF vars, local
<1>11. B
  BY <1>5, <1>6, <1>7, <1>8, <1>9, <1>10, StepCases
<1> QED BY <1>11 DEF B

-----------------------------------------------------------------------------
(* What is in a room's outbox is on its way to the log and back, or will   *)
(* be sent again, or refused, or was rebuffed.                             *)
WriteRefused(c) == ErrorMsg("forbidden-write") \in Downs(c)
Pending(c, e) ==
  \/ Asked(c) # {} \/ ReadRefused(c) \/ WriteRefused(c)
  \/ \E m \in Downs(c) : m.type = "welcome"
  \/ Underway(c, e)
  \/ \E k \in 1 .. Len(log) : e \in log[k] /\ Announced(c, k)

Queued ==
  Plain => \A p \in Client : Online(p) /\ p \notin unjoined =>
    \A e \in outbox[p] : e \in rebuffed[p] \/ Pending(Sock(p), e)

(* Every step keeps it so. *)
LEMMA QueuedStep ==
  Typed /\ Numbered /\ Sockets /\ Names /\ Heads /\ Unchecked /\ Joined /\ Queued /\ [Next]_vars
    => Queued'
<1> SUFFICES ASSUME Typed, Numbered, Sockets, Names, Heads, Unchecked, Joined, Queued,
                    [Next]_vars, Plain',
                    NEW p \in Client, Online(p)', p \notin unjoined', NEW c, c = Sock(p)',
                    NEW e \in outbox'[p], e \notin rebuffed'[p]
             PROVE  Pending(c, e)'
  BY DEF Queued
<1>0. Plain /\ Minded /\ sock'[c] = "open"
  BY SettingStep DEF Minded, Plain, Online
<1>1. Pending(c, e)' <=>
        \/ Asked(c)' # {} \/ ReadRefused(c)' \/ WriteRefused(c)'
        \/ \E m \in Downs(c)' : m.type = "welcome"
        \/ Underway(c, e)'
        \/ \E k \in 1 .. Len(log') : e \in log'[k] /\ Announced(c, k)'
  BY DEF Pending
<1>2. ASSUME c \in Conn, Open(p), Opened(p, c) PROVE Pending(c, e)'
  <2>1. PICK d \in Conn : Opened(p, d) /\ Asked(d)' = {HelloJoin(p)}
    BY <1>2, AskedOnOpen
  <2>2. c = d
    BY <1>2, <2>1 DEF Opened
  <2> QED BY <1>1, <2>1, <2>2
<1>3. ASSUME Online(p), c = Sock(p), c \in Conn PROVE Pending(c, e)'
  <2>0. sock[c] = "open" /\ p \notin unjoined /\ e \notin rebuffed[p]
    BY <1>3, HarmStep, OpenEffect DEF Online
  <2>1. ASSUME NEW m \in Asked(c) PROVE Pending(c, e)'
    BY <1>0, <1>1, <1>3, <2>0, <2>1, Answered
  <2>2. CASE ReadRefused(c)
    BY <1>0, <1>1, <1>3, <2>2, RefusalStays
  <2>3. CASE c \notin room
    <3>1. Entering(c)
      BY <1>0, <1>3, <2>0 DEF Joined
    <3>2. ReadRefused(c) \/ Asked(c) # {}
      BY <2>3, <3>1, AskedMembers DEF Entering, Joining
    <3> QED BY <2>1, <2>2, <3>2
  <2>4. CASE c \in room /\ e \in outbox[p]
    <3>1. Pending(c, e)
      BY <1>0, <1>3, <2>0, <2>4 DEF Queued
    <3>2. bound[c] # NoReplica /\ c \in room'
      BY <1>3, <2>0, <2>4, RoomStays DEF Names
    <3>3. \A code : ErrorMsg(code).type = "error"
      BY DEF ErrorMsg
    <3>4. \A q \in Client : c = Sock(q) => q = p
      BY <1>3 DEF Sock
    <3>5. CASE WriteRefused(c)
      <4>1. ErrorMsg("forbidden-write") # ErrorMsg("none")
        BY DEF ErrorMsg
      <4>2. ~ Handles(p, ErrorMsg("forbidden-write"))
        <5>1. outbox'[p] # {}
          OBVIOUS
        <5>2. ~ OnWriteRefused(p)
          BY <5>1, OnWriteRefusedEffect
        <5> QED BY <1>0, <3>3, <4>1, <5>2 DEF Handles
      <4> QED BY <1>0, <1>1, <1>3, <3>4, <3>5, <4>2, DownsLost DEF WriteRefused
    <3>6. ASSUME NEW m \in Downs(c), m.type = "welcome" PROVE Pending(c, e)'
      <4>1. CASE m \in Downs(c)'
        BY <1>1, <3>6, <4>1
      <4>2. CASE Handles(p, m)
        <5>1. OnWelcome(p)
          BY <3>3, <3>6, <4>2 DEF Handles
        <5>2. PICK w \in DownMsgs :
                Integrated(p, w.ops, w.head) /\ SentUp(p, {OpMsg({f}) : f \in outbox[p] \ w.ops})
          BY <5>1, OnWelcomeEffect
        <5>3. e \in outbox[p] \ w.ops
          BY <5>2 DEF Integrated
        <5>4. OpMsg({e}) \in Ups(c)'
          BY <1>3, <5>2, <5>3 DEF SentUp
        <5>5. OpMsg({e}).type = "op" /\ e \in OpMsg({e}).op
          BY DEF OpMsg
        <5> QED BY <1>1, <5>4, <5>5 DEF Underway
      <4> QED BY <1>0, <1>3, <3>4, <3>6, <4>1, <4>2, DownsLost
    <3>7. CASE Underway(c, e)
      <4>1. ASSUME NEW edits \in SUBSET Edits, e \in edits, Logged1(edits),
                   \E t \in Tasks(c)' : t.pc = "spread" /\ t.seq = Len(log) + 1
            PROVE  Pending(c, e)'
        <5> DEFINE k == Len(log) + 1
        <5>1. k \in 1 .. Len(log') /\ e \in log'[k]
          BY <4>1, LogFacts DEF Logged1
        <5>2. \E t \in Tasks(c)' : t.pc = "spread" /\ t.seq = k
          BY <4>1
        <5>3. ASSUME NEW j, \E t \in Tasks(c)' : t.pc = "spread" /\ t.seq = j PROVE Announced(c, j)'
          BY <1>3, <3>2, <5>3 DEF Announced
        <5> HIDE DEF k
        <5> QED BY <1>1, <5>1, <5>2, <5>3
      <4> QED BY <1>0, <1>1, <1>3, <2>0, <3>2, <3>7, <4>1, UnderwayStep DEF WriteRefused
    <3>8. ASSUME NEW k \in 1 .. Len(log), e \in log[k], Announced(c, k) PROVE Pending(c, e)'
      <4>1. ~ Handles(p, StoredMsg(k, log[k]))
        <5> DEFINE m == StoredMsg(k, log[k])
        <5> SUFFICES ASSUME Handles(p, m) PROVE FALSE
          OBVIOUS
        <5>1. m.type = "stored" /\ m.op = log[k]
          BY DEF StoredMsg
        <5> HIDE DEF m
        <5>2. OnStored(p) /\ HeardBy(p, m)
          BY <3>3, <5>1 DEF Handles
        <5>3. Len(down[c]) <= 1
          BY <1>3 DEF Sockets
        <5>4. PICK w \in DownMsgs : HeardBy(p, w) /\ Integrated(p, w.op, w.seq)
          BY <5>2, OnStoredEffect
        <5>5. w = m
          BY <1>3, <5>2, <5>3, <5>4 DEF HeardBy
        <5> QED BY <3>8, <5>1, <5>4, <5>5 DEF Integrated
      <4>2. Announced(c, k)'
        BY <1>0, <1>3, <2>0, <3>8, <4>1, AnnouncedStep
      <4>3. log'[k] = log[k] /\ k \in 1 .. Len(log')
        BY EntriesStay
      <4> QED BY <1>1, <3>8, <4>2, <4>3
    <3> QED BY <2>1, <2>2, <3>1, <3>5, <3>6, <3>7, <3>8 DEF Pending
  <2>5. CASE e \notin outbox[p]
    <3>1. ~ Reload(p)
      BY <1>0, <1>3, ReloadEffect DEF Left
    <3>2. SentUp(p, {OpMsg({e})})
      BY <2>5, <3>1, BoxStep
    <3>3. OpMsg({e}) \in Ups(c)' /\ OpMsg({e}).type = "op" /\ e \in OpMsg({e}).op
      BY <1>3, <3>2 DEF SentUp, OpMsg
    <3> QED BY <1>1, <3>3 DEF Underway
  <2> QED BY <2>3, <2>4, <2>5
<1> QED BY <1>2, <1>3, OnlineStep

(* Of what a room shows, and has saved, only the outbox is not logged yet. *)
Drafts ==
  Plain => \A p \in Client :
    doc[p] \subseteq Logged \cup outbox[p] /\ disk[p].doc \subseteq Logged \cup disk[p].outbox

(* Every step keeps it so: what is integrated is logged. *)
LEMMA DraftsStep ==
  Typed /\ Numbered /\ Heads /\ Sources /\ Drafts /\ [Next]_vars => Drafts'
<1> SUFFICES ASSUME Typed, Numbered, Heads, Sources, Drafts, [Next]_vars, Plain' PROVE Drafts'
  BY DEF Drafts
<1> DEFINE B == \A p \in Client :
                  /\ doc'[p] \subseteq Logged' \cup outbox'[p]
                  /\ disk'[p].doc \subseteq Logged' \cup disk'[p].outbox
<1>1. Logged \subseteq Logged' /\ Plain
  BY SettingStep, EntriesStay DEF Plain
<1>2. \A p \in Client : doc[p] \subseteq Logged \cup outbox[p] /\ disk[p].doc \subseteq Logged \cup disk[p].outbox
  BY <1>1 DEF Drafts
<1>3. ASSUME UNCHANGED <<doc, outbox, disk>> PROVE B
  BY <1>1, <1>2, <1>3
<1>4. ASSUME UNCHANGED disk, NEW p \in Client,
             OthersKeep(doc, doc', p), OthersKeep(outbox, outbox', p),
             doc'[p] \subseteq Logged \cup outbox'[p]
      PROVE  B
  BY <1>1, <1>2, <1>4 DEF OthersKeep
<1>5. ASSUME NEW p \in Client, NEW edits, NEW n, Integrated(p, edits, n), edits \subseteq Logged,
             UNCHANGED disk
      PROVE  B
  BY <1>2, <1>4, <1>5 DEF Integrated
<1> HIDE DEF B
<1>6. ASSUME ServerOnly PROVE B
  BY <1>3, <1>6 DEF ServerOnly, local, page
<1>7. ASSUME NEW p \in Client, SetAwareness(p) \/ Open(p) \/ Break(p) \/ OnAwarenessMsg(p)
                 \/ OnLeaveMsg(p) \/ OnReadRefused(p) \/ OnOtherError(p)
      PROVE  B
  BY <1>3, <1>7, SetAwarenessEffect, OpenEffect, BreakEffect, OnAwarenessMsgEffect,
     OnLeaveMsgEffect, OnReadRefusedEffect, OnOtherErrorEffect
  DEF page, local
<1>8. ASSUME NEW p \in Client, Edit(p) PROVE B
  <2>1. PICK e \in Edits :
          /\ doc'[p] = doc[p] \cup {e} /\ OthersKeep(doc, doc', p)
          /\ outbox'[p] = (IF Plain THEN outbox[p] \cup {e} ELSE outbox[p])
          /\ OthersKeep(outbox, outbox', p)
    BY <1>8, EditEffect
  <2>2. UNCHANGED disk
    BY <1>8, EditEffect DEF page
  <2> QED BY <1>1, <1>2, <1>4, <2>1, <2>2
<1>9. ASSUME NEW p \in Client, Save(p) PROVE B
  <2>1. /\ disk'[p].doc = doc[p] /\ disk'[p].outbox = outbox[p] /\ OthersKeep(disk, disk', p)
        /\ UNCHANGED <<doc, outbox>>
    BY <1>1, <1>9, SaveEffect DEF local
  <2> QED BY <1>1, <1>2, <2>1 DEF B, OthersKeep
<1>10. ASSUME NEW p \in Client, Load(p) PROVE B
  BY <1>1, <1>10, LoadEffect
<1>11. ASSUME NEW p \in Client, Reload(p) PROVE B
  <2>1. /\ UNCHANGED disk /\ doc'[p] = disk[p].doc /\ outbox'[p] = disk[p].outbox
        /\ OthersKeep(doc, doc', p) /\ OthersKeep(outbox, outbox', p)
    BY <1>1, <1>11, ReloadEffect DEF Reloaded
  <2> QED BY <1>2, <1>4, <2>1
<1>12. ASSUME NEW p \in Client, OnWelcome(p) PROVE B
  <2>1. PICK msg \in DownMsgs :
          /\ msg.type = "welcome" /\ HeardBy(p, msg) /\ Sock(p) \in Conn
          /\ Integrated(p, msg.ops, msg.head) /\ UNCHANGED disk
    BY <1>12, OnWelcomeEffect DEF page
  <2>2. msg.ops \subseteq Logged
    BY <2>1 DEF HeardBy, Sources
  <2> QED BY <1>5, <2>1, <2>2
<1>13. ASSUME NEW p \in Client, OnStored(p) PROVE B
  <2>1. PICK msg \in DownMsgs :
          /\ msg.type = "stored" /\ HeardBy(p, msg) /\ Sock(p) \in Conn
          /\ Integrated(p, msg.op, msg.seq) /\ UNCHANGED disk
    BY <1>13, OnStoredEffect DEF page
  <2>2. LogsOne(msg)
    BY <2>1 DEF HeardBy, Heads
  <2>3. msg.op \subseteq Logged
    BY <2>2, LoggedFacts DEF LogsOne
  <2> QED BY <1>5, <2>1, <2>3
<1>14. ASSUME NEW p \in Client, OnWriteRefused(p) PROVE B
  <2>1. /\ UNCHANGED disk /\ doc'[p] = {}
        /\ OthersKeep(doc, doc', p) /\ OthersKeep(outbox, outbox', p)
    BY <1>14, OnWriteRefusedEffect
  <2> QED BY <1>4, <2>1
<1>15. ASSUME UNCHANGED vars PROVE B
  BY <1>3, <1>15 DEF vars, local, page
<1>16. B
  BY <1>6, <1>7, <1>8, <1>9, <1>10, <1>11, <1>12, <1>13, <1>14, <1>15, StepCases
<1> QED BY <1>16 DEF B, Drafts

(* What is new in a document its client sends, or was told. *)
LEMMA DocGrows ==
  ASSUME Typed, Numbered, [Next]_vars
  PROVE  \A p \in Client : \A e \in doc'[p] :
           \/ e \in doc[p] \/ Reload(p)
           \/ Sock(p) \in Conn /\ Told(p, e)
           \/ \E m : m.type = "op" /\ e \in m.op /\ SentUp(p, {m})
<1> DEFINE B == \A p \in Client : \A e \in doc'[p] :
                  \/ e \in doc[p] \/ Reload(p)
                  \/ Sock(p) \in Conn /\ Told(p, e)
                  \/ \E m : m.type = "op" /\ e \in m.op /\ SentUp(p, {m})
<1>1. ASSUME UNCHANGED doc PROVE B
  BY <1>1
<1>2. ASSUME NEW p \in Client, OthersKeep(doc, doc', p), NEW edits, doc'[p] = doc[p] \cup edits,
             SentUp(p, {OpMsg(edits)})
      PROVE  B
  <2>1. OpMsg(edits).type = "op" /\ OpMsg(edits).op = edits
    BY DEF OpMsg
  <2> QED BY <1>2, <2>1 DEF OthersKeep
<1>3. ASSUME NEW p \in Client, NEW edits, NEW n, Integrated(p, edits, n), Sock(p) \in Conn,
             \A e \in edits : Told(p, e)
      PROVE  B
  BY <1>3 DEF Integrated, OthersKeep
<1>4. ASSUME NEW p \in Client, OthersKeep(doc, doc', p), doc'[p] = {} \/ Reload(p) PROVE B
  BY <1>4 DEF OthersKeep
<1> HIDE DEF B
<1>5. ASSUME ServerOnly PROVE B
  BY <1>1, <1>5 DEF ServerOnly, local
<1>6. ASSUME NEW p \in Client, Edit(p) PROVE B
  <2>1. \E e \in Edits : /\ doc'[p] = doc[p] \cup {e} /\ OthersKeep(doc, doc', p)
                         /\ SentUp(p, {OpMsg({e})})
    BY <1>6, EditEffect
  <2> QED BY <1>2, <2>1
<1>7. ASSUME NEW p \in Client, Load(p) PROVE B
  BY <1>2, <1>7, LoadEffect
<1>8. ASSUME NEW p \in Client,
             \/ SetAwareness(p) \/ Open(p) \/ Save(p) \/ Break(p) \/ OnAwarenessMsg(p)
             \/ OnLeaveMsg(p) \/ OnReadRefused(p) \/ OnOtherError(p)
      PROVE  B
  BY <1>1, <1>8, SetAwarenessEffect, OpenEffect, SaveEffect, BreakEffect,
     OnAwarenessMsgEffect, OnLeaveMsgEffect, OnReadRefusedEffect, OnOtherErrorEffect
  DEF local
<1>9. ASSUME NEW p \in Client, OnWelcome(p) PROVE B
  <2>1. PICK msg \in DownMsgs :
          /\ msg.type = "welcome" /\ HeardBy(p, msg) /\ Sock(p) \in Conn
          /\ Integrated(p, msg.ops, msg.head)
    BY <1>9, OnWelcomeEffect
  <2>2. \A e \in msg.ops : Told(p, e)
    BY <2>1 DEF HeardBy, Told
  <2> QED BY <1>3, <2>1, <2>2
<1>10. ASSUME NEW p \in Client, OnStored(p) PROVE B
  <2>1. PICK msg \in DownMsgs :
          /\ msg.type = "stored" /\ HeardBy(p, msg) /\ Sock(p) \in Conn
          /\ Integrated(p, msg.op, msg.seq)
    BY <1>10, OnStoredEffect
  <2>2. \A e \in msg.op : Told(p, e)
    BY <2>1 DEF HeardBy, Told
  <2> QED BY <1>3, <2>1, <2>2
<1>11. ASSUME NEW p \in Client, OnWriteRefused(p) \/ Reload(p) PROVE B
  BY <1>4, <1>11, OnWriteRefusedEffect, ReloadEffect
<1>12. ASSUME UNCHANGED vars PROVE B
  BY <1>1, <1>12 DEF vars, local
<1>13. B
  BY <1>5, <1>6, <1>7, <1>8, <1>9, <1>10, <1>11, <1>12, StepCases
<1> QED BY <1>13 DEF B

(* A provider pushes what it has: its socket has joined, or joins first,   *)
(* and what the document holds is logged, rebuffed or on its way.          *)
Greeted(c) == bound[c] # NoReplica \/ (up[c] # <<>> /\ Head(up[c]).type = "join")
Pushed ==
  ~ Plain /\ ~ enforce => \A p \in Client : Online(p) =>
    /\ Greeted(Sock(p))
    /\ \A e \in doc[p] : e \in Logged \cup rebuffed[p] \/ Underway(Sock(p), e)

(* Every step keeps it so. *)
LEMMA PushedStep ==
  Typed /\ Numbered /\ Sockets /\ Names /\ Heads /\ Sources /\ Unchecked /\ Pushed /\ [Next]_vars
    => Pushed'
<1> SUFFICES ASSUME Typed, Numbered, Sockets, Names, Heads, Sources, Unchecked, Pushed,
                    [Next]_vars, ~ Plain', ~ enforce',
                    NEW p \in Client, Online(p)', NEW c, c = Sock(p)'
             PROVE  /\ Greeted(c)'
                    /\ \A e \in doc'[p] : e \in Logged' \cup rebuffed'[p] \/ Underway(c, e)'
  BY DEF Pushed
<1>0. ~ Plain /\ ~ enforce /\ sock'[c] = "open"
  BY SettingStep DEF Plain, enforce, Online
<1>1. \A e, m : m \in Ups(c)' /\ m.type = "op" /\ e \in m.op => Underway(c, e)'
  BY DEF Underway
<1>2. Greeted(c)' <=> bound'[c] # NoReplica \/ (up'[c] # <<>> /\ Head(up'[c]).type = "join")
  BY DEF Greeted
<1>3. ASSUME c \in Conn, Open(p), Opened(p, c)
      PROVE  /\ Greeted(c)'
             /\ \A e \in doc'[p] : e \in Logged' \cup rebuffed'[p] \/ Underway(c, e)'
  <2>1. OpMsg(doc[p]) \in Ups(c)' /\ up'[c] # <<>> /\ Head(up'[c]) = HelloJoin(p)
    BY <1>0, <1>3 DEF Opened
  <2>2. HelloJoin(p).type = "join" /\ OpMsg(doc[p]).type = "op" /\ OpMsg(doc[p]).op = doc[p]
    BY DEF HelloJoin, JoinMsg, OpMsg
  <2>3. UNCHANGED doc
    BY <1>3, OpenEffect DEF local
  <2> QED BY <1>1, <1>2, <2>1, <2>2, <2>3
<1>4. ASSUME Online(p), c = Sock(p), c \in Conn
      PROVE  /\ Greeted(c)'
             /\ \A e \in doc'[p] : e \in Logged' \cup rebuffed'[p] \/ Underway(c, e)'
  <2>1. sock[c] = "open" /\ Greeted(c)
    BY <1>0, <1>4 DEF Online, Pushed
  <2>2. Greeted(c)'
    <3>1. CASE bound[c] # NoReplica
      BY <1>2, <1>4, <3>1, BoundStays
    <3>2. CASE up[c] # <<>> /\ Head(up[c]).type = "join"
      <4>1. CASE up'[c] # <<>> /\ Head(up'[c]) = Head(up[c])
        BY <1>2, <3>2, <4>1
      <4>2. ASSUME NEW m, TakenOff(c, m), Read(c, m) PROVE Greeted(c)'
        <5>1. m.type = "join"
          BY <3>2, <4>2 DEF TakenOff
        <5>2. PICK t \in Tasks(c)' : t.pc = "authorize join" \/ c \in room'
          BY <4>2, <5>1 DEF Read
        <5>3. t.pc # "authorize join"
          BY <1>0, <1>4, UncheckedStep DEF Unchecked
        <5>4. c \in room' /\ Names'
          BY <5>2, <5>3, NamesStep
        <5> QED BY <1>2, <1>4, <5>4 DEF Names
      <4> QED BY <1>0, <1>4, <3>2, <4>1, <4>2, UpsLost
    <3> QED BY <2>1, <3>1, <3>2 DEF Greeted
  <2>3. ASSUME NEW e \in doc'[p] PROVE e \in Logged' \cup rebuffed'[p] \/ Underway(c, e)'
    <3>1. CASE e \in Logged \cup rebuffed[p]
      BY <1>4, <3>1, EntriesStay, HarmStep, OpenEffect
    <3>2. CASE Underway(c, e)
      <4>1. ~ (bound[c] = NoReplica /\ up[c] # <<>> /\ Head(up[c]).type = "op")
        BY <2>1 DEF Greeted
      <4>2. \A t \in Tasks(c) : t.pc # "authorize op"
        BY <1>0, <1>4 DEF Unchecked
      <4>3. ASSUME NEW edits \in SUBSET Edits, e \in edits, Logged1(edits) PROVE e \in Logged'
        BY <4>3, LogAdds
      <4> QED BY <1>0, <1>4, <2>1, <3>2, <4>1, <4>2, <4>3, UnderwayStep
    <3>3. CASE e \notin doc[p]
      <4>1. ~ Reload(p)
        BY <1>0, <1>4, ReloadEffect DEF Left
      <4>2. Told(p, e) => e \in Logged
        BY <1>4, ToldIsLogged
      <4>3. ASSUME NEW m, m.type = "op", e \in m.op, SentUp(p, {m}) PROVE Underway(c, e)'
        BY <1>1, <1>4, <4>3 DEF SentUp
      <4> QED BY <3>1, <3>3, <4>1, <4>2, <4>3, DocGrows
    <3>4. CASE e \in doc[p]
      BY <1>0, <1>4, <3>1, <3>2, <3>4 DEF Pushed
    <3> QED BY <3>3, <3>4
  <2> QED BY <2>2, <2>3
<1> QED BY <1>3, <1>4, OnlineStep

-----------------------------------------------------------------------------
(* The provider has no outbox. *)
NoBox == ~ Plain => \A p \in Client : outbox[p] = {}

(* Every step keeps it so. *)
LEMMA NoBoxStep == Typed /\ Numbered /\ NoBox /\ [Next]_vars => NoBox'
<1> SUFFICES ASSUME Typed, Numbered, NoBox, [Next]_vars, ~ Plain',
                    NEW p \in Client, NEW e \in outbox'[p]
             PROVE  FALSE
  BY DEF NoBox
<1>1. ~ Plain
  BY SettingStep DEF Plain
<1> QED BY <1>1, BoxStep DEF NoBox

(* What makes a quiet system agree. *)
Sharing == Unchecked /\ Joined /\ Reached /\ Queued /\ Drafts /\ NoBox /\ Pushed

(* Nothing is asked, on its way or being done when the system starts. *)
LEMMA SharingInit == Init => Sharing
<1> SUFFICES ASSUME Init PROVE Sharing
  OBVIOUS
<1>1. /\ \A c \in Conn : down[c] = <<>> /\ tasks[c] = <<>>
      /\ \A p \in Client : /\ cur[p] = 0 /\ doc[p] = {} /\ head[p] = 0 /\ outbox[p] = {}
                           /\ disk[p].doc = {} /\ disk[p].head = 0
  BY DEF Init, HubInit
<1>2. \A c \in Conn : Downs(c) = {} /\ Tasks(c) = {}
  <2>1. ToSet(<<>>) = {}
    BY DEF ToSet
  <2> QED BY <1>1, <2>1 DEF Downs, Tasks
<1>3. \A p \in Client : ~ Online(p)
  BY <1>1 DEF Online
<1>4. Unchecked
  BY <1>2 DEF Unchecked
<1>5. Drafts /\ NoBox
  BY <1>1 DEF Drafts, NoBox
<1> QED BY <1>3, <1>4, <1>5 DEF Sharing, Joined, Reached, Queued, Pushed

(* When all is quiet nothing is pending, so what is not logged is nowhere  *)
(* but where it was rebuffed, and whatever is logged and was not missed    *)
(* has arrived.                                                            *)
LEMMA QuietShares == Sound /\ Sharing => QuietMeansShared
<1> SUFFICES ASSUME Sound, Sharing, Quiet, Minded, NEW p \in Client, p \notin quit, p \notin unjoined
             PROVE  /\ Logged \ missed[p] \subseteq doc[p]
                    /\ doc[p] \subseteq Logged \cup rebuffed[p]
                    /\ outbox[p] \subseteq rebuffed[p]
  BY DEF QuietMeansShared, UpToDate, Minded
<1>1. PICK c \in Conn : c = Sock(p)
  <2>1. Online(p)
    BY DEF Quiet
  <2> QED BY <2>1, OnlineFacts DEF Sound
<1>2. Online(p) /\ (\A d \in Conn : Ups(d) = {} /\ Downs(d) = {} /\ Tasks(d) = {})
      /\ \A i \in Instance : Bus(i) = {}
  <2>1. ToSet(<<>>) = {}
    BY DEF ToSet
  <2> QED BY <2>1 DEF Quiet, Ups, Downs, Tasks, Bus
<1>3. Asked(c) = {} /\ Home[c] \in Instance
  BY <1>2, HomeAssumption DEF Asked
<1>4. /\ ~ ReadRefused(c) /\ ~ WriteRefused(c)
      /\ \A e : ~ Underway(c, e)
      /\ \A k : ~ Announced(c, k)
  BY <1>2, <1>3 DEF ReadRefused, WriteRefused, Underway, Announced
<1>5. Logged \ missed[p] \subseteq doc[p]
  <2>1. \A e : ~ Coming(c, e)
    BY <1>2, <1>3, <1>4 DEF Coming
  <2> QED BY <1>1, <1>2, <2>1 DEF Sharing, Reached
<1>6. outbox[p] \subseteq rebuffed[p]
  <2>1. CASE Plain
    <3>1. \A e : ~ Pending(c, e)
      BY <1>2, <1>3, <1>4 DEF Pending
    <3> QED BY <1>1, <1>2, <2>1, <3>1 DEF Sharing, Queued
  <2>2. CASE ~ Plain
    BY <2>2 DEF Sharing, NoBox
  <2> QED BY <2>1, <2>2
<1>7. doc[p] \subseteq Logged \cup rebuffed[p]
  <2>1. CASE Plain
    BY <1>6, <2>1 DEF Sharing, Drafts
  <2>2. CASE ~ Plain
    BY <1>1, <1>2, <1>4, <2>2 DEF Sharing, Pushed, Minded
  <2> QED BY <2>1, <2>2
<1> QED BY <1>5, <1>6, <1>7

(* The hub's promise as far as the code keeps it: whenever nothing is on   *)
(* its way, every client that may be connected shows what is logged and    *)
(* has nothing left to send, but for the edits its present socket missed   *)
(* below the head it joined from or by a handler that threw; whatever      *)
(* broke, was reloaded, refused or saved before.                           *)
THEOREM QuietIsShared == Spec => []QuietMeansShared
<1>1. Init => Sources /\ Sharing
  BY SourcesInit, SharingInit
<1>2. Sound /\ Sources /\ Sharing /\ [Next]_vars => Sources' /\ Sharing'
  <2> SUFFICES ASSUME Sound, Sources, Sharing, [Next]_vars PROVE Sources' /\ Sharing'
    OBVIOUS
  <2>1. Sources' /\ Unchecked' /\ Joined' /\ Drafts' /\ NoBox'
    BY SourcesStep, UncheckedStep, JoinedStep, DraftsStep, NoBoxStep DEF Sound, Sharing
  <2>2. Reached'
    BY ReachedStep DEF Sound, Sharing
  <2>3. Queued' /\ Pushed'
    BY QueuedStep, PushedStep DEF Sound, Sharing
  <2> QED BY <2>1, <2>2, <2>3 DEF Sharing
<1>3. Sound /\ Sharing => QuietMeansShared
  BY QuietShares
<1> QED BY <1>1, <1>2, <1>3, SoundAlways, PTL DEF Spec
=============================================================================
