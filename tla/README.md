# Birga in TLA+

Birga is a collaborative editor: a sequence CRDT written from scratch
(`packages/crdt`), a sync client (`packages/client`), a relay server with
pluggable stores (`apps/server`) and a web front end (`apps/web`). The modules
here model the program as written, TLC checks them on small instances, and
TLAPS proves the core results for every value of the constants.

    tlc -workers 2 -config MCReplicas.cfg MCReplicas.tla
    tlapm ReplicasProofs.tla

## The system

| part | state | operations | talks to | what makes it correct |
|---|---|---|---|---|
| CRDT (`rga.ts`, `id.ts`, `types.ts`) | Lamport clock, nodes, sorted child buckets, tombstones | insertAt, deleteAt, apply, applyAll, snapshot, mergeSnapshot, fromSnapshot | called by the room and by the compactor | same operations, same state, in any order and with duplicates; one document order; a snapshot loses nothing |
| plain-text room (`room.ts`) | an RGA, head, outbox, connected, denied, presence | connect, open, close, reconnect, insert, delete, setText, welcome, op, awareness, leave, error, persist | the Hub, by a socket; storage | no local edit is lost; head leaves no gap; rooms come to agree |
| storage (`storage.ts`) | snapshot, head, outbox of a document | load, save | the room | what a reload restores is one moment of the room |
| protocol (`protocol/src/index.ts`) | none | messages and their parsing | room and Hub | `since` names exactly what is missing |
| Hub (`hub.ts`, `server.ts`) | rooms, replica and token of each socket | join, op, awareness, close, sweep, heartbeat | stores, fan-out, authorizer | every operation reaches every current and future member |
| stores (`store.ts`, `postgres.ts`, `redis.ts`) | op log, sequence, snapshot | append, since, head, loadSnapshot, saveSnapshot, compact | the Hub, the sweep | one totally ordered history; compaction is invisible |
| fan-out (`fanout.ts`, `redis.ts`) | none | publish, onMessage | the Hubs of other instances | every instance's members hear every operation |
| authorization (`authz.ts`, `auth.ts`) | none | authorize | the Hub, the documents | decisions match the role at some moment of the request |
| documents (`documents.ts`, `api.ts`) | documents, permission rows | create, rename, remove, setRole, revoke, share, accept | the database | an owner stays an owner |
| Yjs provider (`birga-yjs-provider.ts`) | a Y.Doc, connected | update, awareness, connect, message, destroy | the Hub | an offline edit reaches the log after a reconnect |
| start-up, seed (`index.ts`, `seed.ts`) | which store is opened; demo rows and snapshots | main, seed | stores, documents | a seed leaves a log that appends and joins can build on, and takes no edits back |
| pages | user interface | | room, provider, REST API | no protocol state: not modelled |

A local edit goes: room → RGA (applied at once) → outbox and socket → Hub →
store (given a seq) → every socket of the room, the author's included → RGA of
each room, which also drops the outbox entry and raises the head. On reconnect
the room joins with `since = head`, gets a welcome, and resends its outbox.
Every minute the server folds the operations of active documents into a
snapshot (an RGA rebuilt from the previous snapshot and the log) and prunes them.

The hard behaviours are the delivery orders of the CRDT (child before parent,
delete before insert, duplicates), broken sockets (unknown fate of what was on
them, late reading of an old one), the resend, compaction between a client's
head and its reconnect, handlers interleaved at their awaits, two server
instances over one store, sweeps that nothing keeps apart, handlers that throw, ids of removed
documents that come again, and reloads of a page. `PROJECT.json` lists them line
by line under "hazards", with the property that would catch each.

## The modules

- `OpId`: ids, their order, operations. A replica is its rank among the replica
  strings (only compared in the code), an element is its id; characters are left
  out, since merging never looks at them.
- `RGA`: the class `RGA`, one operator per method, on a record
  `[counter, nodes, children, tombstones]`. The binary search of `linkChild`
  is stated by what it finds (`Slot`); the depth-first walk of `ordered` is a
  recursive function.
- `ReplicatedText`: the abstract specification. A replica shows the elements of
  the set of operations it holds, ordered by their paths from ROOT: no tree, no
  buckets, no order of arrival. A local edit lands where it was made and carries
  an id nobody has.
- `Replicas`: replicas that edit and receive operations in any order, any number
  of times. `ImplementsText` is the refinement: `held` is the set of operations
  applied, `text` the visible nodes.
- `SnapshotReplicas`: the same replicas, which also reload from their own
  snapshot and merge each other's. `Causal` says whether an operation is
  delivered only after the insert it refers to.
- `MemoryStore`: `InMemoryDocStore` and the plain-text compactor as operators.
- `Relay`: rooms, sockets, one Hub and the in-memory store composed. Variables
  `doc`, `head`, `outbox`, `connected` are fields of the room; `up` and `down`
  the two directions of its socket; `stale` what the server has yet to read of a
  broken one; `room` and `store` the server; `issued` and `stored` are history.
  Actions: `Insert`, `Delete`, `Open` (connect and onOpen), `Drop` (onClose,
  disconnect), `OnWelcome`, `OnStored`, `OnJoin`, `OnOp`, `OnStale`, `Sweep`.
- `OpLog`: the abstract specification of `DocStore`: one log that grows by one
  numbered operation at a time and forgets none, as long as it is intact.
- `SharedStore`: `PostgresDocStore` and `RedisDocStore` under the appends, joins
  and sweeps of several instances, one step for each statement or command.
  Variables `table`, `list`, `counter`, `snapshot` are the tables and keys;
  `writer`, `sweep` and `join` are the calls under way and what they have read.
  An append of Postgres reads its number (`TakeNumber`) and meets the primary key
  (`Store`, `LoseRace`) in two steps; a sweep is `StartSweep`, `ReadLog`, then
  `Replace` or `SaveSnapshot` and `Trim`; a first join `ReadHead`, `ReadSnapshot`,
  `ReadRest`; `AppendDies` and `SweepDies` are crashes and failed commands. Nothing
  keeps sweeps apart, from half-done appends or from a seed, as nothing does in the
  code; `outrun`, `overlapped`, `reseeded` record when it happened.
  A snapshot is the set of operations folded into it: for a causal log that is
  what the compactor builds (`Relay`, `StoreKeepsHistory`). `ImplementsLog` is the
  refinement: the abstract log is what a join would be served (`Served`), without what a
  compaction had read past (`Kept`).
- `Hub`: the handlers of `hub.ts` on several instances, cut at their awaits.
  `tasks` holds the rest of every suspended handler, `bus` what was published to
  an instance and not yet handled (`RedisFanout`), `bound` and `room` are
  `replicaByDoc` and the rooms. `Fails` is the catch of `onMessage`: what a handler
  awaits has thrown, an append with the operation stored or not. `setting` says whether
  there is an authorizer and what it answers for whom.
- `Clients` extends it with both clients: `PlainTextRoom` with storage, refusal
  and resync, presence and page reloads, and `BirgaYjsProvider` with
  y-indexeddb. A document is the set of edits applied (that equal sets are equal
  documents is `ReplicasProofs!Converges`), an operation the edits it carries: one
  for a room, a whole state for a provider's push. `disk` is what storage holds: a room's
  last saved record, or what y-indexeddb has written so far. `missed`, `rebuffed` and
  `unjoined` record what a client does not get on its present socket: what lay below the
  head it joined from, what a throw of the server sent back or did not spread.
- `Documents`: `DocumentsRepo` and the REST handlers as check-then-act requests
  on one document id, with share links. A removed document's id may be created again;
  `signed`, `late` and `haunted` tell the links and requests of the present document from
  those of an earlier one.
- `MCReplicas`, `MCSnapshotReplicas`, `MCRelay`, `MCSharedStore`, `MCClients`,
  `MCDocuments`: instances for TLC.
- `BasicLemmas` (numbers and queues), `RGALemmas`, `ClientsTyping`: lemmas;
  `ReplicasProofs`, `RelayProofs`, `SharedStoreProofs`, `DocumentsProofs`,
  `ClientsProofs`: theorems with their proofs.

`Relay` and `Clients` are two views of one composition. `Relay` has the documents
themselves, the log with its operations, compaction and the keys of the outbox,
with handlers that run to their end; `Clients` has interleaved handlers, two
instances, authorization, storage and presence, with edits as atoms that never
collide in an outbox, and no compaction.

Definitions commented "A slip" are plausible mistakes in the definition that
follows them; the specifications never use them. `PROJECT.json` pairs each with
a property that fails once it replaces the right one.

## The runs

| run | bounds | shows |
|---|---|---|
| `replicas` | 2 replicas, 4 operations | documents mirror the operations applied, converge, agree on one order, self-heal, and implement the abstract text |
| `snapshots_causal` | 2 replicas, 4 operations, causal delivery | a restored document is the document; a merge is the union; restore-then-continue equals never-snapshotted |
| `relay_reconnect` | 2 rooms, 2 inserts, 1 break, no compaction | no edit lost, no gap below head, every member reached, quiet rooms agree, and they come to agree |
| `relay_compaction` | 2 rooms, 3 edits, 2 compactions, no break | while the log is causal, compaction is invisible to members and joiners; no insert or delete is lost |
| `relay_lost` | 2 rooms, 2 inserts, 1 break, 1 compaction | **violated**: an edit typed before the welcome can vanish from the server |
| `stores` | both backends, 3 appends of 2 attempts each, 2 sweeps starting 3 compactions, 1 join, the seed at any time, crashes anywhere | an acknowledged operation stays served under its number; heads cover the log and never fall; a join misses nothing that was not removed between its reads; one abstract log is implemented: each but for the hazards told below |
| `stores_lost` | Redis, 2 appends, 1 compaction | **violated**: a sweep between INCR and RPUSH loses the operation |
| `clients` | 2 clients, 2 instances, 11 settings, up to 2 edits or 2 cursor moves, 1 break, reload or throw, 2 handlers suspended at once | no edit is lost; when all is delivered every document is the log; roles hold; no ghost on the present socket; and all is delivered |
| `clients_gap` | two rooms, 2 edits, 1 break | **violated**: a gap below the head is never filled |
| `provider_enforced` | the provider under an authorizer | **violated**: the state pushed behind a join is refused |
| `documents` | 2 users, 3 requests under way, 2 links, ids used again | one owner until removal, every role signed by the owner, every change by who had the role, but for requests from an earlier document of the id |
| `documents_reused` | 2 users, 2 requests | **violated**: a late accept demotes an owner |

Why the bounds are enough for what is claimed. Four operations hold every shape
of conflict the merge distinguishes: two concurrent siblings with equal
counters, a child under either, and a delete of any of them, delivered in every
order with every duplicate; the proofs remove the bound for all but `ImplementsText`.
In the relay, two edits of one room form a causal pair and two edits of two
rooms a concurrent one; one break can fall between any two messages, and the
resend and the late reading of the old socket already store an operation twice.
Two compactions are the least that fold onto a snapshot; the third edit lets a
child or a delete arrive between them. The compaction threshold `MinOps` is 1:
a larger one only delays the sweep.

The passing relay runs are split by what the code breaks. `Erase` is
"none" in `relay_reconnect` (a delete can clear or be cleared by another outbox
entry of the same element) and "confirmed" in `relay_compaction`;
`StoreKeepsHistory` and `MembersCatchUp` are stated for a log in causal order
(`LogIsCausal`), because outside it the code does lose operations
(`relay_lost`). Deadlock is not checked for `Relay`: with everything delivered
and users done, the system rests.

In the stores, three appends are the least in which one loses a race while another is
between its two steps; two sweeps are the least that can overlap, and three compactions
let two fold one after the other while a third has died or overlaps. In `clients`, a
setting picks the kind of editor, the authorizer, the roles of the client whose socket may
break, the authors, whether pages are reloaded and how many handlers throw; one break can
fall between any two steps, and its second socket goes to the other instance, so that old
and new socket are served by different processes. The crossing edits of two authors, in a
setting with a break and no authorizer, are left to `clients_gap` and to the theorems:
with the liveness property they have too many states. A client hears what has reached its
socket before anything else happens (`AllHeard`): a slow network is a slow send, and
messages in both directions still cross. In `documents` a request slot and an id are used
again and again, so three are only a bound on what is under way at once; two users are an
owner and another, or two owners in turn.

What the passing runs except. Where the code breaks a promise, the run that passes says
what still holds, and a violated run shows the shortest way to break it:

- `AckedIsServed`, `JoinSeesLog` and `ImplementsLog` do not count an append whose number a
  compaction had read past (`outrun`), and with `HeadNeverFalls` they stop at the first
  overlap of two sweeps (`overlapped`) or seed of a document in use (`reseeded`).
  `JoinSeesLog` does not speak of a join between whose reads rows were removed (`cut`).
  `HeadCovers` and `TypeOK` have no exception. `EveryOpReaches` of `SharedStore` drops all of
  these, and each of them violates it: `stores_lost` the first; the others (4, 7, 8 and 9
  below) with the constants given there.
- `QuietMeansShared` and `EventuallyShared` do not count, for a client, the operations below
  the head its present socket joined from (`missed`; `clients_gap`), operations whose handler
  threw (`rebuffed`, and `missed` if it was stored), and a client whose
  join threw (`unjoined`), until its next join. They leave out the provider under an
  authorizer. `EveryOpIsPersisted` drops the last two, and either violates it:
  `provider_enforced`, and 11 below.
- `MembersCatchUp` and `StoreKeepsHistory` speak of causal logs, and pass without breaks or
  without compaction; `EveryOpReaches` of `Relay` drops both, and is violated by `relay_lost`
  and in a second way (2 below).
- `NoEditLost` of `Clients` waives what a refusal drops, and what a reload takes back because it had not
  been saved: the code promises neither. That of `Relay` fails with `Erase = "any"` (3 below).
- The properties of `Documents` stop where a request that was checked against, or a link
  that was signed for, an earlier document of the id has given a role (`haunted`;
  `documents_reused`).

What the passing runs assume of the surroundings: the fan-out loses nothing (`publish` is
neither awaited nor repeated, redis.ts:28-30; a lost message would leave the gap of
`clients_gap` in every room of an instance), a fan-out never throws, a browser has one tab of a document (two
would save their records over each other), and edits do not share an outbox key except in
`Relay`.

Deadlock is not checked for these modules either: with everything done they rest.

Fairness. `Relay` assumes only that while something can be delivered (a
message on a socket, or a room to reconnect) something is: weak fairness of
the disjunction of those steps. Sockets deliver, the event loop runs, and
`scheduleReconnect` always arms a timer; users, breaks and sweeps have no
fairness. `Clients` assumes weak fairness of the server as a whole (`ServerStep`:
instances and the database work) and, for each client, of hearing its socket
(`Handle`), of connecting (`Open`, the timer of `scheduleReconnect` or of the
provider) and of y-indexeddb's load; nothing obliges a user to edit, a socket to
break or a record to be saved. `EventuallyShared` says that everything is then
delivered for good. In `Relay`, `ENABLED` is written out as `Deliverable`, which TLC evaluates much faster.

What the code breaks, in words, with the run that shows it or the constants that do:

1. Between `onOpen` and the welcome, `sendOp` sends new edits ahead of queued
   ones. The log then has a child before its parent; a compaction right there
   drops the child, and if its echo or a welcome has already cleared it from
   the outbox nobody sends it again (`relay_lost`).
2. A reconnect gets `since(head)` only. When the operations above `head` have been
   folded, it gets none of them, and the welcome's head hides that
   (protocol/src/index.ts:28 promises it "only the ops you missed"). `MembersCatchUp` with
   `MaxDrops = 1`, `MaxCompactions = 1`, `MaxOps = 2`.
3. The outbox key is the element id, shared by its insert and its delete: deleting an element
   typed offline replaces its queued insert, which is never sent (room.ts:37 promises it is
   queued). `NoEditLost` of `Relay` with `Erase = "any"`, `MaxDrops = 1`, `MaxOps = 2`.
4. `compact` is one statement "so a late joiner never sees a gap" (postgres.ts:160), a join's
   reads are three: a sweep in between deletes operations that the snapshot already read does
   not have. `JoinSeesLog` without `cut`, on Postgres, with one append, one sweep and one join.
5. Under an authorizer a join waits for the permission rows before it enters the
   room, and the provider's push right behind it does not wait for the join: it
   is refused, and the provider ignores errors (`provider_enforced`).
6. A sweep reads the log whatever appends are half done. On Redis, an operation numbered 1
   and pushed after 2 was compacted is below the snapshot's version: it was broadcast,
   and no later join gets it (`stores_lost`).
7. On Postgres the primary key that stops the second taker of a number (postgres.ts:103) is
   deleted with the first one's row, so a slow INSERT can follow a compaction under the same
   number. `AckedIsServed` without `outrun`, on Postgres, with two appends and one sweep.
8. Two sweeps at once, of two instances or of one that is slow, undo each other: the slower
   one puts an older snapshot over a newer one whose operations are deleted. `AckedIsServed`
   without `overlapped`, on either store, with two appends and two sweeps.
9. The seed's snapshot has the length of its text as version, whatever the document's log
   has reached, though seed.ts:214 calls it idempotent. `AckedIsServed` without `reseeded`,
   on Postgres, with one append.
10. The echo of a room's own edit, numbered 2, can come before the welcome that brings
    operation 1, since handlers of one socket interleave. If the socket breaks in between,
    or the record is saved and the page loaded again, the room joins with `since` 2 and never
    hears of 1 (`clients_gap`). `HeadCoversPrefix` of `Relay` holds because its handlers run to their end.
11. An error without a code makes `PlainTextRoom` warn and nothing else: an operation whose
    append threw waits for the next reconnect, however long the socket stays up.
    `EveryOpIsPersisted` with a plain setting of one author whose `failures` are 1, and no break.
12. `share/accept` checks a role and sets it in two statements, ids come from callers, and a
    removal frees them: what was checked of one document is done to the next (`documents_reused`).

The first of these starts in the CRDT: `snapshot()` walks from ROOT, so waiting
tombstones and orphans are left out, though the class accepts any delivery order;
on the CRDT alone, `RestoreThenContinue` fails with `Causal = FALSE` and `MaxOps = 2`.

## What is proved

`ReplicasProofs` proves, for every set of replicas (ranks are positive numbers)
and every `MaxOps`:

- `TypeCorrect`: `Spec => []TypeOK`
- `DocumentsMirrorOps`, `BucketsStaySorted`: `Spec => [](StructuresMirrorOps /\ SiblingsSorted)`
- `ClocksAreLamport`: `Spec => []LamportOrder`
- `Converges`: `Spec => []Convergence`
- `OrderIsOne`: `Spec => []OneOrder`; `WalkIsComplete`: `Spec => []SelfHeals`
- of `SnapshotReplicas`, if operations are delivered after the inserts they refer to
  (`Causal`; without it `RestoreThenContinue` fails):
  `SnapshotsAreFaithful`: `[]RestoreIsFaithful`; `MergesAreUnions`: `[]MergeIsUnion`;
  `ReloadsAreUnseen`: `[]RestoreThenContinue`

Argument. `Inv` conjoins the four invariants with what makes them inductive.
`LamportOrder` gives that an id has one insert, so the parent in `nodes` does
not depend on which copy arrived; that makes `Mirrors` inductive: a document's
nodes, tombstones and bucket keys are a function of the set of operations
applied. `SiblingsSorted` is preserved because `Slot` exists in a sorted list and
inserting there keeps it sorted (`SlotProperties`, `InsertAtProperties`,
`LinkedList` in `RGALemmas`). Convergence then needs no induction of its own: a
sorted list is determined by its elements (`SortedListIsUnique`), the clock is
the largest counter seen, and so equal sets of operations give equal documents
(`SameOpsSameDocument`).

The walk is a recursive function on the elements of a document, and induction over
the tree is done with the library's facts about numbers only. An element has a
larger counter than its parent (`Tree`), so what is below an element can be made level by
level, from the largest counter down (`FromTheLeaves`): that such a function exists, is
unique, and is the one that the definition of `Ordered` names, is `IsWalk` and what
follows it. Each list of the walk holds what descends from its element, once
(`SubtreesMeet`: subtrees of siblings do not meet), so nothing whose ancestors
are all there is left out, which is `SelfHeals`. Two documents that hold the elements `x`
and `y` agree on which comes first, although their trees differ (`WalksAgree`,
`OrdersAgree`): at the element where the ways to `x` and `y` part, both buckets are
sorted, and the sort key is the id, not what else is there.

A snapshot is the walk's list of elements, each with its parent and its deleted flag. It
loses what the walk does not reach and what has no element. Causal delivery keeps
documents `Whole`: nothing in them refers to a missing element. That is
kept by edits, deliveries, merges and reloads, and for a whole document the list names
every operation it holds (`SnapshotHolds`). `fromSnapshot` sorts the list by id
before it applies it (`SortedNodes`: the sort of the model is a permutation of the list
in that order), and a merge applies it as operations; either way the result is sound for
the union of the operations (`MergeSound`, `RestoreGivesTheDocument`), and equal sets of
operations give equal documents as above.

`RelayProofs` proves of `Relay`, for every set of rooms and every number of edits, of
broken sockets and of compactions:

| theorem | shows | if |
|---|---|---|
| `TypeCorrect` | `[]TypeOK` | |
| `HistoryIsKept` | `[]StoreKeepsHistory` | (it speaks of causal logs only) |
| `MembersAreCaughtUp` | `[]MembersCatchUp` (causal logs only) | nothing is compacted, or no socket breaks |
| `HeadsCover`, `MembersAreReached` | `[]HeadCoversPrefix`, `[]ReachesEveryMember` | nothing is compacted |
| `InsertsAreKept` | every insert is stored or in its author's outbox (`Retained`) | `Erase # "any"`: users delete only what has been confirmed |
| `EditsAreKept` | `[]NoEditLost` | `DeletesAreSafe`: users delete nothing, or only what has been confirmed while no socket breaks |
| `QuietIsAgreed` | `[]QuietMeansAgreed` | `DeletesAreSafe`, nothing is compacted |
| `QuietIsAgreedWhenCompacted` | `[](LogIsCausal => QuietMeansAgreed)` | `DeletesAreSafe`, no socket breaks |

The passing relay runs are two of these surroundings. Every premise stands for a
counterexample. A server without compaction is one the code provides for (server.ts:24:
"When omitted, no automatic compaction runs"). With compaction a room that comes back
with a head that was folded meanwhile misses operations, and
outside causal logs the compactor drops some (`relay_lost`). An insert is lost
when a delete meets its outbox entry, and in the same way the second
echo of an insert that was sent twice clears the outbox entry of its delete, which is
lost if the socket then breaks.

Argument. A document is a function of the operations it holds, which can be read off
it (`Held`), and these are its room's own and some of the log (`Documents`). The store
is a snapshot of a prefix of the log and the numbered rest (`IsStoreOf`), also
after an append (`StoreAppends`) and a compaction (`StoreCompacts`: an RGA read from the
snapshot, the rest applied, and its snapshot taken, is that of the longer prefix). The
ids of whatever was ever issued are unique and grow from parent to child (`Orderly`), so
these documents are trees; while the log is causal they are whole, and the snapshot holds
all of the prefix, else only some of it. That is all `HistoryIsKept` needs.

Because the hub handles one message at a time and sockets are queues, a
socket is the rest of the log: what waits in `down[r]` for a room in the server's
`room` brings what lies above `head[r]`, message by message; a welcome from a
snapshot brings the prefix as well (`Brings`, `Continues`, in `Flow`; a room that is not
there yet hears nothing and will ask for what is above its head). So `head[r]` needs no
set beside it: a document is that of the room's own edits and of the log up to its head
(`Knows`), however often the socket broke, which gives `HeadCoversPrefix`; and with
the rest of the log behind it, `ReachesEveryMember`. Both are part of the invariant only while
`Intact` holds: nothing is compacted, or the log is causal and no room joins a second time.
A log that has ceased to be causal stays so, so `Intact` is lost once and for all, and the
rest of the invariant never needs it.

For the outbox, `Pending` follows an edit of a room in the server's `room` that waits for
its echo: it is on its way up, or on its way down, or the welcome that makes
`onServerMessage` resend it is. `Retained` says that an insert that has left
the outbox is in the log; an echo clears by id, so it needs that whatever carries
the id of an insert comes after that insert in the log: users see elements of others only
when they are logged. `Delivered` says the same of deletes and the socket. When nothing
is on its way, `Flow` leaves no entry of the log missing, `Pending` no outbox entry
waiting, `Retained` and `Delivered` no edit out of the log, and equal sets of operations
give equal documents. A welcome and a broadcast are one lemma (`Takes`, `TakeKeepsInv`).

`SharedStoreProofs` proves, for every set of appends, joins and sweeps, both
backends and every bound:

- `TypeCorrect`: `[]TypeOK`; `HeadCoversTheLog`: `[]HeadCovers`
- `HeadDoesNotFall`: `HeadNeverFalls`
- `AckedStaysServed`: `[]AckedIsServed`; `JoinSeesTheLog`: `[]JoinSeesLog`;
  `StoreImplementsLog`: the refinement `ImplementsLog`

None has a premise: sweeps may overlap, meet half-done appends and die anywhere, and
the seed may come at any time. The exceptions are in the properties, as told above, and
the theorems say that there are no others.

Argument. `NumberInv` is inductive by itself, whatever runs together: in Postgres a
snapshot folds nothing above its version and a sweep's version is the largest number it read
(`LastIsOfARow`, from `MaxIsGreatest`); in Redis everything was counted by INCR. The
head is a maximum of a set whose finiteness is not needed, only a bound
(`OwnKeys`). For the log, `LogInv` holds while the store is `Intact`, which it never
becomes again (`DamageStays`): no step into an intact state starts a second sweep
(`StepsAlone`) or seeds a document in use (`SeedMeetsNothing`). It adds what the properties
do not say: a sweep that
has loaded works on the snapshot there is (`SweepInOrder`); every row at or below the version,
also the version about to be written, is folded, and every pending append has a
number above it, but for those that were outrun (`FoldedBelow`: `ReadLog` puts into `outrun`
just the appends that would break it); what LTRIM will drop, counted from the front, is folded
or was outrun (`TrimsFolded`); INCR gives no number twice (`OwnNumbers`); what a join found when
it began is still served, and is in what it has read unless rows were removed in between
(`JoinsKeep`). Then every step but `Store` and `Seed` leaves the log as it is (`SameLog`,
`ReadLogKeepsLog`, `WriteKeepsLog`, `TrimKeepsLog`, ...), and these two add
one entry with a number of its own (`Grows`): the steps of `OpLog`.

`DocumentsProofs` proves, for every set of users and requests and any number of links,
that `Spec` of `Documents` has every property of its run:

- `TypeCorrect`: `[]TypeOK`; `OneOwner`: `[]OwnerHolds`; `RolesAreShared`: `[]RolesWereShared`
- `OwnerIsNeverDemoted`: `OwnersStay`; `ChangesAreByRole`: `ChangedByRole`

Argument. A pending request carries what it was told when it was checked, so
what it may still do depends on what has happened to the document since. The
properties alone say nothing of that; `Inv` does, by the stages a document goes through as
long as no request of an earlier one has given a role in it (`Staged`): `Growing` (the row is
there, one request has yet to grant the owner's role), `Stuck` (that request died), `Claimed`.
Under `Claimed` every pending request that is not `late` is `Entitled`: an accept holds a link
the present owner signed and is not from the owner, a rename is from an editor, a removal from
the owner, and no grant is pending. When the id is created again every pending request becomes
late and every older link is no longer `signed`; `Grant` sets `haunted` when a late one
gives a role. `StepStaged` has one step for each action of
`Next`; the action properties follow from `Inv` and one step (`OwnerStep`,
`ChangeStep`).

`ClientsProofs` proves, for every set of clients and
instances, every routing of sockets to them (`Home`), every list of settings and
every bound on breaks, on handlers that throw and on handlers suspended at once, that `Spec` of
`Clients` has every invariant of the run `clients`:

- `TypeCorrect`: `[]TypeOK`; `EditsAreKept`: `[]NoEditLost`
- `RolesAreEnforced`: `[]RolesHold`; `NoGhostStays`: `[]NoFreshGhosts`
- `QuietIsShared`: `[]QuietMeansShared`

None has a premise: they hold however sockets break, pages are reloaded, records are saved
and handlers throw. Any number of clients edit, but each at most once
(`Edit`): that is a bound of the model which the theorems keep.

Argument. `ClientsTyping` first turns every action into facts about sets (what is on
its way up and down a socket, what its handlers have yet to do, what is on the bus)
and proves `Sound` inductive: the types, one number for each edit, a client has one
socket that may be open (`Sockets`), a socket has one replica (`Names`), and
whatever carries a number of the log carries the log's entry (`Heads`). Then:

- `NoEditLost` needs where edits come from (`Sources`): what is on its way is its
  author's or logged, so an echo or a welcome clears from an outbox only what
  is logged.
- `RolesHold` needs the same of every place on the way (`Roles`): a task past its
  check, but not yet done, is an editor's append; and a socket whose client has no
  role is bound to no replica, has no task that will welcome it, and is sent errors only.
- `NoFreshGhosts` follows a replica to its leave: an awareness on the bus has a
  socket of its replica still open, or a leave behind it in the same queue
  (`LeaveFollows`); a socket that was told anything is in the room, and stays
  there while it is open (`HeardInRoom`); so a replica that is shown and gone has its
  leave on the way (`GhostsLeave`).
- `QuietMeansShared` follows both directions. An entry of the log that a client's document
  lacks was missed (it lay below the head its socket joined from, or its spreading threw), or
  it is coming: in the answer to a join that is on its way, in a
  message to the socket, in a handler about to spread it or on the bus of its
  instance (`Joined`, `Coming`, `Reached`; `SinceGrows`: what a join will be
  answered only grows). An edit that an outbox holds is on its way
  up, in a suspended handler, in a message coming down, or was refused or rebuffed (`Queued`,
  `Drafts`); a provider pushes what its document has as soon as it joins (`Pushed`).
  When nothing is on its way, no entry is missing but the missed, and nothing is left to send
  but the rebuffed. A task that is gone was done or threw (`TasksLost`, `Threw`).

Only model-checked: `ImplementsText`, whose mapping filters the walk with a recursive
function of the sequence library, and liveness (`EventuallyAgreed`, `EventuallyShared`:
fairness and ENABLED are out of the prover's reach). Every other property of a
passing run is a theorem.

## Not modelled

Characters, parsing and logging; the pages; token signing; demo content, ports
and signals; the roles the seed grants directly (seed.ts:220); the provider's awareness
(y-protocols); two tabs that share one IndexedDB record; a lost publish, and a fan-out that
throws while it spreads; roles that change while a socket is open (`Documents` changes them,
`Hub` has them fixed). Compaction under
interleaved handlers is modelled where it matters, in `SharedStore`, and not
again in `Clients`, whose log is never compacted.

## Plan

Done: the CRDT with its proofs, snapshots, the plain-text relay with the
in-memory store, the shared stores against the abstract log, the asynchronous
Hub with both clients, documents and roles.

Next, proofs: the steps of `ImplementsText`, with the visible text as a filter the provers
can follow and `OrdersAgree` for the order of a document and of its paths.
