---------------------------- MODULE MemoryStore -----------------------------
(***************************************************************************)
(* InMemoryDocStore (apps/server/src/store.ts) for one document, and the   *)
(* compactor of plain-text documents (compactor.ts).  Every method runs    *)
(* without awaiting anything, so each is one operator on the DocState:     *)
(*   ops       the stored operations not yet folded, [seq, op]             *)
(*   seq       the last sequence number given out                          *)
(*   snapshot  the folded prefix, [version, nodes], or NoSnapshot          *)
(* The replica an operation is stored with is never read back.             *)
(***************************************************************************)
EXTENDS RGA

NoSnapshot == [version |-> 0, nodes |-> <<>>]

EmptyStore == [ops |-> <<>>, seq |-> 0, snapshot |-> NoSnapshot]

StoredOp(seq, op) == [seq |-> seq, op |-> op]

(* A slip: two operations get the same number. *)
Append1Unnumbered(s, op) == [s EXCEPT !.ops = Append(@, StoredOp(s.seq + 1, op))]

Append1(s, op) ==
  [ops |-> Append(s.ops, StoredOp(s.seq + 1, op)), seq |-> s.seq + 1, snapshot |-> s.snapshot]

(* The elements of a list that are in a set, in their order. *)
Kept(list, set) ==
  FoldLeft(LAMBDA kept, x : IF x \in set THEN Append(kept, x) ELSE kept, <<>>, list)

NumberedAbove(ops, n) == Kept(ops, {o \in Range(ops) : o.seq > n})

(* A slip: the operation numbered like the caller's head is taken as new.  *)
SinceSkipsOne(s, after) == NumberedAbove(s.ops, after + 1)

Since(s, after) == NumberedAbove(s.ops, after)

Head1(s) == IF s.seq > s.snapshot.version THEN s.seq ELSE s.snapshot.version

(* rgaCompactor: a document read back from the snapshot, then the ops.     *)
ApplyStored(d, o) == Apply(d, o.op)

Fold(snapshot, ops) ==
  Snapshot(FoldLeft(ApplyStored, FromSnapshot(snapshot.nodes), ops))

(* A slip: the ops are folded without what was folded before. *)
CompactForgets(s) ==
  LET ops == Since(s, s.snapshot.version) IN
  IF ops = <<>> THEN s
  ELSE [s EXCEPT !.snapshot = [version |-> Last(ops).seq, nodes |-> Fold(NoSnapshot, ops)],
                 !.ops = NumberedAbove(@, Last(ops).seq)]

Compact(s) ==
  LET ops     == Since(s, s.snapshot.version)
      version == Last(ops).seq
  IN  IF ops = <<>> THEN s
      ELSE [ops      |-> NumberedAbove(s.ops, version),
            seq      |-> s.seq,
            snapshot |-> [version |-> version, nodes |-> Fold(s.snapshot, ops)]]
=============================================================================
