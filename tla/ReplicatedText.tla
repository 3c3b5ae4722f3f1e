--------------------------- MODULE ReplicatedText ---------------------------
(***************************************************************************)
(* What the CRDT promises, without saying how: every replica holds a set   *)
(* of operations and shows a text that is a function of that set alone.    *)
(* The element order is defined here on paths from ROOT (an element comes  *)
(* before those below it, and where two paths part the later id comes      *)
(* first), with no tree, no sibling list and no order of arrival.          *)
(***************************************************************************)
EXTENDS OpId, Sequences, SequencesExt

VARIABLES
  held,     \* held[r]: the operations replica r has the effect of
  text      \* text[r]: what replica r shows, as a sequence of ids

textVars == <<held, text>>

TextOf(ops) ==
  LET ids    == InsertedIds(ops)
      parent == [id \in ids |-> (CHOOSE op \in Inserts(ops) : op.id = id).parent]
      path[id \in ids \cup {parent[i] : i \in ids}] ==
        IF id \in ids THEN path[parent[id]] \o <<id>> ELSE <<id>>
      Before(a, b) ==
        \/ IsStrictPrefix(path[a], path[b])
        \/ \E k \in DOMAIN path[a] \cap DOMAIN path[b] :
             /\ SubSeq(path[a], 1, k - 1) = SubSeq(path[b], 1, k - 1)
             /\ After(path[a][k], path[b][k])
      shown  == {id \in ids \ DeletedIds(ops) : path[id][1] = ROOT}
  IN  [i \in 1 .. Cardinality(shown) |->
         CHOOSE id \in shown : Cardinality({b \in shown : Before(b, id)}) = i - 1]

-----------------------------------------------------------------------------
TextInit ==
  /\ held = [r \in Replica |-> {}]
  /\ text = [r \in Replica |-> <<>>]

(* A local edit is a new operation, with exactly the effect its user saw.  *)
Type(r, new) ==
  \E op \in Inserts(new) :
    /\ new = {op}
    /\ \A s \in Replica : op.id \notin InsertedIds(held[s])
    /\ text'[r] \in {InsertAt(text[r], i, op.id) : i \in 1 .. Len(text[r]) + 1}

(* (Someone else may have issued the same delete concurrently.)            *)
Erase(r, new) ==
  \E op \in new \ Inserts(new) :
    /\ new = {op}
    /\ text'[r] \in {RemoveAt(text[r], i) : i \in {j \in DOMAIN text[r] : text[r][j] = op.id}}

(* Operations of other replicas arrive, any of them, in any order.         *)
Receive(new) == new \subseteq UNION {held[s] : s \in Replica}

(* Whatever the step, r shows the text of the operations it now holds.     *)
TextStep(r) ==
  /\ held[r] \subseteq held'[r]
  /\ \A s \in Replica \ {r} : held'[s] = held[s] /\ text'[s] = text[s]
  /\ LET new == held'[r] \ held[r]
     IN  Receive(new) \/ Type(r, new) \/ Erase(r, new)
  /\ text'[r] = TextOf(held'[r])

TextNext == \E r \in Replica : TextStep(r)

TextSpec == TextInit /\ [][TextNext]_textVars
=============================================================================
