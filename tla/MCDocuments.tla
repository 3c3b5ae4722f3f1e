----------------------------- MODULE MCDocuments -----------------------------
(* Documents, for TLC: users and requests are interchangeable.  The search  *)
(* does not go on from a state with more than MaxLinks share links.         *)
EXTENDS Documents, Naturals, TLC

CONSTANT MaxLinks

Symmetry == Permutations(User) \cup Permutations(Request)
FewLinks == Cardinality(links) <= MaxLinks
=============================================================================
