--------------------------- MODULE MCSharedStore ----------------------------
(* SharedStore, for TLC: appends and sweeps are interchangeable. *)
EXTENDS SharedStore, TLC

Symmetry == Permutations(Writers) \cup Permutations(Sweeps)
=============================================================================
