--------------------------- MODULE MCFreshness ---------------------------
(* Freshness with model values, for TLC. *)
EXTENDS Freshness, TLC

Symmetry == Permutations(Files) \cup Permutations(Queries)
=============================================================================
