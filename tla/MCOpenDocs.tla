--------------------------- MODULE MCOpenDocs ---------------------------
(* OpenDocs with model values, for TLC. *)
EXTENDS OpenDocs, TLC

QuerySymmetry == Permutations(Queries)
=============================================================================
