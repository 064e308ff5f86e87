---------------------------- MODULE MCSharedIndex ----------------------------
(* Small instances of SharedIndex for TLC. *)
EXTENDS SharedIndex, TLC

\* Sessions of no special kind are interchangeable; the runs that use this put
\* all of them or none into Mortal and Callers.
SessionSymmetry == Permutations(Sessions \ (Loners \cup Odd \cup Unbindable))
=============================================================================
