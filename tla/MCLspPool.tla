------------------------------ MODULE MCLspPool ------------------------------
(* Instances of LspPool for TLC. *)
EXTENDS LspPool, TLC

\* Clients are interchangeable.  Only for instances that check safety alone:
\* with liveness properties the reduction is not sound.
ClientSymmetry == Permutations(Clients)
=============================================================================
