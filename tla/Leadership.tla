----------------------------- MODULE Leadership -----------------------------
(***************************************************************************)
(* What sharing one index amounts to: every session may lead once, and     *)
(* never while another one leads.  A session that has led, or that leaves  *)
(* without having led, is done with it for good.                           *)
(***************************************************************************)
CONSTANT Sessions

VARIABLE tenure     \* of each session: before, leading or over

Init == tenure = [p \in Sessions |-> "before"]

Lead(p) ==
    /\ tenure[p] = "before"
    /\ \A q \in Sessions : tenure[q] # "leading"
    /\ tenure' = [tenure EXCEPT ![p] = "leading"]

Leave(p) ==
    /\ tenure[p] # "over"
    /\ tenure' = [tenure EXCEPT ![p] = "over"]

Next == \E p \in Sessions : Lead(p) \/ Leave(p)

Spec == Init /\ [][Next]_tenure
=============================================================================
