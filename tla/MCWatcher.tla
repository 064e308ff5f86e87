---------------------------- MODULE MCWatcher ----------------------------
(* Watcher with model values, for TLC. *)
EXTENDS Watcher, TLC

CONSTANTS g, v

\* f may be there, g is; both were written just now.  Polling comes from a failing backend.
Recent ==
    /\ Init /\ mode = "events"
    /\ young = [f \in Files |-> TRUE] /\ disk \in [Files -> {v, Absent}] /\ disk[g] = v

FairRecentSpec == Recent /\ [][Next]_vars /\ Fairness
=============================================================================
