------------------------ MODULE MCIncrementalIndex ------------------------
(* IncrementalIndex with model values, for TLC. *)
EXTENDS IncrementalIndex

CONSTANT First   \* what a file holds at first

\* The sources are there, the configs are there or not.
StartInit ==
    /\ Init
    /\ \A f \in Files : (f \in Sources \/ disk[f] # Absent) => disk[f] = First

StartSpec == StartInit /\ [][Next]_vars
=============================================================================
