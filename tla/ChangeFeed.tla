---------------------------- MODULE ChangeFeed ----------------------------
(***************************************************************************)
(* What a watcher promises its consumer, however it finds changes: once it *)
(* has a baseline it knows each file as it was at the last look, and a     *)
(* look that finds something else than the look before owes the consumer   *)
(* that file until it is told.                                             *)
(***************************************************************************)
CONSTANTS Files, Contents, Absent,
          Unread                     \* a file that is there, but whose content is not known

VARIABLES disk,      \* what each file holds
          hidden,    \* files the ignore rules leave out
          sealed,    \* is there a baseline?
          seen,      \* each file at the last look
          owed       \* files the consumer has still to be told of

feedVars == <<disk, hidden, sealed, seen, owed>>

Init ==
    /\ disk \in [Files -> Contents \cup {Absent}] /\ hidden \in SUBSET Files
    /\ sealed = FALSE /\ seen = [f \in Files |-> Absent] /\ owed = {}

Change ==
    /\ disk' \in [Files -> Contents \cup {Absent}] /\ hidden' \in SUBSET Files
    /\ UNCHANGED <<sealed, seen, owed>>

\* What a look at f may find.  It takes two steps, the second of which reads: a file hidden or
\* deleted between them is still found.
Finds(f) ==
    (IF disk[f] = Absent THEN {Unread} ELSE {disk[f]})
    \cup (IF disk[f] = Absent \/ f \in hidden THEN {Absent} ELSE {})

\* What was unread before may be filled in without a report.
Look(f) ==
    /\ \E v \in Finds(f) :
         /\ seen' = [seen EXCEPT ![f] = v]
         /\ \/ owed' = owed \cup {f}
            \/ (sealed => seen[f] \in {v, Unread}) /\ UNCHANGED owed
    /\ UNCHANGED <<disk, hidden, sealed>>

Seal == sealed' = TRUE /\ UNCHANGED <<disk, hidden, seen, owed>>

\* The consumer is never told too much: a file may be reported without having changed.
Owe(S) == owed' = owed \cup S /\ UNCHANGED <<disk, hidden, sealed, seen>>
Deliver(S) == owed' = owed \ S /\ UNCHANGED <<disk, hidden, sealed, seen>>

Next == \/ Change \/ Seal
        \/ \E f \in Files : Look(f)
        \/ \E S \in SUBSET Files : Owe(S) \/ Deliver(S)

Spec == Init /\ [][Next]_feedVars
=============================================================================
