-------------------------- MODULE RootIndexProofs ------------------------------
(******************************************************************************)
(* Theorems of RootIndex, for any files, contents, queries and edits.         *)
(*                                                                            *)
(* That no write is lost is not inductive: what the served index misses is    *)
(* one thing, what a build has read and will publish over it another.  The    *)
(* invariant follows every copy of the index that may be published (the       *)
(* graph, the base of the apply or publication under way, what the cold       *)
(* build and the rebuild have read) and says where the difference between     *)
(* it and the disk is kept:                                                   *)
(*   TypeInv     types, and one trigger at a time                             *)
(*   PhaseInv    who may hold `pending` in which phase of the builds          *)
(*   HistoryInv  the watcher's snapshot holds states the file has had         *)
(*   TruthInv    a recorded removal stays true                                *)
(*   CoverInv    each copy is current, or covered                             *)
(* The last two speak of the files that never return to an earlier state: a   *)
(* file that does costs no other file a write.                                *)
(******************************************************************************)
EXTENDS RootIndex, TLAPS

\* What the operators on change sets and indexes return.
LEMMA MergeType ==
    ASSUME NEW a \in ChangeSets, NEW b \in ChangeSets PROVE Merge(a, b) \in ChangeSets
  BY DEF Merge, ChangeSets

LEMMA ObservedType == ASSUME NEW S PROVE Observed(S) \in ChangeSets
  BY DEF Observed, ChangeSets

LEMMA AppliedType ==
    ASSUME NEW base \in Graphs, NEW c \in ChangeSets, disk \in Graphs
    PROVE Applied(base, c) \in Graphs
  BY DEF Applied, ChangeSets, Graphs, States

LEMMA NoneType == NoChange \in ChangeSets /\ NothingRead \in Graphs /\ Idle.base \in Graphs
  BY DEF NoChange, ChangeSets, NothingRead, Graphs, States, Idle

\* What ApplyPending leaves of the job and the sets it moves.
LEMMA ApplyPendingType ==
    ASSUME TypeOK, NEW t \in Threads, NEW c \in ChangeSets, owner = "nobody", ApplyPending(t, c)
    PROVE  /\ owner' \in {t, "nobody"}
           /\ job' \in [step : {"none", "all", "newer", "publish", "journal", "note"},
                       base : Graphs, older : ChangeSets, newer : ChangeSets, left : ChangeSets]
           /\ job'.step = "none" <=> owner' = "nobody"
           /\ index = "ready" /\ unapplied # NoChange => owner' = t
           /\ pending' \in ChangeSets /\ unapplied' \in ChangeSets
  BY MergeType, NoneType, RootIndexAssumption DEF TypeOK, ApplyPending, Threads

\* A trigger that has claimed the rebuild is alone and the rebuild waits for it.
TriggerInv ==
    /\ \A q \in Queries : query[q] \in {"clear", "hand"} => rebuild = "claimed"
    /\ \A q, r \in Queries :
          query[q] \in {"clear", "hand"} /\ query[r] \in {"clear", "hand"} => q = r

TypeInv == TypeOK /\ TriggerInv

LEMMA TypeInit == Init => TypeInv
<1> SUFFICES ASSUME Init PROVE TypeInv
  OBVIOUS
<1>1. disk \in Graphs /\ had \in [Files -> SUBSET States] /\ seen \in Graphs /\ graph \in Graphs
  BY DEF Init, Graphs, States
<1>2. edits \in 0..MaxEdits
  BY RootIndexAssumption DEF Init
<1>3. /\ job \in [step : {"none", "all", "newer", "publish", "journal", "note"}, base : Graphs,
                  older : ChangeSets, newer : ChangeSets, left : ChangeSets]
      /\ job.step = "none"
  BY NoneType DEF Init, Idle
<1>4. repair \in [Queries -> ChangeSets] /\ query = [q \in Queries |-> "idle"]
  BY NoneType DEF Init
<1> QED
  BY <1>1, <1>2, <1>3, <1>4, NoneType, RootIndexAssumption
     DEF Init, TypeInv, TriggerInv, TypeOK, Threads

LEMMA TypeStep == TypeInv /\ [Next]_vars => TypeInv'
<1> SUFFICES ASSUME TypeInv, [Next]_vars PROVE TypeInv'
  OBVIOUS
<1> USE NoneType, RootIndexAssumption DEF TypeInv, TriggerInv, TypeOK, Threads,
           diskVars, watchVars, buildVars, healthVars
<1>1. ASSUME NEW f \in Files, NEW c \in States, Edit(f, c) PROVE TypeInv'
  BY <1>1 DEF Edit, Graphs, States
<1>2. ASSUME WatcherSeals PROVE TypeInv'
  BY <1>2 DEF WatcherSeals
<1>3. ASSUME NEW S \in SUBSET Files, WatcherChecks(S) PROVE TypeInv'
  BY <1>3, MergeType, ObservedType DEF WatcherChecks, Graphs
<1>4. ASSUME ReindexTakes PROVE TypeInv'
  BY <1>4 DEF ReindexTakes
<1>5. ASSUME ReindexApplies PROVE TypeInv'
  BY <1>5, ApplyPendingType DEF ReindexApplies
<1>6. ASSUME TryAll PROVE TypeInv'
  BY ZenonT(90), <1>6, MergeType, AppliedType DEF TryAll, Later
<1>7. ASSUME TryNewer PROVE TypeInv'
  BY ZenonT(90), <1>7, MergeType, AppliedType DEF TryNewer, Later
<1>8. ASSUME Publish PROVE TypeInv'
  BY <1>8 DEF Publish, Idle
<1>9. ASSUME Journal PROVE TypeInv'
  BY <1>9, MergeType DEF Journal
<1>10. ASSUME Note PROVE TypeInv'
  BY <1>10, MergeType DEF Note, Idle
<1>11. ASSUME ColdStarts PROVE TypeInv'
  BY <1>11 DEF ColdStarts
<1>12. ASSUME ColdReads PROVE TypeInv'
  BY <1>12 DEF ColdReads
<1>13. ASSUME ColdDrains PROVE TypeInv'
  BY <1>13 DEF ColdDrains
<1>14. ASSUME ColdFails PROVE TypeInv'
  BY <1>14 DEF ColdFails
<1>15. ASSUME RebuildReads PROVE TypeInv'
  BY <1>15 DEF RebuildReads
<1>16. ASSUME RebuildSettles PROVE TypeInv'
  BY <1>16, MergeType DEF RebuildSettles
<1>17. ASSUME RebuildReplays PROVE TypeInv'
  BY <1>17, MergeType DEF RebuildReplays
<1>18. ASSUME RebuildEnds PROVE TypeInv'
  BY <1>18 DEF RebuildEnds
<1>19. ASSUME NEW q \in Queries, NEW S \in SUBSET Touched, RepairClassifies(q, S)
      PROVE  TypeInv'
  BY <1>19, ObservedType DEF RepairClassifies
<1>20. ASSUME NEW q \in Queries, RepairNoted(q) PROVE TypeInv'
  BY <1>20 DEF RepairNoted, Paths
<1>21. ASSUME NEW q \in Queries, RepairApplies(q) PROVE TypeInv'
  <2>1. /\ ApplyPending(q, repair[q]) /\ repair[q] \in ChangeSets
        /\ owner = "nobody" /\ q \in Threads
    BY <1>21 DEF RepairApplies
  <2>2. /\ owner' \in {q, "nobody"}
        /\ job' \in [step : {"none", "all", "newer", "publish", "journal", "note"},
                    base : Graphs, older : ChangeSets, newer : ChangeSets, left : ChangeSets]
        /\ job'.step = "none" <=> owner' = "nobody"
        /\ index = "ready" /\ unapplied # NoChange => owner' = q
        /\ pending' \in ChangeSets /\ unapplied' \in ChangeSets
    BY <2>1, ApplyPendingType
  <2> QED
    BY <1>21, <2>2 DEF RepairApplies
<1>22. ASSUME NEW q \in Queries, QueryRetries(q) PROVE TypeInv'
  <2>1. /\ ApplyPending(q, NoChange) /\ NoChange \in ChangeSets
        /\ owner = "nobody" /\ q \in Threads
    BY <1>22 DEF QueryRetries
  <2>2. /\ owner' \in {q, "nobody"}
        /\ job' \in [step : {"none", "all", "newer", "publish", "journal", "note"},
                    base : Graphs, older : ChangeSets, newer : ChangeSets, left : ChangeSets]
        /\ job'.step = "none" <=> owner' = "nobody"
        /\ index = "ready" /\ unapplied # NoChange => owner' = q
        /\ pending' \in ChangeSets /\ unapplied' \in ChangeSets
    BY <2>1, ApplyPendingType
  <2> QED
    BY <1>22, <2>2 DEF QueryRetries
<1>23. ASSUME NEW q \in Queries, RebuildClaimed(q) PROVE TypeInv'
  BY <1>23 DEF RebuildClaimed
<1>24. ASSUME NEW q \in Queries, JournalCleared(q) PROVE TypeInv'
  BY <1>24 DEF JournalCleared
<1>25. ASSUME NEW q \in Queries, FailuresHanded(q) PROVE TypeInv'
  BY <1>25, MergeType DEF FailuresHanded
<1>26. CASE UNCHANGED vars
  BY <1>26 DEF vars
<1> QED
  BY <1>1, <1>2, <1>3, <1>4, <1>5, <1>6, <1>7, <1>8, <1>9, <1>10, <1>11, <1>12, <1>13, <1>14,
     <1>15, <1>16, <1>17, <1>18, <1>19, <1>20, <1>21, <1>22, <1>23, <1>24, <1>25, <1>26
     DEF Next, Watcher, Reindexer, Apply, Cold, Rebuild, Repair, Trigger

--------------------------------------------------------------------------------
(******************************************************************************)
(* Phases, the history of the disk, and the truth of the change sets.         *)
(******************************************************************************)
\* The files that never return to a state they have had.
Steady == Files \ Returning

\* f has been a file, and is none any more.
Existed(f) == \E c \in had[f] : c # Absent
Gone(f) == disk[f] = Absent /\ Existed(f)

\* The removals c records are real.
Truthful(c) == \A f \in Steady : c[f] = "removed" => Gone(f)

\* What the watcher or a change set on its way will still bring.
Ahead(f) ==
    \/ seen[f] # disk[f] \/ f \in repaired
    \/ queue[f] # "none" \/ batch[f] # "none" \/ pending[f] # "none" \/ unapplied[f] # "none"

\* What the apply or publication under way covers.
InJob(f) == job.older[f] # "none" \/ job.newer[f] # "none"
Builds == {"cold", "rebuild"}

\* Until the cold build is over nobody else applies or rebuilds; afterwards there is an outcome.
PhaseInv ==
    /\ ~sealed => cold = "waiting"
    /\ cold # "done" => index = "building" /\ rebuild = "idle" /\ owner \in {"nobody", "cold"}
    /\ cold = "done" => index # "building"
    /\ owner \notin {"nobody"} \cup Builds => index = "ready"
    /\ owner \in Builds => job.step # "journal"
    /\ job.step \in {"none", "all", "newer"} => job.left = NoChange

\* Files that were noted have existed, and the snapshot was true once.
HistoryInv ==
    \A f \in Files :
        /\ disk[f] \in had[f]
        /\ sealed => seen[f] \in had[f]
        /\ f \in repaired => Existed(f)
        /\ \A q \in Queries : repair[q][f] # "none" => Existed(f)

\* Every change set, wherever it is.
TruthInv ==
    /\ Truthful(queue) /\ Truthful(batch) /\ Truthful(pending) /\ Truthful(journal)
    /\ Truthful(unapplied) /\ Truthful(inRebuild)
    /\ Truthful(job.older) /\ Truthful(job.newer) /\ Truthful(job.left)
    /\ \A q \in Queries : Truthful(repair[q])

\* The operators, file by file.
LEMMA NoneAt == \A f \in Files : NoChange[f] = "none"
  BY DEF NoChange
LEMMA MergeAt ==
    ASSUME NEW a, NEW b, NEW f \in Files
    PROVE Merge(a, b)[f] = IF b[f] = "none" THEN a[f] ELSE b[f]
  BY DEF Merge
LEMMA ObservedAt ==
    ASSUME NEW S, NEW f \in Files
    PROVE Observed(S)[f] = IF f \notin S THEN "none"
                           ELSE IF disk[f] = Absent THEN "removed" ELSE "present"
  BY DEF Observed

LEMMA PhaseInit == Init => PhaseInv
  BY DEF Init, PhaseInv, Builds, Idle

LEMMA PhaseStep ==
    ASSUME ~RebuildWhileBuilding, TypeInv, PhaseInv, [Next]_vars PROVE PhaseInv'
<1> USE RootIndexAssumption DEF TypeInv, TriggerInv, TypeOK, PhaseInv, Builds, Threads,
           diskVars, watchVars, buildVars, healthVars
<1>1. ASSUME NEW f \in Files, NEW c \in States, Edit(f, c) PROVE PhaseInv'
  BY <1>1 DEF Edit
<1>2. ASSUME WatcherSeals PROVE PhaseInv'
  BY <1>2 DEF WatcherSeals
<1>3. ASSUME NEW S \in SUBSET Files, WatcherChecks(S) PROVE PhaseInv'
  BY <1>3 DEF WatcherChecks
<1>4. ASSUME ReindexTakes PROVE PhaseInv'
  BY <1>4 DEF ReindexTakes
<1>5. ASSUME ReindexApplies PROVE PhaseInv'
  BY <1>5 DEF ReindexApplies, ApplyPending
<1>6. ASSUME TryAll PROVE PhaseInv'
  BY <1>6 DEF TryAll, Later
<1>7. ASSUME TryNewer PROVE PhaseInv'
  BY <1>7 DEF TryNewer, Later
<1>8. ASSUME Publish PROVE PhaseInv'
  BY <1>8 DEF Publish, Idle
<1>9. ASSUME Journal PROVE PhaseInv'
  BY <1>9 DEF Journal
<1>10. ASSUME Note PROVE PhaseInv'
  BY <1>10 DEF Note, Idle
<1>11. ASSUME ColdStarts PROVE PhaseInv'
  BY <1>11 DEF ColdStarts
<1>12. ASSUME ColdReads PROVE PhaseInv'
  BY <1>12 DEF ColdReads
<1>13. ASSUME ColdDrains PROVE PhaseInv'
  BY <1>13 DEF ColdDrains
<1>14. ASSUME ColdFails PROVE PhaseInv'
  BY <1>14 DEF ColdFails
<1>15. ASSUME RebuildReads PROVE PhaseInv'
  BY <1>15 DEF RebuildReads
<1>16. ASSUME RebuildSettles PROVE PhaseInv'
  BY <1>16 DEF RebuildSettles
<1>17. ASSUME RebuildReplays PROVE PhaseInv'
  BY <1>17 DEF RebuildReplays
<1>18. ASSUME RebuildEnds PROVE PhaseInv'
  BY <1>18 DEF RebuildEnds
<1>19. ASSUME NEW q \in Queries, NEW S \in SUBSET Touched, RepairClassifies(q, S)
      PROVE  PhaseInv'
  BY <1>19 DEF RepairClassifies
<1>20. ASSUME NEW q \in Queries, RepairNoted(q) PROVE PhaseInv'
  BY <1>20 DEF RepairNoted
<1>21. ASSUME NEW q \in Queries, RepairApplies(q) PROVE PhaseInv'
  BY <1>21 DEF RepairApplies, ApplyPending
<1>22. ASSUME NEW q \in Queries, QueryRetries(q) PROVE PhaseInv'
  BY <1>22 DEF QueryRetries, ApplyPending
<1>23. ASSUME NEW q \in Queries, RebuildClaimed(q) PROVE PhaseInv'
  BY <1>23 DEF RebuildClaimed
<1>24. ASSUME NEW q \in Queries, JournalCleared(q) PROVE PhaseInv'
  BY <1>24 DEF JournalCleared
<1>25. ASSUME NEW q \in Queries, FailuresHanded(q) PROVE PhaseInv'
  BY <1>25 DEF FailuresHanded
<1>26. CASE UNCHANGED vars
  BY <1>26 DEF vars
<1> QED
  BY <1>1, <1>2, <1>3, <1>4, <1>5, <1>6, <1>7, <1>8, <1>9, <1>10, <1>11, <1>12, <1>13, <1>14,
     <1>15, <1>16, <1>17, <1>18, <1>19, <1>20, <1>21, <1>22, <1>23, <1>24, <1>25, <1>26
     DEF Next, Watcher, Reindexer, Apply, Cold, Rebuild, Repair, Trigger

LEMMA HistoryInit == Init => HistoryInv /\ TruthInv
  BY NoneAt DEF Init, HistoryInv, TruthInv, Truthful, Steady, Idle

LEMMA HistoryStep ==
    ASSUME TypeInv, PhaseInv, HistoryInv, [Next]_vars PROVE HistoryInv'
<1> USE DEF TypeInv, TypeOK, HistoryInv, diskVars, watchVars, buildVars, healthVars
<1>1. ASSUME NEW f \in Files, NEW c \in States, Edit(f, c) PROVE HistoryInv'
  BY <1>1 DEF Edit, Existed
<1>2. ASSUME WatcherSeals PROVE HistoryInv'
  BY <1>2 DEF WatcherSeals, Existed
<1>3. ASSUME NEW S \in SUBSET Files, WatcherChecks(S) PROVE HistoryInv'
  BY <1>3 DEF WatcherChecks, Existed
<1>4. ASSUME ReindexTakes PROVE HistoryInv'
  BY <1>4 DEF ReindexTakes, Existed
<1>5. ASSUME ReindexApplies PROVE HistoryInv'
  BY <1>5 DEF ReindexApplies, Existed
<1>6. ASSUME TryAll PROVE HistoryInv'
  BY <1>6 DEF TryAll, Existed
<1>7. ASSUME TryNewer PROVE HistoryInv'
  BY <1>7 DEF TryNewer, Existed
<1>8. ASSUME Publish PROVE HistoryInv'
  BY <1>8 DEF Publish, Existed
<1>9. ASSUME Journal PROVE HistoryInv'
  BY <1>9 DEF Journal, Existed
<1>10. ASSUME Note PROVE HistoryInv'
  BY <1>10 DEF Note, Existed
<1>11. ASSUME ColdStarts PROVE HistoryInv'
  BY <1>11 DEF ColdStarts, Existed
<1>12. ASSUME ColdReads PROVE HistoryInv'
  BY <1>12 DEF ColdReads, Existed
<1>13. ASSUME ColdDrains PROVE HistoryInv'
  BY <1>13 DEF ColdDrains, Existed
<1>14. ASSUME ColdFails PROVE HistoryInv'
  BY <1>14 DEF ColdFails, Existed
<1>15. ASSUME RebuildReads PROVE HistoryInv'
  BY <1>15 DEF RebuildReads, Existed
<1>16. ASSUME RebuildSettles PROVE HistoryInv'
  BY <1>16 DEF RebuildSettles, Existed
<1>17. ASSUME RebuildReplays PROVE HistoryInv'
  BY <1>17 DEF RebuildReplays, Existed
<1>18. ASSUME RebuildEnds PROVE HistoryInv'
  BY <1>18 DEF RebuildEnds, Existed
<1>19. ASSUME NEW q \in Queries, NEW S \in SUBSET Touched, RepairClassifies(q, S)
      PROVE  HistoryInv'
  BY <1>19, ObservedAt DEF RepairClassifies, Observed, Touched, Existed
<1>20. ASSUME NEW q \in Queries, RepairNoted(q) PROVE HistoryInv'
  BY <1>20 DEF RepairNoted, Paths, Existed
<1>21. ASSUME NEW q \in Queries, RepairApplies(q) PROVE HistoryInv'
  BY <1>21, NoneAt DEF RepairApplies, Existed
<1>22. ASSUME NEW q \in Queries, QueryRetries(q) PROVE HistoryInv'
  BY <1>22 DEF QueryRetries, Existed
<1>23. ASSUME NEW q \in Queries, RebuildClaimed(q) PROVE HistoryInv'
  BY <1>23 DEF RebuildClaimed, Existed
<1>24. ASSUME NEW q \in Queries, JournalCleared(q) PROVE HistoryInv'
  BY <1>24 DEF JournalCleared, Existed
<1>25. ASSUME NEW q \in Queries, FailuresHanded(q) PROVE HistoryInv'
  BY <1>25 DEF FailuresHanded, Existed
<1>26. CASE UNCHANGED vars
  BY <1>26 DEF vars, Existed
<1> QED
  BY <1>1, <1>2, <1>3, <1>4, <1>5, <1>6, <1>7, <1>8, <1>9, <1>10, <1>11, <1>12, <1>13, <1>14,
     <1>15, <1>16, <1>17, <1>18, <1>19, <1>20, <1>21, <1>22, <1>23, <1>24, <1>25, <1>26
     DEF Next, Watcher, Reindexer, Apply, Cold, Rebuild, Repair, Trigger

\* A file that does not return and is gone stays gone.
LEMMA GoneStays ==
    ASSUME TypeInv, HistoryInv, [Next]_vars, NEW g \in Steady, Gone(g)
    PROVE  Gone(g)'
<1> USE DEF TypeInv, TypeOK, HistoryInv, Steady, Gone, Existed
<1>1. ASSUME NEW f \in Files, NEW c \in States, Edit(f, c) PROVE Gone(g)'
  BY <1>1 DEF Edit
<1>2. ASSUME UNCHANGED diskVars PROVE Gone(g)'
  BY <1>2 DEF diskVars
<1>3. (\E f \in Files, c \in States : Edit(f, c)) \/ UNCHANGED diskVars
  BY DEF Next, vars, Watcher, Reindexer, Apply, Cold, Rebuild, Repair, Trigger, WatcherSeals,
    WatcherChecks, ReindexTakes, ReindexApplies, TryAll, TryNewer, Publish, Journal, Note,
    ColdStarts, ColdReads, ColdDrains, ColdFails, RebuildReads, RebuildSettles, RebuildReplays,
    RebuildEnds, RepairClassifies, RepairNoted, RepairApplies, QueryRetries, RebuildClaimed,
    JournalCleared, FailuresHanded
<1> QED
  BY <1>1, <1>2, <1>3

\* A look at files that have existed records true removals.
LEMMA ObservedTruth ==
    ASSUME NEW S \in SUBSET Files, \A f \in S : Existed(f)
    PROVE Truthful(Observed(S))
  BY ObservedAt DEF Truthful, Gone, Steady

LEMMA TruthStep ==
    ASSUME TypeInv, PhaseInv, HistoryInv, TruthInv, [Next]_vars PROVE TruthInv'
<1> USE GoneStays DEF TypeInv, TypeOK, TruthInv, Truthful, Steady,
        diskVars, watchVars, buildVars, healthVars
<1>1. ASSUME NEW f \in Files, NEW c \in States, Edit(f, c) PROVE TruthInv'
  BY <1>1 DEF Edit
<1>2. ASSUME WatcherSeals PROVE TruthInv'
  BY <1>2 DEF WatcherSeals
<1>3. ASSUME NEW S \in SUBSET Files, WatcherChecks(S) PROVE TruthInv'
  <2>1. \A f \in S : Existed(f)
    BY <1>3 DEF WatcherChecks, HistoryInv, Existed
  <2>2. Truthful(Observed(S))
    BY <2>1, ObservedTruth
  <2> QED
    BY <1>3, <2>2, MergeAt, NoneAt DEF WatcherChecks
<1>4. ASSUME ReindexTakes PROVE TruthInv'
  BY <1>4, NoneAt DEF ReindexTakes
<1>5. ASSUME ReindexApplies PROVE TruthInv'
  BY <1>5, MergeAt, NoneAt DEF ReindexApplies, ApplyPending
<1>6. ASSUME TryAll PROVE TruthInv'
  BY <1>6, MergeAt, NoneAt DEF TryAll
<1>7. ASSUME TryNewer PROVE TruthInv'
  BY <1>7, MergeAt, NoneAt DEF TryNewer
<1>8. ASSUME Publish PROVE TruthInv'
  BY <1>8, NoneAt DEF Publish, Idle
<1>9. ASSUME Journal PROVE TruthInv'
  BY <1>9, MergeAt, NoneAt DEF Journal
<1>10. ASSUME Note PROVE TruthInv'
  BY <1>10, MergeAt, NoneAt DEF Note, Idle
<1>11. ASSUME ColdStarts PROVE TruthInv'
  BY <1>11 DEF ColdStarts
<1>12. ASSUME ColdReads PROVE TruthInv'
  BY <1>12 DEF ColdReads
<1>13. ASSUME ColdDrains PROVE TruthInv'
  BY <1>13, NoneAt DEF ColdDrains
<1>14. ASSUME ColdFails PROVE TruthInv'
  BY <1>14 DEF ColdFails
<1>15. ASSUME RebuildReads PROVE TruthInv'
  BY <1>15 DEF RebuildReads
<1>16. ASSUME RebuildSettles PROVE TruthInv'
  BY <1>16, MergeAt, NoneAt DEF RebuildSettles
<1>17. ASSUME RebuildReplays PROVE TruthInv'
  BY <1>17, MergeAt, NoneAt DEF RebuildReplays
<1>18. ASSUME RebuildEnds PROVE TruthInv'
  BY <1>18 DEF RebuildEnds
<1>19. ASSUME NEW q \in Queries, NEW S \in SUBSET Touched, RepairClassifies(q, S)
      PROVE  TruthInv'
  <2>1. \A f \in S : Existed(f)
    BY <1>19 DEF RepairClassifies, HistoryInv, Existed, Touched
  <2>2. Truthful(Observed(S))
    BY <2>1, ObservedTruth DEF Touched
  <2> QED
    BY <1>19, <2>2, MergeAt, NoneAt DEF RepairClassifies
<1>20. ASSUME NEW q \in Queries, RepairNoted(q) PROVE TruthInv'
  BY <1>20 DEF RepairNoted
<1>21. ASSUME NEW q \in Queries, RepairApplies(q) PROVE TruthInv'
  BY <1>21, MergeAt, NoneAt DEF RepairApplies, ApplyPending
<1>22. ASSUME NEW q \in Queries, QueryRetries(q) PROVE TruthInv'
  BY <1>22, MergeAt, NoneAt DEF QueryRetries, ApplyPending
<1>23. ASSUME NEW q \in Queries, RebuildClaimed(q) PROVE TruthInv'
  BY <1>23 DEF RebuildClaimed
<1>24. ASSUME NEW q \in Queries, JournalCleared(q) PROVE TruthInv'
  BY <1>24, NoneAt DEF JournalCleared
<1>25. ASSUME NEW q \in Queries, FailuresHanded(q) PROVE TruthInv'
  BY <1>25, MergeAt, NoneAt DEF FailuresHanded
<1>26. CASE UNCHANGED vars
  BY <1>26 DEF vars
<1> QED
  BY <1>1, <1>2, <1>3, <1>4, <1>5, <1>6, <1>7, <1>8, <1>9, <1>10, <1>11, <1>12, <1>13, <1>14,
     <1>15, <1>16, <1>17, <1>18, <1>19, <1>20, <1>21, <1>22, <1>23, <1>24, <1>25, <1>26
     DEF Next, Watcher, Reindexer, Apply, Cold, Rebuild, Repair, Trigger

--------------------------------------------------------------------------------
(******************************************************************************)
(* Coverage.  A file in which a copy of the index differs from the disk is in *)
(* the watcher's hands or in a change set that will reach that copy.          *)
(******************************************************************************)
GraphCovered ==
    index = "ready" /\ rebuild \notin {"built", "publishing"} =>
        \A f \in Steady :
            \/ graph[f] = disk[f] \/ Ahead(f) \/ inRebuild[f] # "none" \/ job.left[f] # "none"
            \/ job.step \in {"all", "newer", "publish"} /\ InJob(f)

\* An apply works on the served index and publishes what is left of the difference.
ApplyCovered ==
    owner \notin {"nobody"} \cup Builds =>
        /\ job.step \in {"all", "newer"} => job.base = graph
        /\ job.step = "publish" /\ rebuild \notin {"built", "publishing"} =>
            \A f \in Steady : \/ job.base[f] = disk[f] \/ Ahead(f)
                             \/ inRebuild[f] # "none" \/ job.left[f] # "none"

\* What a build publishes: failures are noted before, changes of the meantime replayed.
BuildCovered ==
    owner \in Builds =>
        \A f \in Steady :
            \/ job.base[f] = disk[f] \/ Ahead(f)
            \/ job.step \in {"all", "newer"} /\ InJob(f)
            \/ job.step = "note" /\ job.left[f] # "none"

\* What the cold build has read: changes since then wait in `pending`.
ColdCovered == cold = "built" => \A f \in Steady : coldRead[f] = disk[f] \/ Ahead(f)

\* What the rebuild has read: applies since then are journalled.
RebuildCovered ==
    rebuild \in {"read", "built"} =>
        \A f \in Steady :
            \/ rebuildRead[f] = disk[f] \/ Ahead(f)
            \/ journal[f] # "none" \/ job.left[f] # "none"
            \/ job.step \in {"all", "newer", "publish", "journal"} /\ InJob(f)

CoverInv == GraphCovered /\ ApplyCovered /\ BuildCovered /\ ColdCovered /\ RebuildCovered

\* Truthful sets stay truthful when merged, and applying one brings its files up to date.
LEMMA MergeTruth ==
    ASSUME NEW a, NEW b, Truthful(a), Truthful(b) PROVE Truthful(Merge(a, b))
  BY MergeAt DEF Truthful, Steady

LEMMA AppliedTruth ==
    ASSUME NEW base, NEW c \in ChangeSets, Truthful(c), NEW f \in Steady
    PROVE Applied(base, c)[f] = IF c[f] = "none" THEN base[f] ELSE disk[f]
  BY DEF Applied, ChangeSets, Truthful, Gone, Steady

\* What the two attempts of apply_with_fallback leave in the job.
LEMMA TryAllEffect ==
    ASSUME TypeInv, TruthInv, TryAll
    PROVE  /\ job.step = "all" /\ job'.older = job.older /\ job'.newer = job.newer
           /\ \/ /\ job'.step = Later(owner) /\ job'.left = job.left
                 /\ \A f \in Steady : job'.base[f] = IF InJob(f) THEN disk[f] ELSE job.base[f]
              \/ job'.step = "newer" /\ job'.left = job.left /\ job'.base = job.base
              \/ /\ job'.step = "note" /\ job'.base = job.base
                 /\ \A f \in Steady : InJob(f) => job'.left[f] # "none"
<1> DEFINE all == Merge(job.older, job.newer)
<1>1. all \in ChangeSets /\ Truthful(all)
  BY MergeType, MergeTruth DEF TypeInv, TypeOK, TruthInv
<1>2. \A f \in Steady : all[f] # "none" <=> InJob(f)
  BY MergeAt DEF InJob, Steady
<1>3. \A f \in Steady : Applied(job.base, all)[f] = IF InJob(f) THEN disk[f] ELSE job.base[f]
  BY <1>1, <1>2, AppliedTruth
<1> QED
  BY <1>2, <1>3 DEF TryAll, TypeInv, TypeOK

LEMMA TryNewerEffect ==
    ASSUME TypeInv, TruthInv, TryNewer
    PROVE  /\ job.step = "newer" /\ job'.older = job.older /\ job'.newer = job.newer
           /\ \/ /\ job'.step = Later(owner) /\ job'.left = job.older
                 /\ \A f \in Steady :
                       job'.base[f] = IF job.newer[f] # "none" THEN disk[f] ELSE job.base[f]
              \/ /\ job'.step = "note" /\ job'.base = job.base
                 /\ \A f \in Steady : InJob(f) => job'.left[f] # "none"
<1>1. \A f \in Steady : Merge(job.older, job.newer)[f] # "none" <=> InJob(f)
  BY MergeAt DEF InJob, Steady
<1>2. \A f \in Steady :
        Applied(job.base, job.newer)[f] = IF job.newer[f] # "none" THEN disk[f] ELSE job.base[f]
  BY AppliedTruth DEF TypeInv, TypeOK, TruthInv
<1> QED
  BY <1>1, <1>2 DEF TryNewer, TypeInv, TypeOK

LEMMA CoverInit == Init => CoverInv
  BY DEF Init, CoverInv, GraphCovered, ApplyCovered, BuildCovered, ColdCovered, RebuildCovered,
     Builds

LEMMA CoverStep ==
    ASSUME ~RebuildWhileBuilding, TypeInv, PhaseInv, HistoryInv, TruthInv,
           CoverInv, [Next]_vars
    PROVE  CoverInv'
<1> USE RootIndexAssumption DEF TypeInv, TriggerInv, TypeOK, Threads, Builds, PhaseInv,
        HistoryInv, TruthInv, CoverInv, GraphCovered, ApplyCovered, BuildCovered, ColdCovered,
        RebuildCovered, Steady, Ahead, InJob, diskVars, watchVars, buildVars, healthVars
<1>1. ASSUME NEW f \in Files, NEW c \in States, Edit(f, c) PROVE CoverInv'
  BY <1>1 DEF Edit
<1>2. ASSUME WatcherSeals PROVE CoverInv'
  BY <1>2 DEF WatcherSeals
<1>3. ASSUME NEW S \in SUBSET Files, WatcherChecks(S) PROVE CoverInv'
  BY <1>3, NoneAt, MergeAt, ObservedAt DEF WatcherChecks
<1>4. ASSUME ReindexTakes PROVE CoverInv'
  BY <1>4, NoneAt DEF ReindexTakes
<1>5. ASSUME ReindexApplies PROVE CoverInv'
  BY <1>5, NoneAt, MergeAt DEF ReindexApplies, ApplyPending
<1>6. ASSUME TryAll PROVE CoverInv'
  BY <1>6, NoneAt, TryAllEffect DEF Later, TryAll
<1>7. ASSUME TryNewer PROVE CoverInv'
  BY <1>7, NoneAt, TryNewerEffect DEF Later, TryNewer
<1>8. ASSUME Publish PROVE CoverInv'
  BY <1>8, NoneAt DEF Publish, Idle
<1>9. ASSUME Journal PROVE CoverInv'
  BY <1>9, NoneAt, MergeAt DEF Journal
<1>10. ASSUME Note PROVE CoverInv'
  BY <1>10, NoneAt, MergeAt DEF Note, Idle
<1>11. ASSUME ColdStarts PROVE CoverInv'
  BY <1>11 DEF ColdStarts
<1>12. ASSUME ColdReads PROVE CoverInv'
  BY <1>12 DEF ColdReads
<1>13. ASSUME ColdDrains PROVE CoverInv'
  BY <1>13, NoneAt, MergeAt DEF ColdDrains
<1>14. ASSUME ColdFails PROVE CoverInv'
  BY <1>14 DEF ColdFails
<1>15. ASSUME RebuildReads PROVE CoverInv'
  BY <1>15 DEF RebuildReads
<1>16. ASSUME RebuildSettles PROVE CoverInv'
  BY <1>16, NoneAt, MergeAt DEF RebuildSettles
<1>17. ASSUME RebuildReplays PROVE CoverInv'
  BY <1>17, NoneAt, MergeAt DEF RebuildReplays
<1>18. ASSUME RebuildEnds PROVE CoverInv'
  BY <1>18 DEF RebuildEnds
<1>19. ASSUME NEW q \in Queries, NEW S \in SUBSET Touched, RepairClassifies(q, S)
      PROVE  CoverInv'
  BY <1>19, NoneAt DEF RepairClassifies
<1>20. ASSUME NEW q \in Queries, RepairNoted(q) PROVE CoverInv'
  BY <1>20 DEF RepairNoted, Paths
<1>21. ASSUME NEW q \in Queries, RepairApplies(q) PROVE CoverInv'
  BY <1>21, NoneAt, MergeAt DEF RepairApplies, ApplyPending
<1>22. ASSUME NEW q \in Queries, QueryRetries(q) PROVE CoverInv'
  BY <1>22, NoneAt, MergeAt DEF QueryRetries, ApplyPending
<1>23. ASSUME NEW q \in Queries, RebuildClaimed(q) PROVE CoverInv'
  BY <1>23 DEF RebuildClaimed
<1>24. ASSUME NEW q \in Queries, JournalCleared(q) PROVE CoverInv'
  BY <1>24, NoneAt DEF JournalCleared
<1>25. ASSUME NEW q \in Queries, FailuresHanded(q) PROVE CoverInv'
  BY <1>25, NoneAt, MergeAt DEF FailuresHanded
<1>26. CASE UNCHANGED vars
  BY <1>26 DEF vars
<1> QED
  BY <1>1, <1>2, <1>3, <1>4, <1>5, <1>6, <1>7, <1>8, <1>9, <1>10, <1>11, <1>12, <1>13, <1>14,
     <1>15, <1>16, <1>17, <1>18, <1>19, <1>20, <1>21, <1>22, <1>23, <1>24, <1>25, <1>26
     DEF Next, Watcher, Reindexer, Apply, Cold, Rebuild, Repair, Trigger

--------------------------------------------------------------------------------
\* Every variable keeps its type, and whoever is inside an apply or a publication
\* holds the mutex `pending`.
THEOREM TypeCorrect == Spec => []TypeOK
<1>1. Spec => []TypeInv
  BY TypeInit, TypeStep, PTL DEF Spec
<1> QED
  BY <1>1, PTL DEF TypeInv

\* A failed build never replaces a working index, provided that no rebuild starts before
\* the first index.
THEOREM WorkingIsKept ==
    ASSUME ~RebuildWhileBuilding PROVE Spec => WorkingIndexStays
<1> DEFINE Inv == TypeInv /\ PhaseInv
<1>1. Init => Inv
  BY TypeInit, PhaseInit
<1>2. Inv /\ [Next]_vars => Inv'
  BY TypeStep, PhaseStep
<1>3. Inv /\ [Next]_vars => (index = "ready" => index' = "ready")
  <2> SUFFICES ASSUME Inv, [Next]_vars, index = "ready" PROVE index' = "ready"
    OBVIOUS
  <2>1. ~ColdFails
    BY DEF PhaseInv, ColdFails
  <2>2. CASE Publish
    BY <2>2 DEF Publish
  <2>3. CASE UNCHANGED index
    BY <2>3
  <2> QED
    BY <2>1, <2>2, <2>3
       DEF Next, vars, Watcher, Reindexer, Apply, Cold, Rebuild, Repair, Trigger, Edit,
           WatcherSeals, WatcherChecks, ReindexTakes, ReindexApplies, TryAll, TryNewer, Journal,
           Note, ColdStarts, ColdReads, ColdDrains, RebuildReads, RebuildSettles,
           RebuildReplays, RebuildEnds, RepairClassifies, RepairNoted, RepairApplies,
           QueryRetries, RebuildClaimed, JournalCleared, FailuresHanded
<1> HIDE DEF Inv
<1>4. Spec => []Inv
  BY <1>1, <1>2, PTL DEF Spec
<1>5. Spec => [][index = "ready" => index' = "ready"]_vars
  BY <1>3, <1>4, PTL DEF Spec
<1> QED
  BY <1>5 DEF WorkingIndexStays

RootInv == TypeInv /\ PhaseInv /\ HistoryInv /\ TruthInv /\ CoverInv

\* NoLostWrite, of the files that never return.
NoSteadyWriteLost == index = "ready" => \A f \in Steady : graph[f] = disk[f] \/ Owed(f)

LEMMA CoveredIsOwed == RootInv => NoSteadyWriteLost
<1> SUFFICES ASSUME RootInv, index = "ready", NEW f \in Steady, graph[f] # disk[f] PROVE Owed(f)
  BY DEF NoSteadyWriteLost
<1>1. CASE rebuild \in {"built", "publishing"}
  BY <1>1 DEF Owed
<1>2. CASE rebuild \notin {"built", "publishing"}
  <2>1. \/ seen[f] # disk[f] \/ f \in repaired
        \/ \E c \in {queue, batch, pending, unapplied, inRebuild, job.older, job.newer, job.left} :
              c[f] # "none"
    BY <1>2 DEF RootInv, CoverInv, GraphCovered, Ahead, InJob
  <2> QED
    BY <2>1 DEF Owed, Paths, Steady
<1> QED
  BY <1>1, <1>2

\* No write of a file that never returns to an earlier state is lost, whatever the order of
\* the watcher, the reindex thread, the barrier's repairs and retries, rebuilds and the cold
\* build, whichever contents make the parser panic and whatever is reverted elsewhere:
\* provided that no rebuild starts before the first index (apply_pending, publish_rebuilt).
THEOREM SteadyFilesKept ==
    ASSUME ~RebuildWhileBuilding PROVE Spec => []NoSteadyWriteLost
<1>1. Init => RootInv
  BY TypeInit, PhaseInit, HistoryInit, CoverInit DEF RootInv
<1>2. RootInv /\ [Next]_vars => RootInv'
  BY TypeStep, PhaseStep, HistoryStep, TruthStep, CoverStep DEF RootInv
<1> QED
  BY <1>1, <1>2, CoveredIsOwed, PTL DEF Spec

\* So no write at all is lost where no file returns.  README.md, section 4, has the
\* counterexamples without either condition.
THEOREM NothingForgotten ==
    ASSUME Returning = {}, ~RebuildWhileBuilding PROVE Spec => []NoLostWrite
<1>1. NoSteadyWriteLost => NoLostWrite
  BY DEF NoSteadyWriteLost, NoLostWrite, Steady
<1> QED
  BY <1>1, SteadyFilesKept, PTL
================================================================================
