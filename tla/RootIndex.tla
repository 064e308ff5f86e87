---------------------------- MODULE RootIndex ----------------------------
(***************************************************************************)
(* The serving index of one root: astrolabe-mcp/src/session.rs and         *)
(* reindex.rs.  The watcher diffs the disk against its snapshot and queues *)
(* change sets; the reindex thread and the queries' barrier apply them to  *)
(* the served index; a cold build publishes the first index, a background  *)
(* rebuild replaces it.  The mutex `pending` serialises whoever writes the *)
(* index; the mutex around ApplyHealth is only held for single reads and   *)
(* writes, one step each here.                                             *)
(*                                                                         *)
(* A file is its content; parsing a content of Panics panics, which fails  *)
(* the whole apply or build.  A build reads the disk in one step, somewhere *)
(* between its start and its end: no property relates the moments at which *)
(* it reads two files.                                                     *)
(***************************************************************************)
EXTENDS Naturals, FiniteSets

CONSTANTS Files,
          Contents,              \* what a file may hold
          Absent,                \* a file that does not exist
          Panics,                \* the contents that make the parser panic
          Queries,               \* threads that answer calls
          Returning,             \* files that may return to a state they have had
          RebuildWhileBuilding,  \* may a storm start a rebuild before the first index?
          MaxEdits               \* bound on edits of the disk

ASSUME RootIndexAssumption ==
    /\ Absent \notin Contents
    /\ Panics \subseteq Contents /\ Returning \subseteq Files
    /\ {"nobody", "reindex", "cold", "rebuild"} \cap Queries = {}
    /\ RebuildWhileBuilding \in BOOLEAN /\ MaxEdits \in Nat

VARIABLES
    disk, edits, had,              \* the files, and the states each has had
    sealed, seen, repaired, queue, \* watcher: baseline, snapshot, note_repaired, channel
    batch,                         \* change set in the hands of the reindex thread
    repair,                        \* change set in the hands of each query
    query,                         \* where each query is
    index, graph,                  \* IndexState and what Ready serves
    cold, coldRead,                \* the cold build, and what it has read
    rebuild, rebuildRead,          \* the background rebuild; rebuild_inflight = rebuild # "idle"
    owner, job,                    \* holder of `pending` and what it is doing
    pending, journal,              \* pending, rebuild_journal
    unapplied, inRebuild           \* ApplyHealth

diskVars == <<disk, edits, had>>
watchVars == <<sealed, seen, repaired, queue>>
buildVars == <<cold, coldRead, rebuild, rebuildRead>>
healthVars == <<unapplied, inRebuild>>
vars == <<diskVars, watchVars, batch, repair, query, index, graph, buildVars, owner, job,
          pending, journal, healthVars>>

States == Contents \cup {Absent}
Graphs == [Files -> States]

\* A change set by path; added and modified files are treated alike.
ChangeSets == [Files -> {"none", "present", "removed"}]
NoChange == [f \in Files |-> "none"]
Paths(c) == {f \in Files : c[f] # "none"}

\* The later kind wins.
Merge(a, b) == [f \in Files |-> IF b[f] = "none" THEN a[f] ELSE b[f]]

\* What a look at the disk says of the files of S.
Observed(S) ==
    [f \in Files |-> IF f \notin S THEN "none" ELSE IF disk[f] = Absent THEN "removed" ELSE "present"]

\* Present files are read again, removed ones dropped without a look.
Applied(base, c) ==
    [f \in Files |-> CASE c[f] = "none" -> base[f]
                       [] c[f] = "removed" -> Absent
                       [] c[f] = "present" -> disk[f]]
Parses(c) == \A f \in Files : c[f] = "present" => disk[f] \notin Panics

\* A build that met one of Panics has failed.
Parsed(read) == \A f \in Files : read[f] \notin Panics

NothingRead == [f \in Files |-> Absent]
Idle == [step |-> "none", base |-> [f \in Files |-> Absent], older |-> NoChange,
         newer |-> NoChange, left |-> NoChange]

Threads == {"reindex", "cold", "rebuild"} \cup Queries

\* Types, and that whoever is inside an apply or a publication holds `pending`.
TypeOK ==
    /\ disk \in Graphs /\ edits \in 0..MaxEdits /\ had \in [Files -> SUBSET States]
    /\ sealed \in BOOLEAN /\ seen \in Graphs /\ repaired \in SUBSET Files
    /\ queue \in ChangeSets /\ batch \in ChangeSets /\ repair \in [Queries -> ChangeSets]
    /\ query \in [Queries -> {"idle", "note", "lock", "apply", "clear", "hand"}]
    /\ index \in {"building", "ready", "failed"} /\ graph \in Graphs
    /\ cold \in {"waiting", "reading", "built", "publishing", "failed", "done"}
    /\ rebuild \in {"idle", "claimed", "reading", "read", "built", "publishing", "finish"}
    /\ {coldRead, rebuildRead} \subseteq Graphs
    /\ owner \in Threads \cup {"nobody"}
    /\ job \in [step : {"none", "all", "newer", "publish", "journal", "note"}, base : Graphs,
                older : ChangeSets, newer : ChangeSets, left : ChangeSets]
    /\ {pending, journal, unapplied, inRebuild} \subseteq ChangeSets
    /\ job.step = "none" <=> owner = "nobody"
    /\ cold = "publishing" <=> owner = "cold"
    /\ rebuild = "publishing" <=> owner = "rebuild"
    /\ \A q \in Queries : query[q] = "apply" <=> owner = q

Init ==
    /\ disk \in [Files -> States \ Panics] /\ edits = 0 /\ had = [f \in Files |-> {disk[f]}]
    /\ sealed = FALSE /\ seen = [f \in Files |-> Absent] /\ repaired = {} /\ queue = NoChange
    /\ batch = NoChange /\ repair = [q \in Queries |-> NoChange]
    /\ query = [q \in Queries |-> "idle"]
    /\ index = "building" /\ graph = [f \in Files |-> Absent]
    /\ cold = "waiting" /\ coldRead = NothingRead
    /\ rebuild = "idle" /\ rebuildRead = NothingRead
    /\ owner = "nobody" /\ job = Idle
    /\ pending = NoChange /\ journal = NoChange /\ unapplied = NoChange /\ inRebuild = NoChange

-----------------------------------------------------------------------------
\* The disk and the watcher

\* Somebody writes, creates or deletes a file.  Only a returning file is reverted, or created
\* again after a deletion.
Edit(f, c) ==
    /\ edits < MaxEdits /\ disk[f] # c
    /\ f \notin Returning => c \notin had[f] /\ (disk[f] = Absent => had[f] = {Absent})
    /\ disk' = [disk EXCEPT ![f] = c]
    /\ edits' = edits + 1
    /\ had' = [had EXCEPT ![f] = @ \cup {c}]
    /\ UNCHANGED <<watchVars, batch, repair, query, index, graph, buildVars, owner, job, pending,
                   journal, healthVars>>

\* The first check only records a baseline.
WatcherSeals ==
    /\ ~sealed
    /\ sealed' = TRUE
    /\ seen' = disk
    /\ UNCHANGED <<diskVars, repaired, queue, batch, repair, query, index, graph, buildVars, owner,
                   job, pending, journal, healthVars>>

\* A directed check of S, or a full one: what differs from the snapshot, and what a
\* barrier has repaired since.
WatcherChecks(S) ==
    /\ sealed /\ S # {}
    /\ S \subseteq {f \in Files : seen[f] # disk[f]} \cup repaired
    /\ seen' = [f \in Files |-> IF f \in S THEN disk[f] ELSE seen[f]]
    /\ repaired' = repaired \ S
    /\ queue' = Merge(queue, Observed(S))
    /\ UNCHANGED <<diskVars, sealed, batch, repair, query, index, graph, buildVars, owner, job,
                   pending, journal, healthVars>>

-----------------------------------------------------------------------------
\* Applying change sets, under the lock `pending`

\* apply_pending, by a thread that has locked `pending` and merged changes into it.
ApplyPending(t, changes) ==
    LET all == Merge(pending, changes) IN
    IF index = "ready" /\ (all # NoChange \/ unapplied # NoChange)
    THEN /\ owner' = t
         /\ job' = [step |-> "all", base |-> graph, older |-> unapplied, newer |-> all,
                    left |-> NoChange]
         /\ pending' = NoChange
         /\ unapplied' = NoChange
    ELSE /\ pending' = all
         /\ UNCHANGED <<owner, job, unapplied>>

\* An apply ends here; a build publishes after it has noted what is left.
Later(t) == IF t \in {"cold", "rebuild"} THEN "note" ELSE "publish"

\* apply_with_fallback: older and newer changes together.
TryAll ==
    LET all == Merge(job.older, job.newer) IN
    /\ job.step = "all"
    /\ job' = IF Parses(all)
              THEN [job EXCEPT !.step = Later(owner), !.base = Applied(@, all)]
              ELSE IF NoChange \notin {job.older, job.newer}
              THEN [job EXCEPT !.step = "newer"]
              ELSE [job EXCEPT !.step = "note", !.left = all]
    /\ UNCHANGED <<diskVars, watchVars, batch, repair, query, index, graph, buildVars, owner,
                   pending, journal, healthVars>>

\* Together they failed: the newer ones alone, so that an old failure blocks nothing.
TryNewer ==
    /\ job.step = "newer"
    /\ job' = IF Parses(job.newer)
              THEN [job EXCEPT !.step = Later(owner), !.base = Applied(@, job.newer),
                               !.left = job.older]
              ELSE [job EXCEPT !.step = "note", !.left = Merge(job.older, job.newer)]
    /\ UNCHANGED <<diskVars, watchVars, batch, repair, query, index, graph, buildVars, owner,
                   pending, journal, healthVars>>

\* The write lock of `state` is held for this swap only.
Publish ==
    /\ job.step = "publish"
    /\ index' = "ready"
    /\ graph' = job.base
    /\ IF owner \in {"cold", "rebuild"}
       THEN /\ owner' = "nobody"
            /\ job' = Idle
            /\ cold' = IF owner = "cold" THEN "done" ELSE cold
            /\ rebuild' = IF owner = "rebuild" THEN "finish" ELSE rebuild
       ELSE /\ job' = [job EXCEPT !.step = "journal"]
            /\ UNCHANGED <<owner, cold, rebuild>>
    /\ UNCHANGED <<diskVars, watchVars, batch, repair, query, coldRead, rebuildRead, pending,
                   journal, healthVars>>

\* Mutant: an apply does not tell a running rebuild.
NeverJournals ==
    /\ job.step = "journal"
    /\ job' = [job EXCEPT !.step = "note"]
    /\ UNCHANGED <<diskVars, watchVars, batch, repair, query, index, graph, buildVars, owner,
                   pending, journal, healthVars>>

\* What was applied while a rebuild runs is replayed onto the rebuilt index.
Journal ==
    /\ job.step = "journal"
    /\ job' = [job EXCEPT !.step = "note"]
    /\ journal' = IF rebuild = "idle" THEN journal
                  ELSE Merge(journal, Merge(job.older, job.newer))
    /\ UNCHANGED <<diskVars, watchVars, batch, repair, query, index, graph, buildVars, owner,
                   pending, healthVars>>

\* note_unapplied; an apply releases `pending`, a build goes on to publish.
Note ==
    /\ job.step = "note"
    /\ unapplied' = Merge(unapplied, job.left)
    /\ IF owner \in {"cold", "rebuild"}
       THEN /\ job' = [job EXCEPT !.step = "publish"]
            /\ UNCHANGED <<owner, query>>
       ELSE /\ owner' = "nobody"
            /\ job' = Idle
            /\ query' = [q \in Queries |-> IF q = owner THEN "idle" ELSE query[q]]
    /\ UNCHANGED <<diskVars, watchVars, batch, repair, index, graph, buildVars, pending, journal,
                   inRebuild>>

-----------------------------------------------------------------------------
\* The reindex thread

\* recv and coalesce_window: everything queued, as one set.
ReindexTakes ==
    /\ queue # NoChange /\ batch = NoChange /\ owner # "reindex"
    /\ batch' = queue
    /\ queue' = NoChange
    /\ UNCHANGED <<diskVars, sealed, seen, repaired, repair, query, index, graph, buildVars, owner,
                   job, pending, journal, healthVars>>

\* apply_or_buffer: applied now, or kept in `pending` until there is an index.
ReindexApplies ==
    /\ batch # NoChange /\ owner = "nobody"
    /\ ApplyPending("reindex", batch)
    /\ batch' = NoChange
    /\ UNCHANGED <<diskVars, watchVars, repair, query, index, graph, buildVars, journal, inRebuild>>

-----------------------------------------------------------------------------
\* The barrier of a query

\* The files with an event in the freshness log.
Touched == {f \in Files : \E c \in had[f] : c # disk[f]}

\* Decision Repair: look at the suspects on disk.
RepairClassifies(q, S) ==
    /\ query[q] = "idle" /\ S # {} /\ S \subseteq Touched
    /\ query' = [query EXCEPT ![q] = "note"]
    /\ repair' = [repair EXCEPT ![q] = Observed(S)]
    /\ UNCHANGED <<diskVars, watchVars, batch, index, graph, buildVars, owner, job, pending,
                   journal, healthVars>>

\* The watcher is told before the files are read.
RepairNoted(q) ==
    /\ query[q] = "note"
    /\ query' = [query EXCEPT ![q] = "lock"]
    /\ repaired' = repaired \cup Paths(repair[q])
    /\ UNCHANGED <<diskVars, sealed, seen, queue, batch, repair, index, graph, buildVars, owner,
                   job, pending, journal, healthVars>>

\* Mutant: with nothing to apply, the query waits for an apply all the same.
RepairHangs(q) ==
    /\ query[q] = "lock" /\ owner = "nobody"
    /\ ApplyPending(q, repair[q])
    /\ query' = [query EXCEPT ![q] = "apply"]
    /\ repair' = [repair EXCEPT ![q] = NoChange]
    /\ UNCHANGED <<diskVars, watchVars, batch, index, graph, buildVars, journal, inRebuild>>

\* inline_repair's apply; without an index the changes stay in `pending`.
RepairApplies(q) ==
    /\ query[q] = "lock" /\ owner = "nobody"
    /\ ApplyPending(q, repair[q])
    /\ query' = [query EXCEPT ![q] = IF owner' = q THEN "apply" ELSE "idle"]
    /\ repair' = [repair EXCEPT ![q] = NoChange]
    /\ UNCHANGED <<diskVars, watchVars, batch, index, graph, buildVars, journal, inRebuild>>

\* settle_unapplied: the retry gap is over.
QueryRetries(q) ==
    /\ query[q] = "idle" /\ unapplied # NoChange /\ owner = "nobody" /\ index = "ready"
    /\ ApplyPending(q, NoChange)
    /\ query' = [query EXCEPT ![q] = "apply"]
    /\ UNCHANGED <<diskVars, watchVars, batch, repair, index, graph, buildVars, journal, inRebuild>>

\* trigger_background_rebuild_arc: too many suspects, distrust, or failures to settle.
RebuildClaimed(q) ==
    /\ query[q] = "idle" /\ rebuild = "idle"
    /\ index # "building" \/ RebuildWhileBuilding
    /\ rebuild' = "claimed"
    /\ query' = [query EXCEPT ![q] = "clear"]
    /\ UNCHANGED <<diskVars, watchVars, batch, repair, index, graph, cold, coldRead, rebuildRead,
                   owner, job, pending, journal, healthVars>>

JournalCleared(q) ==
    /\ query[q] = "clear"
    /\ journal' = NoChange
    /\ query' = [query EXCEPT ![q] = "hand"]
    /\ UNCHANGED <<diskVars, watchVars, batch, repair, index, graph, buildVars, owner, job,
                   pending, healthVars>>

\* The recorded failures become the rebuild's, and its thread is spawned.
FailuresHanded(q) ==
    /\ query[q] = "hand"
    /\ inRebuild' = Merge(inRebuild, unapplied)
    /\ unapplied' = NoChange
    /\ rebuild' = "reading"
    /\ query' = [query EXCEPT ![q] = "idle"]
    /\ UNCHANGED <<diskVars, watchVars, batch, repair, index, graph, cold, coldRead, rebuildRead,
                   owner, job, pending, journal>>

-----------------------------------------------------------------------------
\* The cold build

\* bootstrap_root waits for the watcher's baseline.
ColdStarts ==
    /\ cold = "waiting" /\ sealed
    /\ cold' = "reading"
    /\ UNCHANGED <<diskVars, watchVars, batch, repair, query, index, graph, coldRead, rebuild,
                   rebuildRead, owner, job, pending, journal, healthVars>>

ColdReads ==
    /\ cold = "reading"
    /\ coldRead' = disk
    /\ cold' = IF Parsed(disk) THEN "built" ELSE "failed"
    /\ UNCHANGED <<diskVars, watchVars, batch, repair, query, index, graph, rebuild, rebuildRead,
                   owner, job, pending, journal, healthVars>>

\* Mutant: changes buffered during the build stay in `pending`.
PendingKept ==
    /\ cold = "built" /\ owner = "nobody"
    /\ owner' = "cold"
    /\ job' = [step |-> "publish", base |-> coldRead, older |-> NoChange, newer |-> NoChange,
               left |-> NoChange]
    /\ coldRead' = NothingRead
    /\ cold' = "publishing"
    /\ UNCHANGED <<diskVars, watchVars, batch, repair, query, index, graph, rebuild, rebuildRead,
                   pending, journal, healthVars>>

\* publish_ready: what was buffered is applied to the built index before it is published.
ColdDrains ==
    /\ cold = "built" /\ owner = "nobody"
    /\ owner' = "cold"
    /\ job' = [step |-> IF NoChange = Merge(unapplied, pending) THEN "note" ELSE "all",
               base |-> coldRead, older |-> unapplied, newer |-> pending, left |-> NoChange]
    /\ pending' = NoChange
    /\ unapplied' = NoChange
    /\ coldRead' = NothingRead
    /\ cold' = "publishing"
    /\ UNCHANGED <<diskVars, watchVars, batch, repair, query, index, graph, rebuild, rebuildRead,
                   journal, inRebuild>>

\* A panic: Failed is published, `pending` stays.
ColdFails ==
    /\ cold = "failed" /\ owner = "nobody"
    /\ index' = "failed"
    /\ cold' = "done"
    /\ coldRead' = NothingRead
    /\ UNCHANGED <<diskVars, watchVars, batch, repair, query, graph, rebuild, rebuildRead, owner,
                   job, pending, journal, healthVars>>

-----------------------------------------------------------------------------
\* The background rebuild

RebuildReads ==
    /\ rebuild = "reading"
    /\ rebuildRead' = disk
    /\ rebuild' = "read"
    /\ UNCHANGED <<diskVars, watchVars, batch, repair, query, index, graph, cold, coldRead, owner,
                   job, pending, journal, healthVars>>

\* in_rebuild is taken: dropped if the build succeeded, else put back over unapplied.
RebuildSettles ==
    /\ rebuild = "read"
    /\ inRebuild' = NoChange
    /\ IF Parsed(rebuildRead)
       THEN /\ rebuild' = "built"
            /\ UNCHANGED <<rebuildRead, unapplied>>
       ELSE /\ rebuild' = "finish"
            /\ rebuildRead' = NothingRead
            /\ unapplied' = Merge(unapplied, inRebuild)
    /\ UNCHANGED <<diskVars, watchVars, batch, repair, query, index, graph, cold, coldRead, owner,
                   job, pending, journal>>

\* publish_rebuilt: journal and pending are replayed onto the rebuilt index.
RebuildReplays ==
    LET replay == Merge(journal, pending) IN
    /\ rebuild = "built" /\ owner = "nobody"
    /\ owner' = "rebuild"
    /\ job' = [step |-> IF NoChange = Merge(unapplied, replay) THEN "note" ELSE "all",
               base |-> rebuildRead, older |-> unapplied, newer |-> replay, left |-> NoChange]
    /\ journal' = NoChange
    /\ pending' = NoChange
    /\ unapplied' = NoChange
    /\ rebuildRead' = NothingRead
    /\ rebuild' = "publishing"
    /\ UNCHANGED <<diskVars, watchVars, batch, repair, query, index, graph, cold, coldRead,
                   inRebuild>>

\* rebuild_inflight is cleared.
RebuildEnds ==
    /\ rebuild = "finish"
    /\ rebuild' = "idle"
    /\ UNCHANGED <<diskVars, watchVars, batch, repair, query, index, graph, cold, coldRead,
                   rebuildRead, owner, job, pending, journal, healthVars>>

-----------------------------------------------------------------------------
Apply == TryAll \/ TryNewer \/ Publish \/ Journal \/ Note
Watcher == WatcherSeals \/ \E S \in SUBSET Files : WatcherChecks(S)
Reindexer == ReindexTakes \/ ReindexApplies
Cold == ColdStarts \/ ColdReads \/ ColdDrains \/ ColdFails
Rebuild == RebuildReads \/ RebuildSettles \/ RebuildReplays \/ RebuildEnds
Repair(q) ==
    (\E S \in SUBSET Touched : RepairClassifies(q, S)) \/ RepairNoted(q) \/ RepairApplies(q)
Trigger(q) == RebuildClaimed(q) \/ JournalCleared(q) \/ FailuresHanded(q)

Next ==
    \/ \E f \in Files, c \in States : Edit(f, c)
    \/ Watcher \/ Reindexer \/ Apply \/ Cold \/ Rebuild
    \/ \E q \in Queries : Repair(q) \/ QueryRetries(q) \/ Trigger(q)

Spec == Init /\ [][Next]_vars

\* The threads run; a thread that waits for `pending` gets it in the end; the watcher's full
\* checks come round; calls keep coming while failures are recorded.
FullCheck == WatcherChecks({f \in Files : seen[f] # disk[f]} \cup repaired)
Fairness ==
    /\ WF_vars(WatcherSeals) /\ WF_vars(FullCheck)
    /\ WF_vars(ReindexTakes) /\ SF_vars(ReindexApplies)
    /\ WF_vars(Apply)
    /\ WF_vars(ColdStarts \/ ColdReads)
    /\ SF_vars(ColdDrains \/ ColdFails)
    /\ WF_vars(RebuildReads \/ RebuildSettles \/ RebuildEnds)
    /\ SF_vars(RebuildReplays)
    /\ \A q \in Queries : /\ WF_vars(RepairNoted(q)) /\ SF_vars(RepairApplies(q))
                          /\ WF_vars(JournalCleared(q)) /\ WF_vars(FailuresHanded(q))
                          /\ SF_vars(QueryRetries(q))
FairSpec == Spec /\ Fairness

-----------------------------------------------------------------------------
\* Properties

\* Somebody still has to bring f into the index: the watcher, a change set on its way, the
\* holder of `pending`, a recorded failure, or a build that has not published yet.
Owed(f) ==
    \/ seen[f] # disk[f] \/ f \in repaired
    \/ f \in UNION {Paths(c) : c \in {queue, batch, pending, unapplied, inRebuild, job.older,
                                       job.newer, job.left}}
    \/ rebuild \in {"built", "publishing"} \/ cold # "done"

\* No write is lost: a served file differs from the disk only while somebody owes it, whatever
\* the order of watcher, reindex thread, barrier, rebuild and cold build, and whatever panics.
NoLostWrite == index = "ready" => \A f \in Files : graph[f] = disk[f] \/ Owed(f)

\* Once everything is quiet but for failures, a stale file is among the recorded failures:
\* the barrier, which reads nothing else, can say that the answer may be stale.  Not kept by
\* the code: README.md, section 4.
StaleIsNoted ==
    index = "ready" /\ owner = "nobody" /\ seen = disk /\ repaired = {}
        /\ {queue, batch, pending} = {NoChange}
    => \A f \in Files : graph[f] = disk[f] \/ f \in Paths(unapplied) \cup Paths(inRebuild)

\* A failed rebuild is discarded: it never takes a working index away.
WorkingIndexStays == [][index = "ready" => index' = "ready"]_vars

\* Once the edits end, the served index ends as the disk is, unless a file on disk still makes
\* the parser panic or the cold build failed.
Converges ==
    <>[](\/ index = "failed" \/ \E f \in Files : disk[f] \in Panics
         \/ index = "ready" /\ graph = disk)
=============================================================================
