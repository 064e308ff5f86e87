----------------------------- MODULE Freshness -----------------------------
(***************************************************************************)
(* Which answers are fresh: the log of suspects that the watcher keeps     *)
(* (FreshnessLog, astrolabe-core/src/watch.rs), the decision of a query's  *)
(* barrier (astrolabe-core/src/freshness.rs) and the barrier itself        *)
(* (run_barrier, astrolabe-mcp/src/session.rs), with the reindex thread    *)
(* and a background rebuild.                                               *)
(*                                                                         *)
(* A suspect carries the time of its latest note, and times are only       *)
(* compared with a few marks: `after` holds for each mark the suspects     *)
(* noted later.  What a file holds does not matter here, only whether the  *)
(* index, the snapshot or a build lacks its latest write.  An apply is one *)
(* step and succeeds: RootIndex has the steps of an apply and its          *)
(* failures, Watcher those of a check.                                     *)
(***************************************************************************)
EXTENDS Naturals, FiniteSets

CONSTANTS Files,
          Queries,       \* threads that answer calls
          MaxInline,     \* knobs.barrier_max
          Prompt,        \* is each change set applied before the next check ends?
          TornReads,     \* may a full check end between two reads of one decision?
          MaxEdits       \* bound on writes

ASSUME FreshnessAssumption ==
    /\ MaxInline \in Nat /\ MaxEdits \in Nat
    /\ Prompt \in BOOLEAN /\ TornReads \in BOOLEAN

VARIABLES
    edits,
    stale, unseen,          \* files whose latest write the index lacks, and the snapshot
    events, overflow,       \* the event feed
    noted,                  \* files whose latest write is in the log
    pending, allDirty,      \* Intake
    suspects, after,        \* FreshnessLog: the suspects, and those after each mark
    distrusted, verify,
    scan, found,            \* the full check on its helper thread, and what it has found
    queue,                  \* changes on their way to the index
    rebuild, lacks,         \* the background rebuild, and what its index lacks
    pc, second, paths,      \* each barrier: where it is, has it verified, what it has read
    moved,                  \* has the watermark moved since it began to wait?
    due                     \* what its answer must contain, and the index still lacks

feedVars == <<events, overflow, pending, allDirty>>
markVars == <<suspects, after>>
scanVars == <<scan, found>>
rebuildVars == <<rebuild, lacks>>
queryVars == <<pc, second, paths, moved, due>>
vars == <<edits, stale, unseen, feedVars, noted, markVars, distrusted, verify, scanVars, queue,
          rebuildVars, queryVars>>

\* The watermark, the starts of the scan and of the rebuild, and of each barrier its start
\* (observed_at) and the watermark it has read.
Watermark == <<"watermark", "log">>
ScanStart == <<"scan", "log">>
RebuildStart == <<"rebuild", "log">>
Began(q) == <<"began", q>>
Since(q) == <<"since", q>>
Marks == {Watermark, ScanStart, RebuildStart} \cup ({"began", "since"} \X Queries)

TypeOK ==
    /\ edits \in 0..MaxEdits
    /\ {stale, unseen, events, noted, pending, suspects, found, queue, lacks} \subseteq SUBSET Files
    /\ {overflow, allDirty, distrusted, verify} \subseteq BOOLEAN
    /\ after \in [Marks -> SUBSET suspects]
    /\ scan \in {"idle", "looking", "looked"}
    /\ rebuild \in {"idle", "claimed", "started", "read", "published"}
    /\ pc \in [Queries -> {"idle", "watermark", "suspects", "trust", "ask", "wait", "repair", "clear"}]
    /\ {second, moved} \subseteq [Queries -> BOOLEAN]
    /\ paths \in [Queries -> SUBSET Files] /\ due \in [Queries -> SUBSET stale]
    /\ lacks \subseteq stale

\* A watched root whose index is current.
Init ==
    /\ edits = 0 /\ stale = {} /\ unseen = {}
    /\ events = {} /\ overflow = FALSE /\ noted = {} /\ pending = {} /\ allDirty = FALSE
    /\ suspects = {} /\ after = [m \in Marks |-> {}]
    /\ distrusted = FALSE /\ verify = FALSE
    /\ scan = "idle" /\ found = {} /\ queue = {}
    /\ rebuild = "idle" /\ lacks = {}
    /\ pc = [q \in Queries |-> "idle"] /\ second = [q \in Queries |-> FALSE]
    /\ paths = [q \in Queries |-> {}] /\ moved = [q \in Queries |-> FALSE]
    /\ due = [q \in Queries |-> {}]

-----------------------------------------------------------------------------
\* FreshnessLog

\* note_paths: suspects are stamped now, those that were suspects before again.
NotePaths(S) ==
    /\ suspects' = suspects \cup S
    /\ after' = [m \in Marks |-> after[m] \cup S]

Now(m) == after' = [after EXCEPT ![m] = {}] /\ UNCHANGED suspects

\* A mark that is not in use lies before every note.
Drop(M) ==
    /\ after' = [m \in Marks |-> IF m \in M THEN suspects ELSE after[m]]
    /\ UNCHANGED suspects

\* Whoever waits for it sees the watermark move.
Wake == moved' = [q \in Queries |-> moved[q] \/ pc[q] \in {"ask", "wait"}]

\* bump_watermark: the found paths are stamped right after the new watermark.
BumpWatermark(C) ==
    /\ suspects' = suspects \cup C
    /\ after' = [m \in Marks |-> IF m = Watermark THEN C ELSE after[m] \cup C]
    /\ Wake

\* Mutant: a finished check answers for what it has found.
ForgetsFound(C) ==
    /\ suspects' = after[ScanStart]
    /\ after' = [m \in Marks |-> after[ScanStart]]
    /\ distrusted' = FALSE
    /\ Wake

\* note_verified: what was noted since the scan began is stamped again.
NoteVerified(C) ==
    /\ suspects' = after[ScanStart] \cup C
    /\ after' = [m \in Marks |-> after[ScanStart] \cup C]
    /\ distrusted' = FALSE
    /\ Wake

ClearSuspectsThrough(m) ==
    /\ suspects' = after[m]
    /\ after' = [n \in Marks |-> after[n] \cap after[m]]

-----------------------------------------------------------------------------
\* Writes and the watch thread

\* Somebody writes f; its event arrives, or is dropped and that is latched.
Write(f) ==
    /\ edits < MaxEdits
    /\ edits' = edits + 1
    /\ stale' = stale \cup {f} /\ unseen' = unseen \cup {f}
    /\ noted' = noted \ {f} /\ due' = [q \in Queries |-> due[q] \ {f}]
    /\ lacks' = IF rebuild = "read" THEN lacks \cup {f} ELSE lacks
    /\ \/ events' = events \cup {f} /\ UNCHANGED overflow
       \/ overflow' = TRUE /\ UNCHANGED events
    /\ UNCHANGED <<pending, allDirty, markVars, distrusted, verify, scanVars, queue, rebuild, pc, second,
                   paths, moved>>

\* drain_feed and absorb, also while a scan runs.  A storm is an overflow here.
Absorb ==
    /\ events # {} \/ overflow
    /\ events' = {} /\ overflow' = FALSE
    /\ pending' = pending \cup events /\ allDirty' = (allDirty \/ overflow)
    /\ distrusted' = (distrusted \/ overflow)
    /\ NotePaths(events)
    /\ noted' = noted \cup events
    /\ UNCHANGED <<edits, stale, unseen, verify, scanVars, queue, rebuildVars, queryVars>>

\* directed_check of what is pending.
CheckPending ==
    LET changes == pending \cap unseen IN
    /\ scan = "idle" /\ pending # {} /\ ~allDirty
    /\ Prompt => queue = {}
    /\ pending' = {} /\ unseen' = unseen \ pending
    /\ queue' = queue \cup changes
    /\ noted' = noted \cup changes
    /\ BumpWatermark(changes)
    /\ UNCHANGED <<edits, stale, events, overflow, allDirty, distrusted, verify, scanVars, rebuildVars,
                   pc, second, paths, due>>

\* A full check, because a query asked for it or for another reason (Watcher tells them apart).
ScanBegins(asked) ==
    /\ scan = "idle"
    /\ asked => verify
    /\ scan' = "looking"
    /\ pending' = {} /\ allDirty' = FALSE
    /\ verify' = (verify /\ ~asked)
    /\ Now(ScanStart)
    /\ UNCHANGED <<edits, stale, unseen, events, overflow, noted, distrusted, found, queue, rebuildVars,
                   queryVars>>

ScanLooks ==
    /\ scan = "looking"
    /\ scan' = "looked"
    /\ found' = unseen /\ unseen' = {}
    /\ UNCHANGED <<edits, stale, feedVars, noted, markVars, distrusted, verify, queue, rebuildVars,
                   queryVars>>

ScanEnds ==
    /\ scan = "looked"
    /\ Prompt => queue = {}
    /\ TornReads \/ \A q \in Queries : pc[q] # "trust"
    /\ scan' = "idle" /\ found' = {}
    /\ queue' = queue \cup found
    /\ noted' = noted \cup found
    /\ NoteVerified(found)
    /\ UNCHANGED <<edits, stale, unseen, feedVars, verify, rebuildVars, pc, second, paths, due>>

-----------------------------------------------------------------------------
\* The index

\* The index lacks only what it did of S now.
Covers(S) == stale' = stale \cap S /\ due' = [q \in Queries |-> due[q] \cap S]

\* Mutant: a rebuild publishes what it has read, without a journal.
WithoutJournal(S) == Covers(Files \ S) /\ UNCHANGED lacks

\* The files of S are read into the index; a rebuild that has read them before replays them.
Apply(S) == Covers(Files \ S) /\ lacks' = lacks \ S

\* The reindex thread, after its throttle.
ReindexApplies ==
    /\ queue # {}
    /\ Apply(queue)
    /\ queue' = {}
    /\ UNCHANGED <<edits, unseen, feedVars, noted, markVars, distrusted, verify, scanVars, rebuild, pc,
                   second, paths, moved>>

RebuildStarts ==
    /\ rebuild = "claimed"
    /\ rebuild' = "started"
    /\ Now(RebuildStart)
    /\ UNCHANGED <<edits, stale, unseen, feedVars, noted, distrusted, verify, scanVars, queue, lacks,
                   queryVars>>

RebuildReads ==
    /\ rebuild = "started"
    /\ rebuild' = "read" /\ lacks' = {}
    /\ UNCHANGED <<edits, stale, unseen, feedVars, noted, markVars, distrusted, verify, scanVars, queue,
                   queryVars>>

RebuildPublishes ==
    /\ rebuild = "read"
    /\ rebuild' = "published"
    /\ Covers(lacks) /\ lacks' = {}
    /\ UNCHANGED <<edits, unseen, feedVars, noted, markVars, distrusted, verify, scanVars, queue, pc,
                   second, paths, moved>>

\* A published rebuild covers every suspect noted before it began; a failed one covers nothing.
RebuildEnds ==
    /\ \/ rebuild = "published" /\ ClearSuspectsThrough(RebuildStart)
       \/ rebuild \in {"started", "read"} /\ Drop({RebuildStart})
    /\ rebuild' = "idle" /\ lacks' = {}
    /\ UNCHANGED <<edits, stale, unseen, feedVars, noted, distrusted, verify, scanVars, queue, queryVars>>

-----------------------------------------------------------------------------
\* A query's barrier

OthersUnchanged == UNCHANGED <<edits, stale, unseen, feedVars, noted, scanVars, queue>>

At(q, here, there) == pc[q] = here /\ pc' = [pc EXCEPT ![q] = there]

\* observed_at is taken, and everything the log has been told before is due.
Begin(q) ==
    /\ At(q, "idle", "watermark")
    /\ due' = [due EXCEPT ![q] = stale \cap noted]
    /\ Now(Began(q))
    /\ OthersUnchanged
    /\ UNCHANGED <<distrusted, verify, rebuildVars, second, paths, moved>>

ReadWatermark(q) ==
    /\ At(q, "watermark", "suspects")
    /\ after' = [after EXCEPT ![Since(q)] = after[Watermark]]
    /\ OthersUnchanged
    /\ UNCHANGED <<suspects, distrusted, verify, rebuildVars, second, paths, moved, due>>

\* suspect_paths hides its suspects while the log is distrusted.
ReadSuspects(q) ==
    /\ At(q, "suspects", "trust")
    /\ paths' = [paths EXCEPT ![q] = IF distrusted THEN {} ELSE after[Since(q)]]
    /\ Drop({Since(q)})
    /\ OthersUnchanged
    /\ UNCHANGED <<distrusted, verify, rebuildVars, second, moved, due>>

\* The locals of run_barrier are gone.
Return(q) ==
    /\ second' = [second EXCEPT ![q] = FALSE]
    /\ paths' = [paths EXCEPT ![q] = {}]

\* barrier_decision, and what run_barrier makes of a second look; the watermark may be too old.
Fresh(q) ==
    /\ At(q, "trust", "idle")
    /\ ~distrusted /\ paths[q] = {}
    /\ Return(q) /\ Drop({Began(q)})
    /\ OthersUnchanged
    /\ UNCHANGED <<distrusted, verify, rebuildVars, moved, due>>

WatermarkTooOld(q) ==
    /\ At(q, "trust", "ask")
    /\ ~distrusted /\ paths[q] = {} /\ ~second[q]
    /\ OthersUnchanged
    /\ UNCHANGED <<markVars, distrusted, verify, rebuildVars, second, paths, moved, due>>

RequestVerification(q) ==
    /\ At(q, "ask", "wait")
    /\ verify' = TRUE
    /\ OthersUnchanged
    /\ UNCHANGED <<markVars, distrusted, rebuildVars, second, paths, moved, due>>

RepairInline(q) ==
    /\ At(q, "trust", "repair")
    /\ ~distrusted /\ paths[q] # {} /\ Cardinality(paths[q]) <= MaxInline
    /\ OthersUnchanged
    /\ UNCHANGED <<markVars, distrusted, verify, rebuildVars, second, paths, moved, due>>

\* An answer with a note promises nothing.
Note(q) == due' = [due EXCEPT ![q] = {}] /\ Return(q) /\ Drop({Began(q)})

\* Degrade, which starts a rebuild unless one runs.
Degrade(q) ==
    /\ At(q, "trust", "idle")
    /\ distrusted \/ Cardinality(paths[q]) > MaxInline
    /\ rebuild' = IF rebuild = "idle" THEN "claimed" ELSE rebuild
    /\ Note(q)
    /\ OthersUnchanged
    /\ UNCHANGED <<distrusted, verify, lacks, moved>>

\* wait_watermark_advance, after which the query reads the log again.
Verified(q) ==
    /\ At(q, "wait", "watermark")
    /\ moved[q] /\ moved' = [moved EXCEPT ![q] = FALSE]
    /\ second' = [second EXCEPT ![q] = TRUE]
    /\ Now(Began(q))
    /\ OthersUnchanged
    /\ UNCHANGED <<distrusted, verify, rebuildVars, paths, due>>

VerificationTimesOut(q) ==
    /\ At(q, "wait", "idle")
    /\ ~moved[q]
    /\ Note(q)
    /\ OthersUnchanged
    /\ UNCHANGED <<distrusted, verify, rebuildVars, moved>>

InlineRepair(q) ==
    /\ At(q, "repair", "clear")
    /\ Apply(paths[q])
    /\ Return(q)
    /\ UNCHANGED <<edits, unseen, feedVars, noted, markVars, distrusted, verify, scanVars, queue, rebuild,
                   moved>>

ClearRepaired(q) ==
    /\ At(q, "clear", "idle")
    /\ ClearSuspectsThrough(Began(q))
    /\ OthersUnchanged
    /\ UNCHANGED <<distrusted, verify, rebuildVars, second, paths, moved, due>>

-----------------------------------------------------------------------------
Barrier(q) ==
    \/ Begin(q) \/ ReadWatermark(q) \/ ReadSuspects(q)
    \/ Fresh(q) \/ WatermarkTooOld(q) \/ RequestVerification(q) \/ RepairInline(q) \/ Degrade(q)
    \/ Verified(q) \/ VerificationTimesOut(q) \/ InlineRepair(q) \/ ClearRepaired(q)

Next ==
    \/ \E f \in Files : Write(f)
    \/ Absorb \/ CheckPending \/ ScanLooks \/ ScanEnds
    \/ \E asked \in BOOLEAN : ScanBegins(asked)
    \/ ReindexApplies \/ RebuildStarts \/ RebuildReads \/ RebuildPublishes \/ RebuildEnds
    \/ \E q \in Queries : Barrier(q)

Spec == Init /\ [][Next]_vars

-----------------------------------------------------------------------------
\* Properties

\* An answer without a note contains every write the log had been told of when its barrier began:
\* neither a moving watermark, nor another query's or a rebuild's clearing of suspects, hides one
\* (run_barrier, note_verified, clear_suspects_through).
FreshAnswers == \A q \in Queries : pc[q] = "idle" => due[q] = {}

\* Whatever the log was told of and the index still lacks is a suspect after the watermark, so that
\* the next query sees it (note_verified, bump_watermark, push_unapplied, clear_suspects_through).
SuspectsCover == stale \cap noted \subseteq after[Watermark]
=============================================================================
