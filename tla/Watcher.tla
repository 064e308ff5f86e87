------------------------------ MODULE Watcher ------------------------------
(***************************************************************************)
(* How one root's watcher finds changes: astrolabe-core/src/watch.rs.      *)
(* Native events name paths, which wait in the intake for a debounce and   *)
(* are then stat'ed and compared with a snapshot (a directed check); a     *)
(* storm, an overflow, an edit of the ignore rules, the safety interval or *)
(* a query's request look at the whole tree instead (a full check), on a   *)
(* helper thread while events keep coming in.  When the event backend      *)
(* fails the thread polls.                                                 *)
(*                                                                         *)
(* A look at a file is two steps, the stat and the read of its content; a  *)
(* file's hash is its content.  An event of a directory stands for events  *)
(* of the files below it.  Every stamp of a readable file has a hash: the  *)
(* files too large for a baseline hash are compared by metadata, which     *)
(* reports more.                                                           *)
(***************************************************************************)
EXTENDS Naturals, FiniteSets

CONSTANTS Files,
          Contents,       \* what a file may hold
          Absent,         \* a file that does not exist
          Unread,         \* a stamp without a hash
          Rules,          \* an ignore-rule file, in an event
          Hidable,        \* files the ignore rules may leave out
          Unwatched,      \* files whose events never arrive
          StormPaths,     \* WatchConfig::storm_paths
          VerifyPolling,  \* may a query ask for a verification while the thread polls?
          MaxEdits        \* bound on edits of the disk and the rules, repairs and requests

ASSUME WatcherAssumption ==
    /\ {Absent, Unread} \cap Contents = {} /\ Absent # Unread
    /\ Rules \notin Files /\ Hidable \subseteq Files /\ Unwatched \subseteq Files
    /\ StormPaths \in Nat /\ VerifyPolling \in BOOLEAN /\ MaxEdits \in Nat

VARIABLES
    disk, hidden, edits,     \* the files and the ignore rules
    young, same,             \* is its mtime's tick running, and the metadata as last stat'ed?
    feed, overflow,          \* events not taken yet, and whether some were dropped
    pending, allDirty,       \* Intake
    verify, repaired,        \* FreshnessLog: verify_requested, note_repaired
    sealed, seen, unsettled, \* the snapshot
    mode,                    \* event_loop, run_loop, or neither
    check, todo, look, fresh, found, marked,  \* the check under way
    batch,                   \* run_loop's change set waiting for its debounce
    queue, known             \* the channel, and the files the consumer has been told of

diskVars == <<disk, hidden, edits, young>>
intakeVars == <<feed, overflow, pending, allDirty>>
logVars == <<verify, repaired>>
snapshotVars == <<sealed, seen, unsettled>>
checkVars == <<check, todo, look, fresh, found, marked>>
sentVars == <<batch, queue, known>>
vars == <<diskVars, same, intakeVars, logVars, snapshotVars, mode, checkVars, sentVars>>

States == Contents \cup {Absent}
Kinds == {"added", "modified", "removed"}
ChangeSets == [Files -> Kinds \cup {"none"}]
NoChange == [f \in Files |-> "none"]
Paths(c) == {f \in Files : c[f] # "none"}

Admitted(f) == f \notin hidden /\ disk[f] # Absent
Tracked == {f \in Files : seen[f] # Absent}

FullChecks == {"full", "poll", "verify"}

TypeOK ==
    /\ disk \in [Files -> States] /\ hidden \subseteq Hidable /\ edits \in 0..MaxEdits
    /\ {young, same, unsettled, fresh} \subseteq [Files -> BOOLEAN]
    /\ {feed, pending} \subseteq SUBSET (Files \cup {Rules})
    /\ {overflow, allDirty, verify, sealed} \subseteq BOOLEAN
    /\ {repaired, todo, marked, known} \subseteq SUBSET Files
    /\ seen \in [Files -> States \cup {Unread}]
    /\ mode \in {"events", "failing", "polling", "dead"}
    /\ check \in FullChecks \cup {"none", "directed"}
    /\ look \in [Files -> {"none", "gone", "steady", "changed"}]
    /\ {found, batch, queue} \subseteq ChangeSets
    /\ Rules \in pending => allDirty

NotYetLooked == [f \in Files |-> "none"]

Init ==
    /\ disk \in [Files -> States] /\ hidden = {} /\ edits = 0
    /\ young \in [Files -> BOOLEAN] /\ same = [f \in Files |-> FALSE]
    /\ feed = {} /\ overflow = FALSE /\ pending = {} /\ allDirty = FALSE
    /\ verify = FALSE /\ repaired = {}
    /\ sealed = FALSE /\ seen = [f \in Files |-> Absent]
    /\ unsettled = [f \in Files |-> FALSE]
    /\ mode \in {"events", "polling"}
    /\ check = "none" /\ todo = {} /\ look = NotYetLooked
    /\ fresh = [f \in Files |-> FALSE] /\ found = NoChange /\ marked = {}
    /\ batch = NoChange /\ queue = NoChange /\ known = {}

-----------------------------------------------------------------------------
\* ChangeSet::merge and the consumer

Coalesced(old, new) ==
    IF new = "none" THEN old
    ELSE IF old = "none" \/ new = "removed" THEN new
    ELSE IF old = "removed" THEN "modified" ELSE old

\* Mutant: what was found first is kept.
KeepsFirst(a, b) == [f \in Files |-> IF a[f] = "none" THEN b[f] ELSE a[f]]

Merge(a, b) == [f \in Files |-> Coalesced(a[f], b[f])]

\* The files whoever knew of `files` has after applying c.
Applied(files, c) ==
    (files \ {f \in Files : c[f] = "removed"}) \cup {f \in Files : c[f] \in {"added", "modified"}}

\* The reindex thread takes what is queued.
Take ==
    /\ queue # NoChange
    /\ known' = Applied(known, queue)
    /\ queue' = NoChange
    /\ UNCHANGED <<diskVars, same, intakeVars, logVars, snapshotVars, mode, checkVars, batch>>

-----------------------------------------------------------------------------
\* The disk and the event backend

\* Mutant: an event that finds the channel full is lost without a trace.
LosesEvents(S) ==
    IF mode = "events" /\ S # {}
    THEN feed' \in {feed, feed \cup S} /\ UNCHANGED overflow
    ELSE UNCHANGED <<feed, overflow>>

\* Native events of the paths in S: queued, or the bounded channel is full.
Notify(S) ==
    IF mode = "events" /\ S # {}
    THEN \/ feed' = feed \cup S /\ UNCHANGED overflow
         \/ overflow' = TRUE /\ UNCHANGED feed
    ELSE UNCHANGED <<feed, overflow>>

\* Somebody writes, creates, replaces or deletes a file.  Only within the tick of its mtime can
\* its metadata stay the same.
Edit(f, c) ==
    /\ edits < MaxEdits /\ disk[f] # c
    /\ disk' = [disk EXCEPT ![f] = c]
    /\ edits' = edits + 1
    /\ IF c = Absent THEN UNCHANGED <<young, same>>
       ELSE \E now, kept \in BOOLEAN :
              /\ kept => young[f] /\ now
              /\ young' = [young EXCEPT ![f] = now]
              /\ same' = [same EXCEPT ![f] = @ /\ kept]
    /\ Notify({f} \ Unwatched)
    /\ UNCHANGED <<hidden, pending, allDirty, logVars, snapshotVars, mode, checkVars, sentVars>>

EditRules(H) ==
    /\ edits < MaxEdits /\ hidden # H
    /\ hidden' = H
    /\ edits' = edits + 1
    /\ Notify({Rules})
    /\ UNCHANGED <<disk, young, same, pending, allDirty, logVars, snapshotVars, mode, checkVars,
                   sentVars>>

\* A file leaves MTIME_UNTRUSTED_WINDOW.  A check measures ages from when it started.
Age(f) ==
    /\ young[f] /\ f \notin todo
    /\ young' = [young EXCEPT ![f] = FALSE]
    /\ UNCHANGED <<disk, hidden, edits, same, intakeVars, logVars, snapshotVars, mode, checkVars,
                   sentVars>>

\* The backend reports an error.  A scan under way is still awaited.
FeedFails ==
    /\ mode = "events" /\ check # "directed"
    /\ verify => VerifyPolling
    /\ mode' = IF check = "none" THEN "polling" ELSE "failing"
    /\ feed' = {} /\ overflow' = FALSE /\ pending' = {} /\ allDirty' = FALSE
    /\ UNCHANGED <<diskVars, same, logVars, snapshotVars, checkVars, sentVars>>

-----------------------------------------------------------------------------
\* Queries

\* run_barrier, of a stale watermark.
RequestVerification ==
    /\ sealed /\ ~verify
    /\ mode # "events" => VerifyPolling
    /\ edits < MaxEdits /\ edits' = edits + 1
    /\ verify' = TRUE
    /\ UNCHANGED <<disk, hidden, young, same, intakeVars, repaired, snapshotVars, mode, checkVars,
                   sentVars>>

\* inline_repair: f is marked and then read into the index, whatever the snapshot says.
Repair(f) ==
    /\ sealed
    /\ edits < MaxEdits /\ edits' = edits + 1
    /\ repaired' = repaired \cup {f}
    /\ known' = IF Admitted(f) THEN known \cup {f} ELSE known \ {f}
    /\ UNCHANGED <<disk, hidden, young, same, intakeVars, verify, snapshotVars, mode, checkVars, batch,
                   queue>>

-----------------------------------------------------------------------------
\* The watch thread takes events and decides what to check

\* Mutant: a rule file is a path like any other.
RulesIgnored ==
    /\ mode = "events" /\ check # "directed"
    /\ feed # {} \/ overflow
    /\ pending' = pending \cup feed
    /\ allDirty' = (allDirty \/ overflow \/ Cardinality(pending') > StormPaths)
    /\ feed' = {} /\ overflow' = FALSE
    /\ UNCHANGED <<diskVars, same, logVars, snapshotVars, mode, checkVars, sentVars>>

\* drain_feed and absorb; also while the helper thread scans.
Drain ==
    /\ mode = "events" /\ check # "directed"
    /\ feed # {} \/ overflow
    /\ pending' = pending \cup feed
    /\ allDirty' = (allDirty \/ overflow \/ Rules \in feed \/ Cardinality(pending') > StormPaths)
    /\ feed' = {} /\ overflow' = FALSE
    /\ UNCHANGED <<diskVars, same, logVars, snapshotVars, mode, checkVars, sentVars>>

Begins(kind, S) ==
    /\ check = "none"
    /\ check' = kind /\ todo' = S
    /\ look' = NotYetLooked /\ found' = NoChange
    /\ UNCHANGED <<diskVars, same, feed, overflow, snapshotVars, mode, fresh, sentVars>>

\* The debounce is over, and there is no reason to look at everything.
StartDirected ==
    /\ mode = "events" /\ sealed /\ pending # {} /\ ~allDirty
    /\ Begins("directed", pending \cap Files)
    /\ pending' = {}
    /\ marked' = repaired \cap pending /\ repaired' = repaired \ pending
    /\ UNCHANGED <<allDirty, verify>>

\* Mutant: only events make the loop look.
NoSafetyScan(reason) ==
    \/ reason = "seed" /\ ~sealed
    \/ reason = "dirty" /\ sealed /\ allDirty
    \/ reason = "request" /\ sealed /\ verify

\* The baseline, a storm or an overflow, a request, or the safety interval.
Due(reason) ==
    \/ reason = "seed" /\ ~sealed
    \/ reason = "dirty" /\ sealed /\ allDirty
    \/ reason = "request" /\ sealed /\ verify
    \/ reason = "safety" /\ sealed

\* What is pending is covered by a full check.
StartFull(reason) ==
    /\ mode = "events" /\ Due(reason)
    /\ Begins("full", Files)
    /\ pending' = {} /\ allDirty' = FALSE
    /\ verify' = (verify /\ reason # "request")
    /\ marked' = {}
    /\ UNCHANGED repaired

\* run_loop: the next poll, or a request that came while it slept.
StartPoll(kind) ==
    /\ mode = "polling"
    /\ kind = "verify" => sealed /\ verify
    /\ Begins(kind, Files)
    /\ verify' = (verify /\ kind # "verify")
    /\ marked' = {}
    /\ UNCHANGED <<pending, allDirty, repaired>>
-----------------------------------------------------------------------------
\* A check looks at files: directed_check at one after the other, check at the metadata of all
\* first.

Stat(f) ==
    /\ f \in todo /\ mode # "dead"
    /\ check = "directed" => look = NotYetLooked
    /\ todo' = todo \ {f}
    /\ IF Admitted(f)
       THEN /\ look' = [look EXCEPT ![f] = IF same[f] THEN "steady" ELSE "changed"]
            /\ fresh' = [fresh EXCEPT ![f] = young[f]]
            /\ same' = [same EXCEPT ![f] = TRUE]
       ELSE /\ look' = [look EXCEPT ![f] = "gone"]
            /\ UNCHANGED <<fresh, same>>
    /\ UNCHANGED <<diskVars, intakeVars, logVars, snapshotVars, mode, check, found, marked, sentVars>>

\* The stamp of f becomes s, reported as kind.  Whoever looks next has nothing left to do for f.
Stamps(f, content, doubt, kind) ==
    /\ seen' = [seen EXCEPT ![f] = content]
    /\ unsettled' = [unsettled EXCEPT ![f] = doubt]
    /\ found' = [found EXCEPT ![f] = IF sealed THEN kind ELSE "none"]
    /\ look' = [look EXCEPT ![f] = "none"]
    /\ fresh' = [fresh EXCEPT ![f] = FALSE]
    /\ UNCHANGED <<diskVars, same, intakeVars, logVars, sealed, mode, check, todo, marked, sentVars>>

MayRead(f) == mode # "dead" /\ look[f] # "none" /\ (check \in FullChecks => todo = {})

\* Gone, or not admitted any more.
Forget(f) ==
    /\ MayRead(f) /\ look[f] = "gone"
    /\ Stamps(f, Absent, FALSE, IF f \in Tracked THEN "removed" ELSE "none")

\* make_stamp
Admit(f) ==
    /\ MayRead(f) /\ look[f] # "gone" /\ f \notin Tracked
    /\ Stamps(f, IF disk[f] = Absent THEN Unread ELSE disk[f], fresh[f], "added")

\* Mutant: equal metadata is trusted even within the tick of its mtime.
TrustsTime(f) ==
    /\ MayRead(f) /\ look[f] = "steady" /\ f \in Tracked
    /\ Stamps(f, seen[f], FALSE, "none")

\* confirm: metadata that is unchanged and settled is trusted.
Trust(f) ==
    /\ MayRead(f) /\ look[f] = "steady" /\ f \in Tracked
    /\ ~unsettled[f] /\ ~fresh[f]
    /\ Stamps(f, seen[f], FALSE, "none")

Suspected(f) ==
    /\ MayRead(f) /\ look[f] # "gone" /\ f \in Tracked
    /\ look[f] = "changed" \/ unsettled[f] \/ fresh[f]

\* Mutant: other content counts only with other metadata.
ChangedByBoth(f, content) == look[f] = "changed" /\ content # seen[f]

\* Without an earlier hash only the metadata can tell of a change.
Changed(f, content) == IF seen[f] = Unread THEN look[f] = "changed" ELSE content # seen[f]

\* confirm: anything else is hashed.
Hash(f) ==
    /\ Suspected(f) /\ disk[f] # Absent
    /\ Stamps(f, disk[f], fresh[f], IF Changed(f, disk[f]) THEN "modified" ELSE "none")

\* confirm: it has vanished since the stat, or cannot be opened now.
HashFails(f) ==
    /\ Suspected(f) /\ disk[f] = Absent
    /\ IF seen[f] = Unread
       THEN Stamps(f, Unread, fresh[f] \/ unsettled[f], IF look[f] = "changed" THEN "modified" ELSE "none")
       ELSE Stamps(f, seen[f], TRUE, "none")

\* report_repaired: what a barrier has read is reported even if it is unchanged.
Reported(c, S) ==
    [f \in Files |-> IF f \notin S \/ c[f] # "none" THEN c[f]
                     ELSE IF f \in Tracked THEN "modified" ELSE "removed"]

\* The end of a check: its change set is sent, or kept by run_loop until a poll that finds
\* nothing says that all is quiet.  The first check is the baseline.
End ==
    LET changes == Reported(found, IF check \in FullChecks /\ sealed THEN repaired ELSE marked) IN
    /\ check # "none" /\ mode # "dead" /\ todo = {} /\ look = NotYetLooked
    /\ check' = "none" /\ found' = NoChange /\ marked' = {}
    /\ repaired' = IF check \in FullChecks /\ sealed THEN {} ELSE repaired
    /\ sealed' = TRUE
    /\ known' = IF sealed THEN known ELSE Tracked
    /\ CASE check # "poll" -> queue' = Merge(queue, changes) /\ UNCHANGED batch
         [] check = "poll" /\ changes # NoChange -> batch' = Merge(batch, changes) /\ UNCHANGED queue
         [] OTHER -> queue' = Merge(queue, batch) /\ batch' = NoChange
    /\ mode' = IF mode = "failing" THEN "polling" ELSE mode
    /\ UNCHANGED <<diskVars, same, intakeVars, verify, seen, unsettled, todo, look, fresh>>

\* FullCheck::Lost: the helper thread panics, and the watch thread ends.
ScanPanics ==
    /\ check = "full" /\ mode # "dead"
    /\ mode' = "dead"
    /\ feed' = {} /\ overflow' = FALSE /\ pending' = {} /\ allDirty' = FALSE
    /\ UNCHANGED <<diskVars, same, logVars, snapshotVars, checkVars, sentVars>>

-----------------------------------------------------------------------------
LookAt(f) == Stat(f) \/ Forget(f) \/ Admit(f) \/ Trust(f) \/ Hash(f) \/ HashFails(f)

Starts ==
    \/ StartDirected
    \/ \E reason \in {"seed", "dirty", "request", "safety"} : StartFull(reason)
    \/ \E kind \in {"poll", "verify"} : StartPoll(kind)

Next ==
    \/ \E f \in Files : \E c \in States : Edit(f, c)
    \/ \E H \in SUBSET Hidable : EditRules(H)
    \/ \E f \in Files : Age(f) \/ Repair(f) \/ LookAt(f)
    \/ FeedFails \/ RequestVerification \/ Drain \/ Starts \/ End \/ ScanPanics \/ Take

Spec == Init /\ [][Next]_vars

\* The watch thread and its helper run, the safety scan and the polls come round, and the
\* reindex thread takes what it is sent.
Fairness ==
    /\ WF_vars(Drain) /\ WF_vars(StartDirected) /\ WF_vars(StartFull("seed"))
    /\ WF_vars(StartFull("safety")) /\ WF_vars(StartPoll("poll"))
    /\ \A f \in Files : WF_vars(LookAt(f))
    /\ WF_vars(End) /\ WF_vars(Take)
FairSpec == Spec /\ Fairness

-----------------------------------------------------------------------------
\* Properties

\* The look under way will find f as it is.
WillFind(f) ==
    \/ f \in todo
    \/ look[f] = "gone" /\ ~Admitted(f)
    \/ /\ look[f] \in {"steady", "changed"} /\ Admitted(f)
       /\ look[f] = "changed" \/ f \notin Tracked \/ unsettled[f] \/ fresh[f]

\* While events drive the watcher, a watched file that is not as its snapshot says has an event on
\* its way, waits for a check, or is about to be found: no interleaving of events, scans, rule edits
\* and overflows forgets a change until the safety scan (event_loop, Intake, full_check_draining).
NoChangeForgotten ==
    mode = "events" /\ (sealed \/ check # "none") =>
        \A f \in Files \ Unwatched :
            seen[f] # (IF Admitted(f) THEN disk[f] ELSE Absent) =>
                \/ {f, Rules} \cap (feed \cup pending) # {}
                \/ overflow \/ allDirty
                \/ WillFind(f)

\* A file whose content is not the one hashed last shows it: its metadata differ, or the stamp says
\* that they prove nothing (confirm, is_unsettled).
StampsTell ==
    \A f \in Files :
        look[f] = "none" /\ f \notin todo /\ f \in Tracked /\ disk[f] \notin {seen[f], Absent} =>
            ~same[f] \/ unsettled[f]

\* Whatever is coalesced, held back or sent while the next check runs, an index that has applied all
\* of it has exactly the files of the snapshot, although queries read files into it out of band; the
\* next report puts right what is still marked (ChangeSet::merge, report_repaired, run_loop).
FileSetReplays ==
    sealed => \A f \in Files \ (repaired \cup marked) :
        f \in Applied(Applied(Applied(known, queue), batch), found) <=> f \in Tracked

\* The promise, kept although checks take time: a look counts when its stat finds the file gone, and
\* otherwise when the content is read; what a check has found is owed before it is sent.
Promise == INSTANCE ChangeFeed WITH
    seen <- [f \in Files |-> IF look[f] = "gone" THEN Absent ELSE seen[f]],
    owed <- Paths(queue) \cup Paths(batch) \cup Paths(found)
            \cup {f \in Files : sealed /\ look[f] = "gone" /\ f \in Tracked}
KeepsPromise == Promise!Spec

\* Once nobody edits any more, the consumer is told of every file, those without events included:
\* the safety scan and the polls come round (safety_wait, run_loop).
Settles ==
    <>[](mode = "dead" \/
         /\ \A f \in Files : seen[f] = IF Admitted(f) THEN disk[f] ELSE Absent
         /\ known = Tracked /\ queue = NoChange)
=============================================================================
