----------------------- MODULE IncrementalIndexProofs -----------------------
(***************************************************************************)
(* Proofs about IncrementalIndex: type correctness, that stamps tell what  *)
(* the files hold, and that an index kept up by change sets is what a      *)
(* build of the disk would make, its import resolutions too if the watcher *)
(* reports a config before the index takes it in.                          *)
(*                                                                         *)
(* A file is touched from its write until the change set that reports it   *)
(* is taken by an apply.  Whatever is not touched is in the index as it is *)
(* on disk (Reflects); a running build or apply is on the way to such an   *)
(* index, the files it has still to parse aside.  For a resolver to detect *)
(* again, a config that the index has must never be queued as added        *)
(* (ConfigsRead).                                                         *)
(***************************************************************************)
EXTENDS IncrementalIndex, TLAPS

-----------------------------------------------------------------------------
\* The invariants

\* What is noted for a file whose (mtime, length) has not changed since is what it holds.
NotesTell ==
    \A f \in Sources :
       noted[f] # None =>
          /\ stat[f] \in {"old", "outdated"}
          /\ stat[f] = "old" => noted[f] = disk[f]

Touched == owed \cup Changed({"added", "modified", "removed"})

\* A change set that covers all writes of a file tells whether it exists.
ChangesTell ==
    \A f \in Files \ owed :
       /\ changes[f] = "removed" => disk[f] = Absent
       /\ changes[f] \in {"added", "modified"} => disk[f] # Absent

\* The index i has a file that is not touched as it is on the disk d; the sources in open are not
\* decided yet.
Reflects(i, open, touched, d) ==
    \A f \in Files \ touched :
       /\ f \in i.files <=> d[f] \in Contents \ Huge
       /\ f \in Sources => (f \in i.tooLarge <=> d[f] \in Huge)
       /\ f \in Sources \ open =>
            \/ i.rows[f] = d[f] /\ d[f] \in Contents \ Huge
            \/ i.rows[f] = None /\ (d[f] \in Contents \ Huge => i.failures[f] # "none")

\* Products belong to rows.
Shaped(i) == \A f \in i.products : i.rows[f] # None

\* The imports of a row are resolved against the index's own paths and metadata.
ResolvedHere(i) ==
    \A f \in Sources :
       IF i.rows[f] = None THEN i.resolved[f].of = None
       ELSE i.resolved[f] = [files |-> i.files, meta |-> i.meta, of |-> i.rows[f]]

\* The served index; an apply that runs has taken the changes that are to replace it.
Served ==
    ready => /\ Shaped(index) /\ ResolvedHere(index)
             /\ run # "apply" => Reflects(index, {}, Touched, disk)

\* The build or apply that runs.
Underway ==
    /\ run = "none" => step = "parse"
    /\ run # "none" =>
         /\ Shaped(made) /\ made.products = {}
         /\ Reflects(made, todo, Touched, disk)
         /\ todo \subseteq made.files /\ \A f \in todo : made.rows[f] = None
         /\ step # "parse" => todo = {}
    /\ run = "apply" => ready
    /\ reuse => run = "apply" /\ made.files = index.files /\ made.meta = index.meta

\* Stamps, and the index but for what its resolvers have read.
Kept == StoreTells /\ NotesTell /\ ChangesTell /\ Served /\ Underway

\* The resolvers have read an untouched config as it is; one that the index has is in the watcher's
\* snapshot and not queued as added.
ConfigsRead(i, touched, d, queued, paths) ==
    \A c \in Configs :
       IF c \in i.files
       THEN /\ c \in touched \/ i.meta[c] = d[c]
            /\ queued[c] # "added" /\ (c \in paths \/ queued[c] = "removed")
       ELSE i.meta[c] = Absent

\* What is queued as present is in the watcher's snapshot.
ConfigsKept ==
    /\ \A c \in Configs : changes[c] \in {"added", "modified"} => c \in known
    /\ ready /\ run # "apply" => ConfigsRead(index, Touched, disk, changes, known)
    /\ run # "none" => ConfigsRead(made, Touched, disk, changes, known)

-----------------------------------------------------------------------------
\* Type correctness

LEMMA NoIndexType == NoIndex \in Indexes
BY IncrementalIndexAssumption
   DEF IncrementalIndexAssumption, NoIndex, Indexes, Resolutions, Metas, NoMeta, Unresolved, States

LEMMA DetectedType ==
  ASSUME TypeOK, NEW files \in SUBSET Files
  PROVE  Detected(files) \in Metas
BY DEF TypeOK, Detected, Metas, Files, States

LEMMA EndedType ==
  ASSUME Ended
  PROVE  /\ run' \in {"none", "build", "apply"} /\ access' \in {"none", "read", "write"}
         /\ step' \in {"parse", "stamp", "prune", "assemble"}
         /\ made' \in Indexes /\ reuse' \in BOOLEAN /\ todo' \in SUBSET Sources
         /\ stat' \in [Sources -> {"unseen", "missing", "young", "old", "outdated"}]
         /\ noted' \in [Sources -> Contents \cup {None}]
         /\ live' \in [keys : SUBSET Contents, paths : SUBSET Sources] /\ writes' \in SUBSET Contents
BY NoIndexType DEF Ended, Unseen, NoNotes, NothingLive

LEMMA StartsType ==
  ASSUME NEW kind \in {"build", "apply"}, NEW a \in Holds, NEW sources \in SUBSET Sources,
         Starts(kind, a, sources)
  PROVE  /\ run' \in {"none", "build", "apply"} /\ access' \in {"none", "read", "write"}
         /\ step' \in {"parse", "stamp", "prune", "assemble"}
         /\ todo' \in SUBSET Sources
         /\ stat' \in [Sources -> {"unseen", "missing", "young", "old", "outdated"}]
         /\ noted' \in [Sources -> Contents \cup {None}]
         /\ live' \in [keys : SUBSET Contents, paths : SUBSET Sources] /\ writes' \in SUBSET Contents
BY IncrementalIndexAssumption
   DEF IncrementalIndexAssumption, Starts, Unseen, NoNotes, NothingLive

LEMMA IndexedType ==
  ASSUME TypeOK, NEW f \in Sources, NEW c \in Contents, Indexed(f, c)
  PROVE  made' \in Indexes
<1> DEFINE rows == [made.rows EXCEPT ![f] = c]
           failures == [made.failures EXCEPT ![f] = IF c \in Partial THEN "partial" ELSE "none"]
           retries == [made.retries EXCEPT ![f] = IF c \in Partial THEN @ ELSE 0]
<1>1. rows \in [Sources -> Contents \cup {None}]
  BY DEF TypeOK, Indexes
<1>2. failures \in [Sources -> {"none", "transient", "permanent", "partial"}]
  BY DEF TypeOK, Indexes
<1>3. retries \in [Sources -> 0..MaxRetries]
  BY IncrementalIndexAssumption DEF IncrementalIndexAssumption, TypeOK, Indexes
<1>4. made' = [made EXCEPT !.rows = rows, !.failures = failures, !.retries = retries]
  BY DEF Indexed, TypeOK, Indexes
<1> HIDE DEF rows, failures, retries
<1> QED
  BY <1>1, <1>2, <1>3, <1>4 DEF TypeOK, Indexes

LEMMA FailsType ==
  ASSUME TypeOK, NEW f \in Sources, NEW reason \in {"transient", "permanent"}, Fails(f, reason)
  PROVE  made' \in Indexes
BY DEF TypeOK, Fails, Indexes

LEMMA LivesType ==
  ASSUME TypeOK, NEW f \in Sources, NEW c \in Contents, Lives(f, c)
  PROVE  live' \in [keys : SUBSET Contents, paths : SUBSET Sources]
BY DEF TypeOK, Lives

LEMMA TypeInit == Init => TypeOK
<1> SUFFICES ASSUME Init
             PROVE  TypeOK
  OBVIOUS
<1>1. /\ edits \in 0..MaxEdits /\ timeouts \in 0..MaxTimeouts /\ builds \in 0..MaxBuilds
  BY IncrementalIndexAssumption DEF IncrementalIndexAssumption, Init
<1> QED
  BY <1>1, NoIndexType
     DEF Init, TypeOK, Present, NoChange, Kinds, Unseen, NoNotes, NothingLive

LEMMA TypeStep ==
  ASSUME TypeOK, [Next]_vars
  PROVE  TypeOK'
<1> USE IncrementalIndexAssumption DEF IncrementalIndexAssumption, TypeOK, watchVars, storeVars,
       indexVars, parseVars, runVars, bounds
<1>1. CASE UNCHANGED vars
  BY <1>1 DEF vars
<1>2. ASSUME NEW f \in Files, NEW c \in States, Edit(f, c)
      PROVE  TypeOK'
  BY <1>2 DEF Edit
<1>3. ASSUME NEW f \in Sources, Age(f)
      PROVE  TypeOK'
  BY <1>3 DEF Age
<1>4. ASSUME NEW f \in Files, BarrierRepairs(f)
      PROVE  TypeOK'
  BY <1>4 DEF BarrierRepairs, Coalesced, Kinds
<1>5. ASSUME NEW S \in SUBSET owed, WatcherChecks(S)
      PROVE  TypeOK'
  BY <1>5 DEF WatcherChecks, Coalesced, Kinds, Present
<1>6. ASSUME NEW a \in Holds, BeginBuild(a)
      PROVE  TypeOK'
  <2> DEFINE files == {f \in Files : Indexable(f)}
  <2>1. /\ Starts("build", a, files \cap Sources)
        /\ made' = [NoIndex EXCEPT !.files = files, !.meta = Detected(files),
                                   !.tooLarge = {f \in Sources : disk[f] \in Huge}]
        /\ reuse' = FALSE /\ builds < MaxBuilds /\ builds' = builds + 1
        /\ UNCHANGED <<disk, young, watchVars, storeVars, indexVars, edits, timeouts>>
    BY <1>6 DEF BeginBuild
  <2>2. made' \in Indexes
    BY <2>1, NoIndexType, DetectedType DEF Indexes
  <2>3. files \cap Sources \in SUBSET Sources
    OBVIOUS
  <2> HIDE DEF files
  <2>4. /\ run' \in {"none", "build", "apply"} /\ access' \in {"none", "read", "write"}
        /\ step' \in {"parse", "stamp", "prune", "assemble"}
        /\ todo' \in SUBSET Sources
        /\ stat' \in [Sources -> {"unseen", "missing", "young", "old", "outdated"}]
        /\ noted' \in [Sources -> Contents \cup {None}]
        /\ live' \in [keys : SUBSET Contents, paths : SUBSET Sources] /\ writes' \in SUBSET Contents
    BY <2>1, <2>3, StartsType
  <2>5. builds' \in 0..MaxBuilds
    BY <2>1
  <2> QED
    BY <2>1, <2>2, <2>4, <2>5
<1>7. ASSUME NEW a \in Holds, BeginApply(a)
      PROVE  TypeOK'
  <2>1. FilesAfter \in SUBSET Files /\ ToParse \in SUBSET Sources
    BY DEF FilesAfter, Dirty, Outgrown, Changed, ToParse, Indexes
  <2>2. MetaAfter \in Metas
    BY <2>1, DetectedType DEF MetaAfter, Indexes
  <2>3. \A f \in Sources : Retried(f) => index.retries[f] + 1 \in 0..MaxRetries
    BY DEF Retried, Indexes
  <2> DEFINE kept == (Sources \cap FilesAfter) \ ToParse
             reused == kept \cap index.products
             tooLarge == (index.tooLarge \ (Changed({"removed"}) \cup FilesAfter))
                            \cup (Outgrown \cap Sources)
             rows == [f \in Sources |-> IF f \in reused THEN index.rows[f] ELSE None]
             failures == [f \in Sources |-> IF f \in kept THEN index.failures[f] ELSE "none"]
             retries == [f \in Sources |-> IF f \in ToParse /\ Retried(f) THEN index.retries[f] + 1
                                           ELSE IF f \in kept \ reused THEN index.retries[f]
                                           ELSE 0]
  <2>4. made' \in Indexes
    <3>1. made' = [NoIndex EXCEPT !.files = FilesAfter, !.tooLarge = tooLarge, !.meta = MetaAfter,
                                  !.rows = rows, !.failures = failures, !.retries = retries]
      BY <1>7 DEF BeginApply
    <3>2. tooLarge \in SUBSET Sources /\ rows \in [Sources -> Contents \cup {None}]
      BY DEF Indexes
    <3>3. failures \in [Sources -> {"none", "transient", "permanent", "partial"}]
      BY DEF Indexes
    <3>4. retries \in [Sources -> 0..MaxRetries]
      BY <2>3 DEF Indexes
    <3> HIDE DEF kept, reused, tooLarge, rows, failures, retries
    <3> QED
      BY <2>1, <2>2, <3>1, <3>2, <3>3, <3>4, NoIndexType DEF Indexes
  <2>5. /\ Starts("apply", a, ToParse) /\ reuse' \in BOOLEAN /\ changes' = NoChange
        /\ UNCHANGED <<disk, young, owed, known, storeVars, indexVars, bounds>>
    BY <1>7 DEF BeginApply
  <2> HIDE DEF kept, reused, tooLarge, rows, failures, retries
  <2> QED
    BY <2>1, <2>4, <2>5, StartsType DEF NoChange, Kinds
<1>8. ASSUME NEW f \in Sources, ParseOne(f)
      PROVE  TypeOK'
  <2>1. CASE Stat(f)
    BY <2>1, IndexedType, LivesType DEF Stat, StampHit
  <2>2. CASE ReadFails(f)
    BY <2>2, FailsType DEF ReadFails, Reading
  <2>3. CASE Parse(f)
    <3>1. disk[f] \in Contents
      BY <2>3 DEF Parse, Files, States
    <3> QED
      BY <2>3, <3>1, IndexedType, FailsType, LivesType DEF Parse, Reading
  <2>4. CASE ParseTimesOut(f)
    <3>1. disk[f] \in Contents
      BY <2>4 DEF ParseTimesOut, Files, States
    <3> QED
      BY <2>4, <3>1, FailsType, LivesType DEF ParseTimesOut, Reading
  <2> QED
    BY <1>8, <2>1, <2>2, <2>3, <2>4 DEF ParseOne
<1>9. CASE Spill
  BY <1>9 DEF Spill
<1>10. CASE Flush
  BY <1>10 DEF Flush
<1>11. CASE PutStamps
  BY <1>11 DEF PutStamps
<1>12. CASE Prune
  BY <1>12 DEF Prune
<1>13. CASE Assemble
  <2>1. PICK evicted \in SUBSET {f \in Sources : made.rows[f] # None} :
           index' = [made EXCEPT
                       !.products = {f \in Sources : made.rows[f] # None} \ evicted,
                       !.resolved = [f \in Sources |-> ResolvedAs(f)]]
    BY <1>13 DEF Assemble
  <2>2. \A f \in Sources : ResolvedAs(f) \in Resolutions
    BY NoIndexType DEF ResolvedAs, Unresolved, NoIndex, Indexes, Resolutions
  <2>3. index' \in Indexes
    BY <2>1, <2>2 DEF Indexes
  <2> QED
    BY <1>13, <2>3, EndedType DEF Assemble
<1>14. CASE Cancel
  BY <1>14, EndedType DEF Cancel
<1>15. CASE Crash
  BY <1>15, EndedType, NoIndexType DEF Crash, Present, NoChange, Kinds
<1> QED
  BY <1>1, <1>2, <1>3, <1>4, <1>5, <1>6, <1>7, <1>8, <1>9, <1>10, <1>11, <1>12, <1>13, <1>14, <1>15
     DEF Next

\* Every state of an index kept up by builds and applies is well typed, and no failure is tried
\* again more than MAX_FAILURE_RETRIES times (index_repo_incremental).
THEOREM TypeCorrect == Spec => []TypeOK
<1>1. Init => TypeOK
  BY TypeInit
<1>2. TypeOK /\ [Next]_vars => TypeOK'
  BY TypeStep
<1> QED
  BY <1>1, <1>2, PTL DEF Spec

-----------------------------------------------------------------------------
\* Stamps

LEMMA StampsStep ==
  ASSUME TypeOK, StoreTells, NotesTell, [Next]_vars
  PROVE  StoreTells' /\ NotesTell'
<1> USE IncrementalIndexAssumption
    DEF IncrementalIndexAssumption, TypeOK, StoreTells, NotesTell, watchVars, storeVars, indexVars,
        parseVars, runVars, bounds
<1>1. CASE UNCHANGED vars
  BY <1>1 DEF vars
<1>2. ASSUME NEW f \in Files, NEW c \in States, Edit(f, c)
      PROVE  StoreTells' /\ NotesTell'
  BY <1>2 DEF Edit, Files
<1>3. ASSUME NEW f \in Sources, Age(f)
      PROVE  StoreTells' /\ NotesTell'
  BY <1>3 DEF Age
<1>4. ASSUME NEW f \in Files, BarrierRepairs(f)
      PROVE  StoreTells' /\ NotesTell'
  BY <1>4 DEF BarrierRepairs
<1>5. ASSUME NEW S \in SUBSET owed, WatcherChecks(S)
      PROVE  StoreTells' /\ NotesTell'
  BY <1>5 DEF WatcherChecks
<1>6. ASSUME NEW a \in Holds, BeginBuild(a) \/ BeginApply(a)
      PROVE  StoreTells' /\ NotesTell'
  BY <1>6 DEF BeginBuild, BeginApply, Starts, NoNotes
<1>7. ASSUME NEW f \in Sources, ParseOne(f)
      PROVE  StoreTells' /\ NotesTell'
  <2>1. CASE Stat(f)
    BY <2>1 DEF Stat
  <2>2. CASE ReadFails(f)
    BY <2>2 DEF ReadFails, Reading
  <2>3. CASE Parse(f)
    BY <2>3 DEF Parse, Reading, Trusted
  <2>4. CASE ParseTimesOut(f)
    BY <2>4 DEF ParseTimesOut, Reading
  <2> QED
    BY <1>7, <2>1, <2>2, <2>3, <2>4 DEF ParseOne
<1>8. CASE Spill
  BY <1>8 DEF Spill
<1>9. CASE Flush
  BY <1>9 DEF Flush
<1>10. CASE PutStamps
  BY <1>10 DEF PutStamps
<1>11. CASE Prune
  BY <1>11 DEF Prune
<1>12. CASE Assemble \/ Cancel \/ Crash
  BY <1>12 DEF Assemble, Cancel, Crash, Ended, NoNotes
<1> QED
  BY <1>1, <1>2, <1>3, <1>4, <1>5, <1>6, <1>7, <1>8, <1>9, <1>10, <1>11, <1>12 DEF Next

-----------------------------------------------------------------------------
\* Change sets

LEMMA CoalescedKinds ==
  ASSUME NEW a \in Kinds, NEW b \in Kinds \ {"none"}
  PROVE  /\ Coalesced(a, b) \in Kinds \ {"none"}
         /\ Coalesced(a, b) = "removed" <=> b = "removed"
         /\ b = "modified" /\ a # "added" => Coalesced(a, b) = "modified"
         /\ b = "added" /\ a = "removed" => Coalesced(a, b) = "modified"
BY DEF Kinds, Coalesced

LEMMA WatcherSees ==
  ASSUME TypeOK, NEW S \in SUBSET owed, WatcherChecks(S), NEW f \in Files
  PROVE  /\ f \notin S => changes'[f] = changes[f]
         /\ f \in S => changes'[f] = Coalesced(changes[f], IF disk[f] = Absent THEN "removed"
                                                          ELSE IF f \in known THEN "modified"
                                                          ELSE "added")
BY DEF WatcherChecks, TypeOK

LEMMA BarrierSees ==
  ASSUME TypeOK, NEW g \in Files, BarrierRepairs(g), NEW f \in Files
  PROVE  /\ f # g => changes'[f] = changes[f]
         /\ f = g => changes'[f] = Coalesced(changes[f], IF disk[f] = Absent THEN "removed"
                                                        ELSE "modified")
BY DEF BarrierRepairs, TypeOK

LEMMA ChangesStep ==
  ASSUME TypeOK, ChangesTell, [Next]_vars
  PROVE  ChangesTell'
<1> USE DEF TypeOK, ChangesTell, watchVars, storeVars, indexVars, parseVars, runVars, bounds
<1>1. ASSUME UNCHANGED <<disk, watchVars>>
      PROVE  ChangesTell'
  BY <1>1
<1>2. ASSUME NEW f \in Files, NEW c \in States, Edit(f, c)
      PROVE  ChangesTell'
  BY <1>2 DEF Edit
<1>3. ASSUME NEW g \in Files, BarrierRepairs(g)
      PROVE  ChangesTell'
  <2>1. UNCHANGED <<disk, owed>> /\ g \in owed
    BY <1>3 DEF BarrierRepairs
  <2> QED
    BY <1>3, <2>1, BarrierSees
<1>4. ASSUME NEW S \in SUBSET owed, WatcherChecks(S)
      PROVE  ChangesTell'
  <2>1. UNCHANGED disk /\ owed' = owed \ S
    BY <1>4 DEF WatcherChecks
  <2> SUFFICES ASSUME NEW f \in Files \ owed'
               PROVE  /\ changes'[f] = "removed" => disk[f] = Absent
                      /\ changes'[f] \in {"added", "modified"} => disk[f] # Absent
    BY <2>1
  <2>2. CASE f \in S
    <3> DEFINE seen == IF disk[f] = Absent THEN "removed"
                       ELSE IF f \in known THEN "modified" ELSE "added"
    <3>1. changes'[f] = Coalesced(changes[f], seen)
      BY <1>4, <2>2, WatcherSees
    <3>2. seen \in Kinds \ {"none"} /\ changes[f] \in Kinds
      BY DEF Kinds
    <3>3. changes'[f] = "removed" <=> seen = "removed"
      BY <3>1, <3>2, CoalescedKinds
    <3> QED
      BY <3>3
  <2>3. CASE f \notin S
    BY <1>4, <2>1, <2>3, WatcherSees
  <2> QED
    BY <2>2, <2>3
<1>5. ASSUME NEW a \in Holds, BeginApply(a)
      PROVE  ChangesTell'
  BY <1>5 DEF BeginApply, NoChange
<1>6. CASE Crash
  BY <1>6 DEF Crash, NoChange
<1>7. ASSUME NEW f \in Sources, ParseOne(f)
      PROVE  UNCHANGED <<disk, watchVars>>
  BY <1>7 DEF ParseOne, Stat, ReadFails, Parse, ParseTimesOut, Reading
<1>8. ASSUME NEW f \in Sources, Age(f)
      PROVE  UNCHANGED <<disk, watchVars>>
  BY <1>8 DEF Age
<1>9. ASSUME NEW a \in Holds, BeginBuild(a)
      PROVE  UNCHANGED <<disk, watchVars>>
  BY <1>9 DEF BeginBuild
<1>10. CASE Spill \/ Flush \/ PutStamps \/ Prune \/ Assemble \/ Cancel
  BY <1>1, <1>10 DEF Spill, Flush, PutStamps, Prune, Assemble, Cancel
<1>11. CASE UNCHANGED vars
  BY <1>1, <1>11 DEF vars
<1> QED
  BY <1>1, <1>2, <1>3, <1>4, <1>5, <1>6, <1>7, <1>8, <1>9, <1>10, <1>11 DEF Next

-----------------------------------------------------------------------------
\* The index

\* What is not touched later was not touched before and has not changed.
LEMMA ReflectsStays ==
  ASSUME NEW i, NEW open, NEW t, NEW u, NEW d, NEW e, Reflects(i, open, t, d),
         t \subseteq u, \A f \in Files \ u : e[f] = d[f]
  PROVE  Reflects(i, open, u, e)
BY DEF Reflects

\* A file stays touched until an apply takes the change set.
LEMMA TouchedStays ==
  ASSUME TypeOK, [Next]_vars, \A a \in Holds : ~BeginApply(a), ~Crash
  PROVE  Touched \subseteq Touched' /\ \A f \in Files \ Touched' : disk'[f] = disk[f]
<1> USE DEF TypeOK, watchVars, storeVars, indexVars, parseVars, runVars, bounds
<1>1. ASSUME UNCHANGED <<disk, watchVars>>
      PROVE  Touched \subseteq Touched' /\ \A f \in Files \ Touched' : disk'[f] = disk[f]
  BY <1>1 DEF Touched, Changed
<1>2. ASSUME NEW f \in Files, NEW c \in States, Edit(f, c)
      PROVE  Touched \subseteq Touched' /\ \A g \in Files \ Touched' : disk'[g] = disk[g]
  BY <1>2 DEF Edit, Touched, Changed
<1>3. ASSUME NEW g \in Files, BarrierRepairs(g)
      PROVE  Touched \subseteq Touched' /\ \A f \in Files \ Touched' : disk'[f] = disk[f]
  <2>1. UNCHANGED <<disk, owed>> /\ g \in owed
    BY <1>3 DEF BarrierRepairs
  <2> QED
    BY <1>3, <2>1, BarrierSees DEF Touched, Changed
<1>4. ASSUME NEW S \in SUBSET owed, WatcherChecks(S)
      PROVE  Touched \subseteq Touched' /\ \A f \in Files \ Touched' : disk'[f] = disk[f]
  <2>1. UNCHANGED disk /\ owed' = owed \ S
    BY <1>4 DEF WatcherChecks
  <2>2. ASSUME NEW f \in S
        PROVE  changes'[f] \in {"added", "modified", "removed"} /\ f \in Files
    <3> DEFINE seen == IF disk[f] = Absent THEN "removed"
                       ELSE IF f \in known THEN "modified" ELSE "added"
    <3>1. f \in Files /\ changes'[f] = Coalesced(changes[f], seen)
      BY <1>4, WatcherSees
    <3>2. seen \in Kinds \ {"none"} /\ changes[f] \in Kinds
      BY <3>1 DEF Kinds
    <3>3. Coalesced(changes[f], seen) \in Kinds \ {"none"}
      BY <3>2, CoalescedKinds
    <3> QED
      BY <3>1, <3>3 DEF Kinds
  <2>3. \A f \in Files \ S : changes'[f] = changes[f]
    BY <1>4, WatcherSees
  <2> QED
    BY <2>1, <2>2, <2>3 DEF Touched, Changed
<1>5. ASSUME NEW f \in Sources, ParseOne(f) \/ Age(f)
      PROVE  UNCHANGED <<disk, watchVars>>
  BY <1>5 DEF ParseOne, Stat, ReadFails, Parse, ParseTimesOut, Reading, Age
<1>6. ASSUME NEW a \in Holds, BeginBuild(a)
      PROVE  UNCHANGED <<disk, watchVars>>
  BY <1>6 DEF BeginBuild
<1>7. CASE Spill \/ Flush \/ PutStamps \/ Prune \/ Assemble \/ Cancel
  BY <1>1, <1>7 DEF Spill, Flush, PutStamps, Prune, Assemble, Cancel
<1>8. CASE UNCHANGED vars
  BY <1>1, <1>8 DEF vars
<1> QED
  BY <1>1, <1>2, <1>3, <1>4, <1>5, <1>6, <1>7, <1>8 DEF Next

\* What a build scans is the disk, and no row is decided yet.
LEMMA BuildReflects ==
  ASSUME TypeOK, NEW a \in Holds, BeginBuild(a)
  PROVE  /\ Reflects(made', todo', Touched', disk') /\ Shaped(made') /\ made'.products = {}
         /\ todo' \subseteq made'.files /\ \A f \in todo' : made'.rows[f] = None
         /\ run' = "build" /\ step' = "parse" /\ ~reuse'
<1> USE DEF TypeOK
<1> DEFINE files == {f \in Files : Indexable(f)}
<1>1. /\ made' = [NoIndex EXCEPT !.files = files, !.meta = Detected(files),
                                 !.tooLarge = {f \in Sources : disk[f] \in Huge}]
      /\ todo' = files \cap Sources /\ run' = "build" /\ step' = "parse" /\ reuse' = FALSE
      /\ UNCHANGED disk
  BY DEF BeginBuild, Starts
<1>2. /\ made'.files = files /\ made'.tooLarge = {f \in Sources : disk[f] \in Huge}
      /\ made'.products = {} /\ made'.rows = [f \in Sources |-> None]
  BY <1>1 DEF NoIndex
<1>3. Reflects(made', todo', Touched', disk')
  BY <1>1, <1>2 DEF Reflects, Indexable
<1> QED
  BY <1>1, <1>2, <1>3 DEF Shaped

\* The fields of the index that an apply starts with.
LEMMA ApplyFields ==
  ASSUME TypeOK, NEW a \in Holds, BeginApply(a)
  PROVE  /\ made'.files = FilesAfter
         /\ made'.tooLarge = (index.tooLarge \ (Changed({"removed"}) \cup FilesAfter))
                                \cup (Outgrown \cap Sources)
         /\ made'.meta = MetaAfter /\ made'.products = {}
         /\ \A f \in Sources :
              LET kept == f \in FilesAfter /\ f \notin ToParse IN
              /\ made'.rows[f] = IF kept /\ f \in index.products THEN index.rows[f] ELSE None
              /\ made'.failures[f] = IF kept THEN index.failures[f] ELSE "none"
         /\ todo' = ToParse /\ run' = "apply" /\ step' = "parse"
         /\ reuse' = (FilesAfter = index.files /\ MetaAfter = index.meta)
         /\ changes' = NoChange /\ ready
         /\ UNCHANGED <<disk, owed, known, ready, index>>
BY DEF BeginApply, Starts, NoIndex, indexVars

\* An apply drops what is removed, lists what it has to read, and keeps the rest.
LEMMA ApplyReflects ==
  ASSUME TypeOK, Kept, NEW a \in Holds, BeginApply(a)
  PROVE  Reflects(made', todo', Touched', disk')
<1> USE DEF TypeOK
<1>1. Reflects(index, {}, Touched, disk) /\ Shaped(index)
  BY ApplyFields DEF Kept, Served, BeginApply, Starts
<1>2. Touched' = owed
  BY ApplyFields DEF Touched, Changed, NoChange
<1> SUFFICES ASSUME NEW f \in Files \ owed
             PROVE  /\ f \in FilesAfter <=> disk[f] \in Contents \ Huge
                    /\ f \in Sources => (f \in made'.tooLarge <=> disk[f] \in Huge)
                    /\ f \in Sources \ ToParse =>
                         \/ made'.rows[f] = disk[f] /\ disk[f] \in Contents \ Huge
                         \/ /\ made'.rows[f] = None
                            /\ disk[f] \in Contents \ Huge => made'.failures[f] # "none"
  BY <1>2, ApplyFields DEF Reflects
<1>3. disk[f] \in Contents \cup {Absent} /\ Absent \notin Contents /\ Huge \subseteq Contents
  BY IncrementalIndexAssumption DEF IncrementalIndexAssumption, States
<1>4. CASE changes[f] = "none"
  <2>1. f \notin Touched
    BY <1>4 DEF Touched, Changed
  <2>2. f \in FilesAfter <=> f \in index.files
    BY <1>4 DEF FilesAfter, Dirty, Outgrown, Changed
  <2>3. f \notin Dirty /\ f \notin Outgrown /\ f \notin Changed({"removed"})
    BY <1>4 DEF Dirty, Outgrown, Changed
  <2>4. f \in FilesAfter <=> disk[f] \in Contents \ Huge
    BY <1>1, <2>1, <2>2 DEF Reflects
  <2>5. f \in Sources => (f \in made'.tooLarge <=> disk[f] \in Huge)
    BY <1>1, <1>3, <2>1, <2>3, <2>4, ApplyFields DEF Reflects
  <2>6. ASSUME f \in Sources \ ToParse
        PROVE  \/ made'.rows[f] = disk[f] /\ disk[f] \in Contents \ Huge
               \/ /\ made'.rows[f] = None
                  /\ disk[f] \in Contents \ Huge => made'.failures[f] # "none"
    <3>1. \/ index.rows[f] = disk[f] /\ disk[f] \in Contents \ Huge
          \/ index.rows[f] = None /\ (disk[f] \in Contents \ Huge => index.failures[f] # "none")
      BY <1>1, <2>1, <2>6 DEF Reflects
    <3>2. CASE f \in index.products
      BY <1>1, <2>4, <2>6, <3>1, <3>2, ApplyFields DEF Shaped
    <3>3. CASE f \notin index.products
      <4>1. f \in FilesAfter => index.failures[f] # "none"
        BY <2>6, <3>3 DEF ToParse
      <4> QED
        BY <2>4, <2>6, <3>3, <4>1, ApplyFields
    <3> QED
      BY <3>2, <3>3
  <2> QED
    BY <2>4, <2>5, <2>6
<1>5. CASE changes[f] = "removed"
  <2>1. disk[f] = Absent
    BY <1>5 DEF Kept, ChangesTell
  <2>2. f \notin FilesAfter /\ f \in Changed({"removed"}) /\ f \notin Outgrown
    BY <1>5 DEF FilesAfter, Dirty, Outgrown, Changed
  <2> QED
    BY <1>3, <2>1, <2>2, ApplyFields
<1>6. CASE changes[f] \in {"added", "modified"}
  <2>1. disk[f] # Absent
    BY <1>6 DEF Kept, ChangesTell
  <2>2. CASE disk[f] \in Huge
    <3>1. f \in Outgrown /\ f \notin FilesAfter
      BY <1>6, <2>2 DEF FilesAfter, Outgrown, Changed
    <3> QED
      BY <2>2, <3>1, ApplyFields
  <2>3. CASE disk[f] \notin Huge
    <3>1. f \in Dirty /\ f \notin Outgrown
      BY <1>6, <2>3 DEF Dirty, Outgrown, Changed
    <3>2. f \in FilesAfter
      BY <3>1 DEF FilesAfter
    <3>3. f \in Sources => f \in ToParse
      BY <3>1, <3>2 DEF ToParse
    <3> QED
      BY <1>3, <2>1, <2>3, <3>1, <3>2, <3>3, ApplyFields
  <2> QED
    BY <2>2, <2>3
<1> QED
  BY <1>4, <1>5, <1>6 DEF Kinds

\* Steps that leave the served index and the running one alone.
LEMMA Unmoved ==
  ASSUME TypeOK, Served, Underway, Touched \subseteq Touched',
         \A f \in Files \ Touched' : disk'[f] = disk[f],
         UNCHANGED <<ready, index, run, step, made, reuse, todo>>
  PROVE  Served' /\ Underway'
<1>1. ASSUME NEW i, NEW open, Reflects(i, open, Touched, disk)
      PROVE  Reflects(i, open, Touched', disk')
  BY <1>1, ReflectsStays
<1>2. Served'
  BY <1>1 DEF Served
<1>3. Underway'
  BY <1>1 DEF Underway
<1> QED
  BY <1>2, <1>3

\* One source is decided: by its stamp, by a parse, or by a failure.
LEMMA ParseStep ==
  ASSUME TypeOK, Kept, NEW f \in Sources, ParseOne(f)
  PROVE  Served' /\ Underway'
<1> USE IncrementalIndexAssumption DEF IncrementalIndexAssumption, TypeOK
<1>1. /\ UNCHANGED <<disk, owed, known, changes, ready, index, run, step, reuse>>
      /\ run # "none" /\ step = "parse" /\ f \in todo
  BY DEF ParseOne, Stat, ReadFails, Parse, ParseTimesOut, Reading, watchVars, indexVars
<1>2. /\ Served /\ Shaped(made) /\ made.products = {} /\ Reflects(made, todo, Touched, disk)
      /\ todo \subseteq made.files /\ \A g \in todo : made.rows[g] = None
      /\ run = "apply" => ready
      /\ reuse => run = "apply" /\ made.files = index.files /\ made.meta = index.meta
  BY <1>1 DEF Kept, Underway
<1>3. Touched' = Touched
  BY <1>1 DEF Touched, Changed
<1>4. Served'
  BY <1>1, <1>2, <1>3 DEF Served
<1>5. CASE todo' = todo /\ made' = made
  BY <1>1, <1>2, <1>3, <1>4, <1>5 DEF Underway
<1>6. CASE todo' = todo \ {f} /\ \E c \in Contents : Indexed(f, c) /\ c = disk[f]
  <2>1. /\ made'.files = made.files /\ made'.tooLarge = made.tooLarge
        /\ made'.products = made.products /\ made'.meta = made.meta
        /\ made'.rows = [made.rows EXCEPT ![f] = disk[f]]
        /\ \A g \in Sources \ {f} : made'.failures[g] = made.failures[g]
    BY <1>6 DEF Indexed, Indexes
  <2>2. \A g \in Sources \ {f} : made'.rows[g] = made.rows[g]
    BY <2>1
  <2>3. made'.rows[f] = disk[f]
    BY <2>1 DEF Indexes
  <2>4. Reflects(made', todo', Touched, disk)
    BY <1>1, <1>2, <1>6, <2>1, <2>2, <2>3 DEF Reflects
  <2> QED
    BY <1>1, <1>2, <1>3, <1>4, <1>6, <2>1, <2>2, <2>4 DEF Underway, Shaped
<1>7. CASE todo' = todo \ {f} /\ \E reason \in {"transient", "permanent"} : Fails(f, reason)
  <2>1. /\ made'.files = made.files /\ made'.tooLarge = made.tooLarge
        /\ made'.products = made.products /\ made'.meta = made.meta /\ made'.rows = made.rows
        /\ \A g \in Sources \ {f} : made'.failures[g] = made.failures[g]
        /\ made'.failures[f] # "none"
    BY <1>7 DEF Fails, Indexes
  <2>2. Reflects(made', todo', Touched, disk)
    BY <1>1, <1>2, <1>7, <2>1 DEF Reflects
  <2> QED
    BY <1>1, <1>2, <1>3, <1>4, <1>7, <2>1, <2>2 DEF Underway, Shaped
<1>8. CASE Stat(f)
  <2>1. CASE StampHit(f)
    <3>1. stamp[f] = disk[f] /\ stamp[f] \in Contents
      BY <2>1 DEF StampHit, Kept, StoreTells
    <3>2. todo' = todo \ {f} /\ Indexed(f, stamp[f])
      BY <1>8, <2>1 DEF Stat
    <3> QED
      BY <1>6, <3>1, <3>2
  <2>2. CASE ~StampHit(f)
    BY <1>5, <1>8, <2>2 DEF Stat
  <2> QED
    BY <2>1, <2>2
<1>9. CASE ReadFails(f)
  BY <1>7, <1>9 DEF ReadFails, Reading
<1>10. CASE Parse(f)
  <2>1. todo' = todo \ {f} /\ disk[f] \in Contents
    BY <1>10 DEF Parse, Reading, Files, States
  <2>2. CASE disk[f] \in Unparsable
    BY <1>7, <1>10, <2>1, <2>2 DEF Parse
  <2>3. CASE disk[f] \notin Unparsable
    BY <1>6, <1>10, <2>1, <2>3 DEF Parse
  <2> QED
    BY <2>2, <2>3
<1>11. CASE ParseTimesOut(f)
  BY <1>7, <1>11 DEF ParseTimesOut, Reading
<1> QED
  BY <1>8, <1>9, <1>10, <1>11 DEF ParseOne

\* What is served after a run is what the run made, and its imports are resolved against it.
LEMMA AssembleStep ==
  ASSUME TypeOK, Kept, Assemble
  PROVE  Served' /\ Underway'
<1> USE IncrementalIndexAssumption DEF IncrementalIndexAssumption, TypeOK
<1>1. PICK evicted \in SUBSET {f \in Sources : made.rows[f] # None} :
           index' = [made EXCEPT
                       !.products = {f \in Sources : made.rows[f] # None} \ evicted,
                       !.resolved = [f \in Sources |-> ResolvedAs(f)]]
  BY DEF Assemble
<1>2. /\ index'.files = made.files /\ index'.tooLarge = made.tooLarge /\ index'.meta = made.meta
      /\ index'.rows = made.rows /\ index'.failures = made.failures
      /\ index'.products = {f \in Sources : made.rows[f] # None} \ evicted
      /\ \A f \in Sources : index'.resolved[f] = ResolvedAs(f)
  BY <1>1 DEF Indexes
<1>3. /\ UNCHANGED <<disk, owed, known, changes>>
      /\ run' = "none" /\ step' = "parse" /\ ~reuse' /\ step = "assemble"
  BY DEF Assemble, Ended, watchVars
<1>4. /\ todo = {} /\ Reflects(made, todo, Touched, disk)
      /\ reuse => /\ ready /\ made.files = index.files /\ made.meta = index.meta
  BY <1>3 DEF Kept, Underway
<1>5. Touched' = Touched
  BY <1>3 DEF Touched, Changed
<1>6. Reflects(index', {}, Touched', disk')
  BY <1>2, <1>3, <1>4, <1>5 DEF Reflects
<1>7. Shaped(index')
  BY <1>2 DEF Shaped
<1>8. ASSUME NEW f \in Sources
      PROVE  IF made.rows[f] = None THEN ResolvedAs(f).of = None
             ELSE ResolvedAs(f) = [files |-> made.files, meta |-> made.meta, of |-> made.rows[f]]
  <2>1. CASE made.rows[f] = None
    BY <2>1 DEF ResolvedAs, Unresolved
  <2>2. CASE made.rows[f] # None /\ reuse /\ index.resolved[f].of = made.rows[f]
    <3>1. ResolvedHere(index)
      BY <1>4, <2>2 DEF Kept, Served
    <3>2. index.rows[f] # None
      BY <2>2, <3>1 DEF ResolvedHere
    <3>3. index.resolved[f] = [files |-> index.files, meta |-> index.meta, of |-> index.rows[f]]
      BY <3>1, <3>2 DEF ResolvedHere
    <3>4. index.rows[f] = made.rows[f]
      BY <2>2, <3>3
    <3> QED
      BY <1>4, <2>2, <3>3, <3>4 DEF ResolvedAs
  <2>3. CASE made.rows[f] # None /\ ~(reuse /\ index.resolved[f].of = made.rows[f])
    BY <2>3 DEF ResolvedAs
  <2> QED
    BY <2>1, <2>2, <2>3
<1>9. ResolvedHere(index')
  BY <1>2, <1>8 DEF ResolvedHere
<1> QED
  BY <1>3, <1>6, <1>7, <1>9 DEF Served, Underway

LEMMA IndexStep ==
  ASSUME TypeOK, Kept, [Next]_vars
  PROVE  Served' /\ Underway'
<1> USE DEF TypeOK, watchVars, storeVars, indexVars, parseVars, runVars, bounds
<1>1. Served /\ Underway
  BY DEF Kept
<1>2. ASSUME UNCHANGED <<ready, index, run, step, made, reuse, todo>>,
             \A a \in Holds : ~BeginApply(a), ~Crash
      PROVE  Served' /\ Underway'
  BY <1>1, <1>2, TouchedStays, Unmoved
<1>3. CASE UNCHANGED vars
  <2>1. /\ Touched' = Touched /\ disk' = disk
        /\ UNCHANGED <<ready, index, run, step, made, reuse, todo>>
    BY <1>3 DEF vars, Touched, Changed
  <2> QED
    BY <1>1, <2>1, Unmoved
<1>4. ASSUME NEW f \in Files, NEW c \in States, Edit(f, c)
      PROVE  Served' /\ Underway'
  <2>1. UNCHANGED <<changes, ready, index, run, step, made, reuse, todo>> /\ owed' = owed \cup {f}
    BY <1>4 DEF Edit
  <2>2. Touched \subseteq Touched' /\ \A g \in Files \ Touched' : disk'[g] = disk[g]
    BY <1>4, <2>1 DEF Edit, Touched, Changed
  <2> QED
    BY <1>1, <2>1, <2>2, Unmoved
<1>5. ASSUME NEW f \in Files, BarrierRepairs(f)
      PROVE  Served' /\ Underway'
  <2>1. UNCHANGED <<disk, ready, index, run, step, made, reuse, todo>>
    BY <1>5 DEF BarrierRepairs
  <2>2. Touched \subseteq Touched'
    <3>1. f \in owed /\ owed' = owed
      BY <1>5 DEF BarrierRepairs
    <3> QED
      BY <1>5, <3>1, BarrierSees DEF Touched, Changed
  <2> QED
    BY <1>1, <2>1, <2>2, Unmoved
<1>6. ASSUME NEW S \in SUBSET owed, WatcherChecks(S)
      PROVE  Served' /\ Underway'
  <2>1. UNCHANGED <<disk, ready, index, run, step, made, reuse, todo>> /\ changes' # NoChange
    <3>1. PICK f \in S : f \in Files
      BY <1>6 DEF WatcherChecks
    <3>2. changes'[f] # "none"
      <4> DEFINE seen == IF disk[f] = Absent THEN "removed"
                         ELSE IF f \in known THEN "modified" ELSE "added"
      <4>1. changes'[f] = Coalesced(changes[f], seen)
        BY <1>6, <3>1, WatcherSees
      <4>2. seen \in Kinds \ {"none"} /\ changes[f] \in Kinds
        BY <3>1 DEF Kinds
      <4> QED
        BY <4>1, <4>2, CoalescedKinds
    <3> QED
      BY <1>6, <3>1, <3>2 DEF WatcherChecks, NoChange
  <2>2. (\A a \in Holds : ~BeginApply(a))
    BY <2>1 DEF BeginApply
  <2>3. CASE Crash
    BY <2>1, <2>3 DEF Crash
  <2>4. CASE ~Crash
    BY <1>2, <2>1, <2>2, <2>4
  <2> QED
    BY <2>3, <2>4
<1>7. ASSUME NEW f \in Sources, Age(f)
      PROVE  Served' /\ Underway'
  <2>1. /\ Touched' = Touched /\ disk' = disk
        /\ UNCHANGED <<ready, index, run, step, made, reuse, todo>>
    BY <1>7 DEF Age, Touched, Changed
  <2> QED
    BY <1>1, <2>1, Unmoved
<1>8. ASSUME NEW a \in Holds, BeginBuild(a)
      PROVE  Served' /\ Underway'
  <2>1. UNCHANGED <<disk, owed, changes, ready, index>> /\ run = "none"
    BY <1>8 DEF BeginBuild, Starts
  <2>2. Touched' = Touched
    BY <2>1 DEF Touched, Changed
  <2>3. Served'
    BY <1>1, <2>1, <2>2 DEF Served
  <2> QED
    BY <1>8, <2>3, BuildReflects DEF Underway
<1>9. ASSUME NEW a \in Holds, BeginApply(a)
      PROVE  Served' /\ Underway'
  <2>1. Served'
    BY <1>1, <1>9, ApplyFields DEF Served
  <2>2. Shaped(made') /\ todo' \subseteq made'.files /\ \A f \in todo' : made'.rows[f] = None
    BY <1>9, ApplyFields DEF Shaped, ToParse
  <2> QED
    BY <1>9, <2>1, <2>2, ApplyFields, ApplyReflects DEF Underway
<1>10. ASSUME NEW f \in Sources, ParseOne(f)
       PROVE  Served' /\ Underway'
  BY <1>10, ParseStep
<1>11. CASE Spill
  <2>1. /\ Touched' = Touched /\ disk' = disk
        /\ UNCHANGED <<ready, index, run, step, made, reuse, todo>>
    BY <1>11 DEF Spill, Touched, Changed
  <2> QED
    BY <1>1, <2>1, Unmoved
<1>12. CASE Flush \/ PutStamps \/ Prune
  <2>1. /\ UNCHANGED <<disk, owed, changes, ready, index, run, made, reuse, todo>>
        /\ run # "none" /\ todo = {}
    BY <1>1, <1>12 DEF Flush, PutStamps, Prune, Underway
  <2>2. Touched' = Touched
    BY <2>1 DEF Touched, Changed
  <2> QED
    BY <1>1, <2>1, <2>2 DEF Served, Underway
<1>13. CASE Assemble
  BY <1>13, AssembleStep
<1>14. CASE Cancel
  <2>1. UNCHANGED <<disk, owed, changes, ready, index>> /\ run = "build"
    BY <1>14 DEF Cancel
  <2>2. run' = "none" /\ step' = "parse" /\ ~reuse'
    BY <1>14 DEF Cancel, Ended
  <2>3. Touched' = Touched
    BY <2>1 DEF Touched, Changed
  <2> QED
    BY <1>1, <2>1, <2>2, <2>3 DEF Served, Underway
<1>15. CASE Crash
  BY <1>15 DEF Crash, Ended, Served, Underway
<1> QED
  BY <1>3, <1>4, <1>5, <1>6, <1>7, <1>8, <1>9, <1>10, <1>11, <1>12, <1>13, <1>14, <1>15 DEF Next

LEMMA KeptInit == Init => Kept
BY DEF Init, Kept, StoreTells, NotesTell, ChangesTell, Served, Underway, NoNotes, NoChange

LEMMA AlwaysKept == Spec => [](TypeOK /\ Kept)
<1>1. Init => TypeOK /\ Kept
  BY TypeInit, KeptInit
<1>2. TypeOK /\ Kept /\ [Next]_vars => (TypeOK /\ Kept)'
  <2> SUFFICES ASSUME TypeOK, Kept, [Next]_vars
               PROVE  TypeOK' /\ Kept'
    OBVIOUS
  <2>1. StoreTells' /\ NotesTell'
    BY StampsStep DEF Kept
  <2>2. ChangesTell'
    BY ChangesStep DEF Kept
  <2> QED
    BY <2>1, <2>2, TypeStep, IndexStep DEF Kept
<1> QED
  BY <1>1, <1>2, PTL DEF Spec

\* A stamp that a start trusts tells what its file holds (stamp_hit), whatever was written
\* between the reads and the writes of builds, and wherever one was stopped.
THEOREM StampsTell == Spec => []StoreTells
<1>1. Kept => StoreTells
  BY DEF Kept
<1> QED
  BY <1>1, AlwaysKept, PTL

\* An index that index_repo_incremental has kept up has the paths, the rows and the failures that
\* a build of the disk would give it, even if barriers take files in before the watcher does.
THEOREM IndexAsRebuilt == Spec => []AsRebuilt
<1>1. TypeOK /\ Kept => AsRebuilt
  <2> SUFFICES ASSUME TypeOK, Kept, Settled
               PROVE  /\ index.files = {f \in Files : Indexable(f)}
                      /\ index.tooLarge = {f \in Sources : disk[f] \in Huge}
                      /\ \A f \in Sources :
                            \/ index.rows[f] = disk[f] /\ Indexable(f)
                            \/ index.rows[f] = None /\ (Indexable(f) => index.failures[f] # "none")
    BY DEF AsRebuilt
  <2>1. Touched = {}
    BY DEF Settled, Touched, Changed, NoChange
  <2>2. Reflects(index, {}, {}, disk)
    BY <2>1 DEF Settled, Kept, Served
  <2>3. index.files \subseteq Files /\ index.tooLarge \subseteq Sources
    BY DEF TypeOK, Indexes
  <2> QED
    BY <2>2, <2>3 DEF Reflects, Indexable, Files
<1> QED
  BY <1>1, AlwaysKept, PTL

-----------------------------------------------------------------------------
\* What the resolvers have read

\* Steps that leave the watcher's view of the configs alone.
LEMMA ConfigsStay ==
  ASSUME NEW i, ConfigsRead(i, Touched, disk, changes, known),
         Touched \subseteq Touched', \A f \in Files \ Touched' : disk'[f] = disk[f],
         \A c \in Configs : changes'[c] = changes[c], known' = known
  PROVE  ConfigsRead(i, Touched', disk', changes', known')
BY DEF ConfigsRead, Files

\* A step that has the index take in a config finds it in the watcher's snapshot, and what the
\* watcher has still to deliver does not add it: no query's repair and no build's scan of the disk
\* gets ahead of the report that a config is there.
ConfigsAnnounced ==
    /\ \A c \in Configs : BarrierRepairs(c) /\ disk[c] # Absent => c \in known
    /\ \A a \in Holds : \A c \in Configs :
          BeginBuild(a) /\ Indexable(c) => c \in known /\ changes[c] # "added"

\* A build's scan finds only configs that the watcher knows.
LEMMA BuildReads ==
  ASSUME TypeOK, ConfigsAnnounced, NEW a \in Holds, BeginBuild(a)
  PROVE  ConfigsRead(made', Touched', disk', changes', known')
<1> USE DEF TypeOK
<1> DEFINE files == {f \in Files : Indexable(f)}
<1>1. /\ made' = [NoIndex EXCEPT !.files = files, !.meta = Detected(files),
                                 !.tooLarge = {f \in Sources : disk[f] \in Huge}]
      /\ UNCHANGED <<disk, known, changes>>
  BY DEF BeginBuild, watchVars
<1>2. made'.files = files /\ made'.meta = Detected(files)
  BY <1>1 DEF NoIndex
<1>3. ASSUME NEW c \in Configs, c \in files
      PROVE  c \in known /\ changes[c] # "added"
  BY <1>3 DEF ConfigsAnnounced
<1>4. \A c \in Configs : Detected(files)[c] = IF c \in files THEN disk[c] ELSE Absent
  BY DEF Detected
<1> HIDE DEF files
<1> QED
  BY <1>1, <1>2, <1>3, <1>4 DEF ConfigsRead

\* The resolvers detect again if an apply brings a config that they have not read.
LEMMA ApplyReads ==
  ASSUME TypeOK, ConfigsKept, NEW a \in Holds, BeginApply(a)
  PROVE  ConfigsRead(made', Touched', disk', changes', known')
<1> USE DEF TypeOK
<1>1. /\ made'.files = FilesAfter /\ made'.meta = MetaAfter /\ changes' = NoChange /\ ready
      /\ UNCHANGED <<disk, owed, known>> /\ run # "apply"
  BY ApplyFields DEF BeginApply, Starts
<1>2. ConfigsRead(index, Touched, disk, changes, known)
  BY <1>1 DEF ConfigsKept
<1>3. Touched' = owed
  BY <1>1 DEF Touched, Changed, NoChange
<1>4. ASSUME NEW c \in Configs, c \in FilesAfter
      PROVE  c \in known
  <2>1. /\ c \in Files
        /\ \/ changes[c] \in {"added", "modified"}
           \/ c \in index.files /\ changes[c] # "removed"
    BY <1>4 DEF FilesAfter, Dirty, Changed, Files
  <2> QED
    BY <1>2, <2>1 DEF ConfigsKept, ConfigsRead
<1>5. CASE MetaAfter = Detected(FilesAfter)
  <2>1. \A c \in Configs : MetaAfter[c] = IF c \in FilesAfter THEN disk[c] ELSE Absent
    BY <1>5 DEF Detected
  <2> QED
    BY <1>1, <1>3, <1>4, <2>1 DEF ConfigsRead, NoChange, Files
<1>6. CASE /\ FilesAfter = index.files /\ MetaAfter = index.meta
           /\ Changed({"modified"}) \cap Configs \cap index.files = {}
  <2>1. ASSUME NEW c \in Configs, c \in FilesAfter
        PROVE  c \in owed \/ MetaAfter[c] = disk[c]
    <3>1. changes[c] \notin {"removed", "modified", "added"}
      BY <1>2, <1>6, <2>1 DEF ConfigsRead, FilesAfter, Dirty, Changed, Files
    <3>2. c \in Touched => c \in owed
      BY <3>1 DEF Touched, Changed
    <3> QED
      BY <1>2, <1>6, <2>1, <3>2 DEF ConfigsRead
  <2>2. \A c \in Configs : c \notin FilesAfter => MetaAfter[c] = Absent
    BY <1>2, <1>6 DEF ConfigsRead
  <2> QED
    BY <1>1, <1>3, <1>4, <2>1, <2>2 DEF ConfigsRead, NoChange, Files
<1> QED
  BY <1>5, <1>6 DEF MetaAfter

\* A check of the watcher reports a config that the index has as modified or removed.
LEMMA CheckReads ==
  ASSUME TypeOK, NEW S \in SUBSET owed, WatcherChecks(S),
         Touched \subseteq Touched', \A f \in Files \ Touched' : disk'[f] = disk[f],
         NEW i, ConfigsRead(i, Touched, disk, changes, known)
  PROVE  ConfigsRead(i, Touched', disk', changes', known')
<1> USE DEF TypeOK
<1>1. known' = (known \ S) \cup (Present \cap S)
  BY DEF WatcherChecks
<1> SUFFICES ASSUME NEW c \in Configs, c \in i.files
             PROVE  /\ c \in Touched' \/ i.meta[c] = disk'[c]
                    /\ changes'[c] # "added" /\ (c \in known' \/ changes'[c] = "removed")
  BY DEF ConfigsRead
<1>2. /\ c \in Touched \/ i.meta[c] = disk[c]
      /\ changes[c] # "added" /\ (c \in known \/ changes[c] = "removed")
  BY DEF ConfigsRead
<1>3. c \in Touched' \/ i.meta[c] = disk'[c]
  BY <1>2 DEF Files
<1>4. CASE c \notin S
  BY <1>1, <1>2, <1>3, <1>4, WatcherSees DEF Files
<1>5. CASE c \in S
  <2> DEFINE seen == IF disk[c] = Absent THEN "removed"
                     ELSE IF c \in known THEN "modified" ELSE "added"
  <2>1. changes'[c] = Coalesced(changes[c], seen) /\ changes[c] \in Kinds /\ c \in Files
    BY <1>5, WatcherSees DEF Files
  <2>2. seen \in Kinds \ {"none"}
    BY DEF Kinds
  <2>3. CASE disk[c] = Absent
    <3>1. changes'[c] = "removed"
      BY <2>1, <2>2, <2>3, CoalescedKinds
    <3> QED
      BY <1>3, <3>1
  <2>4. CASE disk[c] # Absent
    <3>1. c \in known'
      BY <1>1, <1>5, <2>1, <2>4 DEF Present
    <3>2. changes'[c] = "modified"
      BY <1>2, <2>1, <2>2, <2>4, CoalescedKinds
    <3> QED
      BY <1>3, <3>1, <3>2
  <2> QED
    BY <2>3, <2>4
<1> QED
  BY <1>4, <1>5

\* A query's repair queues a config that it finds as modified, and one that it does not find as
\* removed, whatever is queued.
LEMMA RepairReads ==
  ASSUME TypeOK, ConfigsAnnounced, NEW f \in Files, BarrierRepairs(f),
         Touched \subseteq Touched', UNCHANGED <<disk, known>>,
         NEW i, ConfigsRead(i, Touched, disk, changes, known)
  PROVE  ConfigsRead(i, Touched', disk', changes', known')
<1> USE DEF TypeOK
<1> SUFFICES ASSUME NEW c \in Configs, c \in i.files
             PROVE  /\ c \in Touched' \/ i.meta[c] = disk'[c]
                    /\ changes'[c] # "added" /\ (c \in known' \/ changes'[c] = "removed")
  BY DEF ConfigsRead
<1>1. /\ c \in Touched \/ i.meta[c] = disk[c]
      /\ changes[c] # "added" /\ (c \in known \/ changes[c] = "removed")
  BY DEF ConfigsRead
<1>2. CASE c # f
  BY <1>1, <1>2, BarrierSees DEF Files
<1>3. CASE c = f
  <2> DEFINE read == IF disk[c] = Absent THEN "removed" ELSE "modified"
  <2>1. changes'[c] = Coalesced(changes[c], read) /\ changes[c] \in Kinds /\ read \in Kinds \ {"none"}
    BY <1>3, BarrierSees DEF Kinds
  <2>2. disk[c] = Absent \/ c \in known
    BY <1>3 DEF ConfigsAnnounced
  <2>3. changes'[c] # "added" /\ (disk[c] = Absent => changes'[c] = "removed")
    BY <1>1, <2>1, CoalescedKinds
  <2> QED
    BY <1>1, <2>2, <2>3
<1> QED
  BY <1>2, <1>3

LEMMA ConfigsStep ==
  ASSUME TypeOK, Kept, ConfigsKept, ConfigsAnnounced, [Next]_vars
  PROVE  ConfigsKept'
<1> USE DEF TypeOK, watchVars, storeVars, indexVars, parseVars, runVars, bounds
<1>1. ASSUME \A c \in Configs : changes'[c] = changes[c], known' = known,
             Touched \subseteq Touched', \A f \in Files \ Touched' : disk'[f] = disk[f],
             ready' /\ run' # "apply" => ready /\ run # "apply" /\ index' = index,
             run' # "none" => run # "none" /\ made'.files = made.files /\ made'.meta = made.meta
      PROVE  ConfigsKept'
  <2>1. ASSUME NEW i, ConfigsRead(i, Touched, disk, changes, known)
        PROVE  ConfigsRead(i, Touched', disk', changes', known')
    BY <1>1, <2>1, ConfigsStay
  <2>2. ready' /\ run' # "apply" => ConfigsRead(index', Touched', disk', changes', known')
    BY <1>1, <2>1 DEF ConfigsKept
  <2>3. run' # "none" => ConfigsRead(made, Touched', disk', changes', known')
    BY <1>1, <2>1 DEF ConfigsKept
  <2>4. run' # "none" => ConfigsRead(made', Touched', disk', changes', known')
    BY <1>1, <2>3 DEF ConfigsRead
  <2> QED
    BY <1>1, <2>2, <2>4 DEF ConfigsKept
<1>2. CASE UNCHANGED vars
  BY <1>1, <1>2 DEF vars, Touched, Changed
<1>3. ASSUME NEW f \in Files, NEW c \in States, Edit(f, c)
      PROVE  ConfigsKept'
  BY <1>1, <1>3 DEF Edit, Touched, Changed
<1>4. ASSUME NEW f \in Files, BarrierRepairs(f)
      PROVE  ConfigsKept'
  <2>1. UNCHANGED <<disk, owed, known, ready, index, run, made>> /\ f \in owed
    BY <1>4 DEF BarrierRepairs
  <2>2. Touched \subseteq Touched'
    BY <1>4, <2>1, BarrierSees DEF Touched, Changed
  <2>3. ASSUME NEW i, ConfigsRead(i, Touched, disk, changes, known)
        PROVE  ConfigsRead(i, Touched', disk', changes', known')
    BY <1>4, <2>1, <2>2, <2>3, RepairReads
  <2>4. ASSUME NEW c \in Configs, changes'[c] \in {"added", "modified"}
        PROVE  c \in known'
    <3>1. CASE c # f
      BY <1>4, <2>1, <2>4, <3>1, BarrierSees DEF ConfigsKept, Files
    <3>2. CASE c = f
      <4>1. disk[c] # Absent
        BY <1>4, <2>4, <3>2, BarrierSees, CoalescedKinds DEF Kinds
      <4> QED
        BY <1>4, <2>1, <3>2, <4>1 DEF ConfigsAnnounced
    <3> QED
      BY <3>1, <3>2
  <2> QED
    BY <2>1, <2>3, <2>4 DEF ConfigsKept
<1>5. ASSUME NEW S \in SUBSET owed, WatcherChecks(S), ~Crash
      PROVE  ConfigsKept'
  <2>1. UNCHANGED <<disk, ready, index, run, made>> /\ run' = run
    BY <1>5 DEF WatcherChecks
  <2>2. Touched \subseteq Touched' /\ \A f \in Files \ Touched' : disk'[f] = disk[f]
    <3>1. CASE \A a \in Holds : ~BeginApply(a)
      BY <1>5, <3>1, TouchedStays
    <3>2. CASE \E a \in Holds : BeginApply(a)
      BY <2>1, <3>2 DEF BeginApply, Starts
    <3> QED
      BY <3>1, <3>2
  <2>3. ASSUME NEW i, ConfigsRead(i, Touched, disk, changes, known)
        PROVE  ConfigsRead(i, Touched', disk', changes', known')
    BY <1>5, <2>2, <2>3, CheckReads
  <2>4. ASSUME NEW c \in Configs, changes'[c] \in {"added", "modified"}
        PROVE  c \in known'
    <3>1. known' = (known \ S) \cup (Present \cap S) /\ c \in Files
      BY <1>5 DEF WatcherChecks, Files
    <3>2. CASE c \notin S
      BY <1>5, <2>4, <3>1, <3>2, WatcherSees DEF ConfigsKept
    <3>3. CASE c \in S
      <4> DEFINE seen == IF disk[c] = Absent THEN "removed"
                         ELSE IF c \in known THEN "modified" ELSE "added"
      <4>1. changes'[c] = Coalesced(changes[c], seen) /\ changes[c] \in Kinds
        BY <1>5, <3>1, <3>3, WatcherSees
      <4>2. seen \in Kinds \ {"none"}
        BY DEF Kinds
      <4>3. disk[c] # Absent
        BY <2>4, <4>1, <4>2, CoalescedKinds
      <4> QED
        BY <3>1, <3>3, <4>3 DEF Present
    <3> QED
      BY <3>2, <3>3
  <2> QED
    BY <2>1, <2>3, <2>4 DEF ConfigsKept
<1>6. ASSUME NEW f \in Sources, Age(f)
      PROVE  ConfigsKept'
  BY <1>1, <1>6 DEF Age, Touched, Changed
<1>7. ASSUME NEW a \in Holds, BeginBuild(a)
      PROVE  ConfigsKept'
  <2>1. UNCHANGED <<disk, owed, known, changes, ready, index>> /\ run = "none" /\ Touched' = Touched
    BY <1>7 DEF BeginBuild, Starts, Touched, Changed
  <2>2. ConfigsRead(made', Touched', disk', changes', known')
    BY <1>7, BuildReads
  <2> QED
    BY <2>1, <2>2 DEF ConfigsKept
<1>8. ASSUME NEW a \in Holds, BeginApply(a)
      PROVE  ConfigsKept'
  <2>1. run' = "apply" /\ changes' = NoChange
    BY <1>8, ApplyFields
  <2>2. ConfigsRead(made', Touched', disk', changes', known')
    BY <1>8, ApplyReads
  <2> QED
    BY <2>1, <2>2 DEF ConfigsKept, NoChange, Files
<1>9. ASSUME NEW f \in Sources, ParseOne(f)
      PROVE  ConfigsKept'
  <2>1. UNCHANGED <<disk, owed, changes, known, ready, index, run>>
    BY <1>9 DEF ParseOne, Stat, ReadFails, Parse, ParseTimesOut, Reading
  <2>2. made'.files = made.files /\ made'.meta = made.meta
    <3>1. ASSUME NEW c, Indexed(f, c)
          PROVE  made'.files = made.files /\ made'.meta = made.meta
      BY <3>1 DEF Indexed, Indexes
    <3>2. ASSUME NEW reason, Fails(f, reason)
          PROVE  made'.files = made.files /\ made'.meta = made.meta
      BY <3>2 DEF Fails, Indexes
    <3>3. CASE Stat(f)
      BY <3>1, <3>3 DEF Stat
    <3>4. CASE ReadFails(f)
      BY <3>2, <3>4 DEF ReadFails
    <3>5. CASE Parse(f)
      BY <3>1, <3>2, <3>5 DEF Parse
    <3>6. CASE ParseTimesOut(f)
      BY <3>2, <3>6 DEF ParseTimesOut
    <3> QED
      BY <1>9, <3>3, <3>4, <3>5, <3>6 DEF ParseOne
  <2>3. Touched' = Touched
    BY <2>1 DEF Touched, Changed
  <2> QED
    BY <1>1, <2>1, <2>2, <2>3
<1>10. CASE Spill \/ Flush \/ PutStamps \/ Prune
  <2>1. UNCHANGED <<disk, owed, changes, known, ready, index, run, made>>
    BY <1>10 DEF Spill, Flush, PutStamps, Prune
  <2>2. Touched' = Touched
    BY <2>1 DEF Touched, Changed
  <2> QED
    BY <1>1, <2>1, <2>2
<1>11. CASE Assemble
  <2>1. /\ UNCHANGED <<disk, owed, changes, known>> /\ run' = "none" /\ run # "none"
    BY <1>11 DEF Assemble, Ended, Kept, Underway
  <2>2. index'.files = made.files /\ index'.meta = made.meta
    BY <1>11 DEF Assemble, Indexes
  <2>3. Touched' = Touched
    BY <2>1 DEF Touched, Changed
  <2>4. ConfigsRead(made, Touched', disk', changes', known')
    BY <2>1, <2>3 DEF ConfigsKept
  <2> QED
    BY <2>1, <2>2, <2>4 DEF ConfigsKept, ConfigsRead
<1>12. CASE Cancel
  <2>1. UNCHANGED <<disk, owed, changes, known, ready, index>> /\ run = "build" /\ run' = "none"
    BY <1>12 DEF Cancel, Ended
  <2>2. Touched' = Touched
    BY <2>1 DEF Touched, Changed
  <2> QED
    BY <1>1, <2>1, <2>2
<1>13. CASE Crash
  BY <1>13 DEF Crash, Ended, ConfigsKept, NoChange, Files
<1> QED
  BY <1>2, <1>3, <1>4, <1>5, <1>6, <1>7, <1>8, <1>9, <1>10, <1>11, <1>12, <1>13 DEF Next

\* No import keeps a resolution that another set of paths or another configuration gave it
\* (assemble_graph_with, redetect), whatever is edited, cancelled, evicted or retried, unless the
\* index took in a config of which the watcher had still to report that it is there.
THEOREM AnnouncedConfigsResolve == Spec /\ [][ConfigsAnnounced]_vars => []ResolvesAsRebuilt
<1>1. Init => ConfigsKept
  BY DEF Init, ConfigsKept, NoChange, Files
<1>2. TypeOK /\ Kept /\ ConfigsKept /\ [Next]_vars /\ [ConfigsAnnounced]_vars => ConfigsKept'
  <2>1. ConfigsKept /\ UNCHANGED vars => ConfigsKept'
    BY DEF ConfigsKept, ConfigsRead, Touched, Changed, vars, watchVars, indexVars, runVars
  <2> QED
    BY <2>1, ConfigsStep
<1>3. TypeOK /\ Kept /\ ConfigsKept => ResolvesAsRebuilt
  <2> SUFFICES ASSUME TypeOK, Kept, ConfigsKept, Settled,
                      NEW f \in Sources, index.rows[f] # None
               PROVE  index.resolved[f] = [files |-> index.files, meta |-> Detected(index.files),
                                           of |-> index.rows[f]]
    BY DEF ResolvesAsRebuilt
  <2>1. ResolvedHere(index) /\ ConfigsRead(index, Touched, disk, changes, known)
    BY DEF Settled, Kept, Served, ConfigsKept
  <2>2. Touched = {}
    BY DEF Settled, Touched, Changed, NoChange
  <2>3. \A c \in Configs : index.meta[c] = IF c \in index.files THEN disk[c] ELSE Absent
    BY <2>1, <2>2 DEF ConfigsRead
  <2>4. index.meta \in [Configs -> States]
    BY DEF TypeOK, Indexes, Metas
  <2>5. index.meta = Detected(index.files)
    BY <2>3, <2>4 DEF Detected
  <2> QED
    BY <2>1, <2>5 DEF ResolvedHere
<1> QED
  BY <1>1, <1>2, <1>3, AlwaysKept, PTL DEF Spec

\* So if the index takes in no config before the watcher reports it.
THEOREM ResolutionsAsRebuilt ==
  ASSUME Ahead \cap Configs = {}
  PROVE  Spec => []ResolvesAsRebuilt
<1>1. [Next]_vars => [ConfigsAnnounced]_vars
  <2>1. ASSUME NEW c \in Configs, BarrierRepairs(c) PROVE FALSE
    BY <2>1 DEF BarrierRepairs
  <2>2. ASSUME NEW a \in Holds, NEW c \in Configs, BeginBuild(a), Indexable(c)
        PROVE  c \in known /\ changes[c] # "added"
    BY <2>2, IncrementalIndexAssumption
       DEF IncrementalIndexAssumption, BeginBuild, Present, Indexable, Files
  <2> QED
    BY <2>1, <2>2 DEF ConfigsAnnounced
<1> QED
  BY <1>1, AnnouncedConfigsResolve, PTL DEF Spec
=============================================================================
