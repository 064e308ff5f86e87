-------------------------- MODULE IncrementalIndex --------------------------
(***************************************************************************)
(* The index of one root, built in full and then kept up by change sets,   *)
(* over a store that outlives the process: astrolabe-core/src/index.rs and *)
(* store.rs, with redetect of resolvers/mod.rs.  RootIndex has the threads *)
(* that run builds and applies and how they publish; here is what one of   *)
(* them reads, what it takes over from the index before it and from the    *)
(* store, and what it leaves in the store if it fails half way.            *)
(*                                                                         *)
(* The store has one writer at a time, by its lock; a run that does not    *)
(* get it reads only, or does without: the runs of the model follow one    *)
(* another.  A file is its content.  Sources are parsed; configs are read  *)
(* by the resolvers and decide, with the set of paths, how the imports of  *)
(* a source resolve.  Two contents have different imports.  A scan and the *)
(* resolvers' reads are one step.  A write keeps the (mtime, length) of a  *)
(* file only within the window in which that pair is not trusted.  The     *)
(* watcher reports every path that was written: RootIndex and Watcher have *)
(* what it may miss.  Left out: the excludes that resolvers declare, files *)
(* without extension, a resolver that panics.                              *)
(***************************************************************************)
EXTENDS Naturals, FiniteSets

CONSTANTS Sources, Configs,
          Contents,             \* what a file may hold
          Absent,               \* a file that does not exist
          None,                 \* no content
          Huge,                 \* contents above max_file_bytes
          Unparsable,           \* contents the parser rejects for good
          Partial,              \* contents with syntax errors
          Ahead,                \* files the index may take in before the watcher reports them
          Holds,                \* the holds on the store that a run may get
          MaxRetries,           \* MAX_FAILURE_RETRIES
          MaxEdits, MaxTimeouts, MaxBuilds  \* bounds on edits, parses over budget and builds

Files == Sources \cup Configs
States == Contents \cup {Absent}

ASSUME IncrementalIndexAssumption ==
    /\ Sources \cap Configs = {}
    /\ Absent \notin Contents /\ None \notin States
    /\ Huge \subseteq Contents /\ Unparsable \subseteq Contents /\ Partial \subseteq Contents
    /\ Unparsable \cap Partial = {}
    /\ Ahead \subseteq Files
    /\ Holds \subseteq {"none", "read", "write"}
    /\ {MaxRetries, MaxEdits, MaxTimeouts, MaxBuilds} \subseteq Nat

VARIABLES
    disk, young,            \* the files, and the sources written within the untrusted window
    owed, known, changes,   \* watcher: not yet seen, its snapshot's paths; the change set queued
    parses, stamp, current, \* store: PARSE_CACHE, FILE_STAMPS, whose (mtime, length) is the disk's
    ready, index,           \* the IncrementalIndex that is served
    run, access, step,      \* the running build or apply, its hold on the store, where it is
    made, reuse,            \* the index it makes; whether resolutions carry over
    todo, stat, noted,      \* to parse; FileStat as observed; ParseSide::stamps
    live, writes,           \* ParseSide::live_keys and live_paths; CacheWrites::pending
    edits, timeouts, builds

watchVars == <<owed, known, changes>>
storeVars == <<parses, stamp, current>>
indexVars == <<ready, index>>
parseVars == <<todo, stat, noted, live, writes>>
runVars == <<run, access, step, made, reuse, parseVars>>
bounds == <<edits, timeouts, builds>>
vars == <<disk, young, watchVars, storeVars, indexVars, runVars, bounds>>

Kinds == {"none", "added", "modified", "removed"}
Metas == [Configs -> States]
Resolutions == [files : SUBSET Files, meta : Metas, of : Contents \cup {None}]

NoMeta == [c \in Configs |-> Absent]
Unresolved == [files |-> {}, meta |-> NoMeta, of |-> None]

\* files: admitted paths.  rows: the graph's files.  products: the sources whose product is
\* cached.  failures, retries: the failure list and how often a transient one was tried again.
Indexes == [files : SUBSET Files, tooLarge : SUBSET Sources, meta : Metas,
            rows : [Sources -> Contents \cup {None}], products : SUBSET Sources,
            failures : [Sources -> {"none", "transient", "permanent", "partial"}],
            retries : [Sources -> 0..MaxRetries], resolved : [Sources -> Resolutions]]

NoIndex == [files |-> {}, tooLarge |-> {}, meta |-> NoMeta, rows |-> [f \in Sources |-> None],
            products |-> {}, failures |-> [f \in Sources |-> "none"],
            retries |-> [f \in Sources |-> 0], resolved |-> [f \in Sources |-> Unresolved]]

NoChange == [f \in Files |-> "none"]
Unseen == [f \in Sources |-> "unseen"]
NoNotes == [f \in Sources |-> None]

\* Types, and the bound on retries.
TypeOK ==
    /\ disk \in [Files -> States] /\ young \in SUBSET Sources
    /\ owed \in SUBSET Files /\ known \in SUBSET Files /\ changes \in [Files -> Kinds]
    /\ parses \in SUBSET Contents /\ stamp \in [Sources -> Contents \cup {None}]
    /\ current \in SUBSET Sources
    /\ ready \in BOOLEAN /\ index \in Indexes
    /\ run \in {"none", "build", "apply"} /\ access \in {"none", "read", "write"}
    /\ step \in {"parse", "stamp", "prune", "assemble"}
    /\ made \in Indexes /\ reuse \in BOOLEAN
    /\ todo \in SUBSET Sources
    /\ stat \in [Sources -> {"unseen", "missing", "young", "old", "outdated"}]
    /\ noted \in [Sources -> Contents \cup {None}]
    /\ live \in [keys : SUBSET Contents, paths : SUBSET Sources] /\ writes \in SUBSET Contents
    /\ edits \in 0..MaxEdits /\ timeouts \in 0..MaxTimeouts /\ builds \in 0..MaxBuilds

NothingLive == [keys |-> {}, paths |-> {}]
Present == {f \in Files : disk[f] # Absent}

Init ==
    /\ disk \in [Files -> States] /\ young = {}
    /\ owed = {} /\ known = Present /\ changes = NoChange
    /\ parses = {} /\ stamp = [f \in Sources |-> None] /\ current = {}
    /\ ready = FALSE /\ index = NoIndex
    /\ run = "none" /\ access = "none" /\ step = "parse" /\ made = NoIndex /\ reuse = FALSE
    /\ todo = {} /\ stat = Unseen /\ noted = NoNotes /\ live = NothingLive /\ writes = {}
    /\ edits = 0 /\ timeouts = 0 /\ builds = 0

-----------------------------------------------------------------------------
\* The disk and the watcher

\* What was stamped or observed of f before is outdated: the new mtime differs from a trusted one.
Edit(f, c) ==
    /\ edits < MaxEdits /\ disk[f] # c
    /\ disk' = [disk EXCEPT ![f] = c]
    /\ young' = IF c = Absent THEN young \ {f} ELSE young \cup ({f} \cap Sources)
    /\ owed' = owed \cup {f}
    /\ current' = current \ {f}
    /\ stat' = [g \in Sources |-> IF g = f /\ stat[g] = "old" THEN "outdated" ELSE stat[g]]
    /\ edits' = edits + 1
    /\ UNCHANGED <<known, changes, parses, stamp, indexVars, run, access, step, made, reuse, todo,
                   noted, live, writes, timeouts, builds>>

\* Two seconds have passed since the last write of f.
Age(f) ==
    /\ f \in young
    /\ young' = young \ {f}
    /\ UNCHANGED <<disk, watchVars, storeVars, indexVars, runVars, bounds>>

\* apply_coalesce
Coalesced(a, b) ==
    CASE b = "none" -> a
      [] b = "removed" -> "removed"
      [] b \in {"added", "modified"} /\ a = "none" -> b
      [] b \in {"added", "modified"} /\ a = "removed" -> "modified"
      [] b \in {"added", "modified"} /\ a \in {"added", "modified"} -> a

\* A check of S: a path that the snapshot did not have is added.
WatcherChecks(S) ==
    LET seen(f) == CASE disk[f] = Absent -> "removed"
                     [] disk[f] # Absent /\ f \in known -> "modified"
                     [] OTHER -> "added"
    IN  /\ S # {} /\ S \subseteq owed
        /\ changes' = [f \in Files |-> IF f \in S THEN Coalesced(changes[f], seen(f))
                                       ELSE changes[f]]
        /\ known' = (known \ S) \cup (Present \cap S)
        /\ owed' = owed \ S
        /\ UNCHANGED <<disk, young, storeVars, indexVars, runVars, bounds>>

\* inline_repair: a query's barrier has the index read a suspect that the watcher will still
\* report; what exists is modified.
BarrierRepairs(f) ==
    /\ f \in owed \cap Ahead /\ ready
    /\ changes' = [changes EXCEPT ![f] =
                     Coalesced(@, IF disk[f] = Absent THEN "removed" ELSE "modified")]
    /\ UNCHANGED <<disk, young, owed, known, storeVars, indexVars, runVars, bounds>>

-----------------------------------------------------------------------------
\* Starting a build or an apply

Indexable(f) == disk[f] \in Contents \ Huge
Detected(files) == [c \in Configs |-> IF c \in files THEN disk[c] ELSE Absent]

Starts(kind, a, sources) ==
    /\ run = "none"
    /\ run' = kind /\ access' = a /\ step' = "parse"
    /\ todo' = sources
    /\ stat' = Unseen /\ noted' = NoNotes /\ live' = NothingLive /\ writes' = {}

\* discover, open_store
BeginBuild(a) ==
    LET files == {f \in Files : Indexable(f)} IN
    /\ builds < MaxBuilds
    /\ \A f \in Present \ Ahead : f \in known /\ changes[f] # "added"
    /\ Starts("build", a, files \cap Sources)
    /\ made' = [NoIndex EXCEPT !.files = files, !.meta = Detected(files),
                               !.tooLarge = {f \in Sources : disk[f] \in Huge}]
    /\ reuse' = FALSE
    /\ builds' = builds + 1
    /\ UNCHANGED <<disk, young, watchVars, storeVars, indexVars, edits, timeouts>>

Changed(kinds) == {f \in Files : changes[f] \in kinds}

\* The change set's paths, less those above the size cap now.
Outgrown == {f \in Changed({"added", "modified"}) : disk[f] \in Huge}
Dirty == Changed({"added", "modified"}) \ Outgrown
FilesAfter == ((index.files \ Changed({"removed"})) \cup Dirty) \ Outgrown

\* Mutant: detect runs for a new path set only.
NeverRedetects == IF FilesAfter # index.files THEN Detected(FilesAfter) ELSE index.meta

\* A resolver that read a modified file detects again; any other path set, all of them.
MetaAfter ==
    IF FilesAfter # index.files \/ Changed({"modified"}) \cap Configs \cap index.files # {}
    THEN Detected(FilesAfter) ELSE index.meta

\* Mutant: it is tried again at every apply.
RetriedForever(f) == f \notin Dirty \cup index.products /\ index.failures[f] = "transient"

\* A transient failure, not yet tried often enough.
Retried(f) ==
    /\ f \notin Dirty \cup index.products
    /\ index.failures[f] = "transient" /\ index.retries[f] < MaxRetries

\* Mutant: a file whose product was evicted is not read again.
ForgetsEvicted == {f \in Sources \cap FilesAfter : f \in Dirty \/ Retried(f)}

\* What is read again: what changed, what may be tried again, and what was evicted.
ToParse ==
    {f \in Sources \cap FilesAfter :
        \/ f \in Dirty \/ Retried(f)
        \/ f \notin index.products /\ index.failures[f] = "none"}

\* index_repo_incremental, up to its parses.
BeginApply(a) ==
    LET kept == (Sources \cap FilesAfter) \ ToParse
        reused == kept \cap index.products
    IN  /\ ready /\ changes # NoChange
        /\ Starts("apply", a, ToParse)
        /\ made' = [NoIndex EXCEPT
              !.files = FilesAfter,
              !.tooLarge = (index.tooLarge \ (Changed({"removed"}) \cup FilesAfter))
                               \cup (Outgrown \cap Sources),
              !.meta = MetaAfter,
              !.rows = [f \in Sources |-> IF f \in reused THEN index.rows[f] ELSE None],
              !.failures = [f \in Sources |-> IF f \in kept THEN index.failures[f] ELSE "none"],
              !.retries = [f \in Sources |-> IF f \in ToParse /\ Retried(f)
                                               THEN index.retries[f] + 1
                                             ELSE IF f \in kept \ reused THEN index.retries[f]
                                             ELSE 0]]
        /\ reuse' = (FilesAfter = index.files /\ MetaAfter = index.meta)
        /\ changes' = NoChange
        /\ UNCHANGED <<disk, young, owed, known, storeVars, indexVars, bounds>>

-----------------------------------------------------------------------------
\* Parsing one file (parse_one), by any of the parallel workers

\* The file is in the graph with the parse of content c.
Indexed(f, c) ==
    made' = [made EXCEPT !.rows[f] = c,
                         !.failures[f] = IF c \in Partial THEN "partial" ELSE "none",
                         !.retries[f] = IF c \in Partial THEN @ ELSE 0]

Fails(f, reason) == made' = [made EXCEPT !.failures[f] = reason]

\* track_live is set in a build only, and used by one that can write.
Lives(f, c) ==
    live' = IF run = "build" /\ access = "write"
            THEN [keys |-> live.keys \cup {c}, paths |-> live.paths \cup {f}] ELSE live

\* stamp_hit: the file is not read.
StampHit(f) ==
    /\ access # "none" /\ f \in current /\ f \notin young
    /\ stamp[f] \in parses

\* metadata, and the stamp that goes with it.
Stat(f) ==
    /\ run # "none" /\ step = "parse" /\ f \in todo /\ stat[f] = "unseen"
    /\ IF StampHit(f)
       THEN /\ Indexed(f, stamp[f])
            /\ Lives(f, stamp[f])
            /\ todo' = todo \ {f}
            /\ UNCHANGED stat
       ELSE /\ stat' = [stat EXCEPT ![f] = CASE disk[f] = Absent -> "missing"
                                             [] f \in young -> "young"
                                             [] OTHER -> "old"]
            /\ UNCHANGED <<made, live, todo>>
    /\ UNCHANGED <<disk, young, watchVars, storeVars, indexVars, run, access, step, reuse, noted,
                   writes, bounds>>

\* Mutant: a stamp is kept however young the file was.
TrustsYoung(f) == stat[f] # "missing"

\* note_stamp
Trusted(f) == stat[f] \in {"old", "outdated"}

Reading(f) ==
    /\ run # "none" /\ step = "parse" /\ f \in todo /\ stat[f] # "unseen"
    /\ todo' = todo \ {f}
    /\ UNCHANGED <<disk, young, watchVars, storeVars, indexVars, run, access, step, reuse, stat,
                   edits, builds>>

\* The file is gone since it was listed.
ReadFails(f) ==
    /\ Reading(f) /\ disk[f] = Absent
    /\ Fails(f, "transient")
    /\ UNCHANGED <<noted, live, writes, timeouts>>

\* The store has the parse, or the parser makes it and the store will get it.
Parse(f) ==
    LET c == disk[f] IN
    /\ Reading(f) /\ c # Absent
    /\ Lives(f, c)
    /\ IF c \in Unparsable
       THEN /\ Fails(f, "permanent")
            /\ UNCHANGED <<noted, writes>>
       ELSE /\ Indexed(f, c)
            /\ noted' = IF access = "write" /\ Trusted(f) THEN [noted EXCEPT ![f] = c] ELSE noted
            /\ writes' = IF access = "write" /\ c \notin parses THEN writes \cup {c} ELSE writes
    /\ UNCHANGED timeouts

\* The parser runs out of its budget.
ParseTimesOut(f) ==
    /\ Reading(f) /\ disk[f] # Absent /\ timeouts < MaxTimeouts
    /\ access = "none" \/ disk[f] \notin parses
    /\ Lives(f, disk[f])
    /\ Fails(f, "transient")
    /\ timeouts' = timeouts + 1
    /\ UNCHANGED <<noted, writes>>

\* CacheWrites::push, above CACHE_FLUSH_BYTES.  A write may fail half way.
Spill ==
    /\ run # "none" /\ step = "parse" /\ writes # {}
    /\ \E written \in SUBSET writes : parses' = parses \cup written
    /\ writes' = {}
    /\ UNCHANGED <<disk, young, watchVars, stamp, current, indexVars, run, access, step, made,
                   reuse, todo, stat, noted, live, bounds>>

-----------------------------------------------------------------------------
\* Writing to the store (persist_cache_writes): each transaction is atomic, any may fail

Flush ==
    /\ run # "none" /\ step = "parse" /\ todo = {}
    /\ step' = IF access = "write" THEN "stamp" ELSE "assemble"
    /\ \E written \in SUBSET writes : parses' = parses \cup written
    /\ writes' = {}
    /\ UNCHANGED <<disk, young, watchVars, stamp, current, indexVars, run, access, made, reuse,
                   todo, stat, noted, live, bounds>>

PutStamps ==
    /\ step = "stamp"
    /\ \E written \in SUBSET {f \in Sources : noted[f] # None} :
          /\ stamp' = [f \in Sources |-> IF f \in written THEN noted[f] ELSE stamp[f]]
          /\ current' = (current \ written) \cup {f \in written : stat[f] # "outdated"}
    /\ step' = IF run = "build" THEN "prune" ELSE "assemble"
    /\ UNCHANGED <<disk, young, watchVars, parses, indexVars, run, access, made, reuse, parseVars,
                   bounds>>

Prune ==
    /\ step = "prune"
    /\ \E keys \in SUBSET (parses \ live.keys) : parses' = parses \ keys
    /\ \E paths \in SUBSET (Sources \ live.paths) :
          /\ stamp' = [f \in Sources |-> IF f \in paths THEN None ELSE stamp[f]]
          /\ current' = current \ paths
    /\ step' = "assemble"
    /\ UNCHANGED <<disk, young, watchVars, indexVars, run, access, made, reuse, parseVars, bounds>>

-----------------------------------------------------------------------------
\* The end of a run

Ended ==
    /\ run' = "none" /\ access' = "none" /\ step' = "parse" /\ made' = NoIndex /\ reuse' = FALSE
    /\ todo' = {} /\ stat' = Unseen /\ noted' = NoNotes /\ live' = NothingLive /\ writes' = {}

\* An import resolution is taken over if the file's imports are the same and neither the set
\* of paths nor the resolvers' metadata have changed.
ResolvedAs(f) ==
    IF made.rows[f] = None THEN Unresolved
    ELSE IF reuse /\ index.resolved[f].of = made.rows[f] THEN index.resolved[f]
    ELSE [files |-> made.files, meta |-> made.meta, of |-> made.rows[f]]

\* assemble_graph_with, and run_pending: over its budget, the cache evicts products.
Assemble ==
    /\ step = "assemble"
    /\ ready' = TRUE
    /\ \E evicted \in SUBSET {f \in Sources : made.rows[f] # None} :
          index' = [made EXCEPT
                      !.products = {f \in Sources : made.rows[f] # None} \ evicted,
                      !.resolved = [f \in Sources |-> ResolvedAs(f)]]
    /\ Ended
    /\ UNCHANGED <<disk, young, watchVars, storeVars, bounds>>

\* A cancelled build writes nothing more.
Cancel ==
    /\ run = "build" /\ step \in {"parse", "assemble"}
    /\ Ended
    /\ UNCHANGED <<disk, young, watchVars, storeVars, indexVars, bounds>>

\* The process dies; the next one has its watcher record what is on disk.
Crash ==
    /\ owed' = {} /\ known' = Present /\ changes' = NoChange
    /\ ready' = FALSE /\ index' = NoIndex
    /\ Ended
    /\ UNCHANGED <<disk, young, storeVars, bounds>>

-----------------------------------------------------------------------------
ParseOne(f) == Stat(f) \/ ReadFails(f) \/ Parse(f) \/ ParseTimesOut(f)

Next ==
    \/ \E f \in Files, c \in States : Edit(f, c)
    \/ \E f \in Sources : Age(f)
    \/ \E f \in Files : BarrierRepairs(f)
    \/ \E S \in SUBSET owed : WatcherChecks(S)
    \/ \E a \in Holds : BeginBuild(a) \/ BeginApply(a)
    \/ \E f \in Sources : ParseOne(f)
    \/ Spill \/ Flush \/ PutStamps \/ Prune \/ Assemble \/ Cancel \/ Crash

Spec == Init /\ [][Next]_vars

-----------------------------------------------------------------------------
\* Properties

\* A stamp whose (mtime, length) is the file's tells what the file holds: a start that trusts
\* it serves what is on disk, whatever was written between the reads and writes of earlier runs
\* and wherever one of them stopped.
StoreTells == \A f \in current : stamp[f] = disk[f]

Settled == ready /\ run = "none" /\ owed = {} /\ changes = NoChange

\* Kept up by change sets, the index is what a build of the disk would make: the same paths,
\* and for each source its present parse or a recorded failure.
AsRebuilt ==
    Settled =>
        /\ index.files = {f \in Files : Indexable(f)}
        /\ index.tooLarge = {f \in Sources : disk[f] \in Huge}
        /\ \A f \in Sources :
              \/ index.rows[f] = disk[f] /\ Indexable(f)
              \/ index.rows[f] = None /\ (Indexable(f) => index.failures[f] # "none")

\* No import keeps a resolution that another set of paths or another configuration gave it.
ResolvesAsRebuilt ==
    Settled =>
        \A f \in Sources : index.rows[f] # None =>
            index.resolved[f] = [files |-> index.files, meta |-> Detected(index.files),
                                 of |-> index.rows[f]]

\* A file with syntax errors is still in the index.  Not kept by the code: README.md, section 4.
PartialIsIndexed ==
    \A f \in Sources : index.failures[f] = "partial" => index.rows[f] # None
=============================================================================
