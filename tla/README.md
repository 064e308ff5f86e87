# Astrolabe: TLA+ models, checks and proofs

Astrolabe is a local MCP server (Rust) that answers code questions for coding
agents: it scans a repository, parses it with tree-sitter, builds a symbol and
reference graph, keeps that index current while files change, and asks language
servers for precise answers.  This directory holds the TLA+ models of its
stateful parts, the TLC configurations that check them and the TLAPS proofs.

Paths below are relative to the repository root (`crates/` is under `src/`).

## 1. The system: inventory

| Component | State | Operations | Interacts with | What is hard | What makes it correct |
|---|---|---|---|---|---|
| Language-server pool (`astrolabe-core/src/lsp/pool.rs`) | one slot per language: server, in-flight count, generation, failure, crash and timeout counters | acquire, call, re-send, retire, drop, reclaim, monitor, shutdown, exit | transport, discovery, live backend, main's exit path | starts, samples and shutdowns run with the slot unlocked; stale guards | guards counted exactly; reclaim never interrupts a request; no server process lost; idle servers reclaimed |
| Shared index (`astrolabe-mcp/src/shared_index/imp.rs`, `server/shared.rs`, `astrolabe-core/src/elect.rs`) | per process: role, connection, listener; `indexer.lock`; the socket file | boot, elect, settle, forward, abandon, on_disconnect, become_leader, promotion watch, shutdown | other Astrolabe processes, the local index | processes come and go; election races; timeouts against late settling | one writer; a follower of a dead leader recovers; nothing left open after shutdown |
| Reindex and index state (`reindex.rs`, `session.rs`) | Building/Ready/Failed, current graph, pending changes, journal, failures | cold build, apply, background rebuild, swap | watcher, queries, incremental index | rebuild racing an apply, a query and the cold build | no write is lost; a failed rebuild keeps the old index |
| Watcher (`watch.rs`) | snapshot of stamps, intake, the batch held back | notify, directed check, full check, poll, repaired marks | reindexer, freshness log | events lost, coalesced, late; writes inside the mtime tick; a scan racing a write | no write is forgotten: it is reported, or the next check will find it |
| Change sets (`watch.rs`, `reindex.rs`) | pending change set | merge, coalesce | watcher, index | order-sensitive merging | what is sent replays to the snapshot's files |
| Freshness log and barrier (`watch.rs`, `freshness.rs`, `session.rs`) | suspects with times, watermark, distrust flag | note, verify, clear; decide, repair, wait, degrade | watcher, reindexer, query path | one watermark for all paths; barriers racing each other and a rebuild | an answer without a note misses no noted write |
| Incremental index (`index.rs`, `resolvers/mod.rs`) | paths, rows, cached products, failures, resolutions | build, apply_changeset, cancel | store, reindexer | partial reuse, eviction, retries, stale products and resolutions | the incremental result equals a build |
| Store (`store.rs`) | redb tables of parse products and file stamps | write batch, stamp, prune | incremental index | transactions that are missing after a crash or a failure | a trusted stamp tells what the file holds |
| Installer (`lsp/installer/lock.rs`, `mod.rs`, `background.rs`) | lock directory, version directory, marker file, job table | lock, break, fetch, extract, rename, mark; poll_or_start | discovery, other processes | stale-lock breaking, crash between renames, concurrent installs | one installer at a time; a marker only beside an install |
| LSP transport (`lsp/transport.rs`) | pending requests, life, frame queue, reader and writer threads | request, reply, cancel, timeout, shutdown | pool, server process | a server that stops reading, dies, or dies with its pipes held open | each request gets its own reply; none waits on a dead server |
| LSP session (`lsp/transport.rs`) | open documents and their order of use | ensure_open, query, files_changed, close, announce | reindex thread, query threads, server | threads open, change and close one document | the server's copies follow; no answer from a text older than the query |
| File cache (`cache.rs`) | path → (mtime, content), byte budget | get, get_checked, insert, invalidate | body, text search | same-mtime rewrites | never serves content of another (mtime, len) |
| Router and live backend (`lsp/router.rs`, `live_backend.rs`) | capability and fallback state | route, diagnose, fall back | pool, graph | unknown results taken for empty ones | confidence is never raised |
| Loop guard (`loop_guard.rs`) | recent calls of a session | observe, warn | server | counting windows | repeats are noticed, changed state resets |
| Sessions, roots, hooks, CLI | configuration, per-session flags | resolve, dispatch | server | mostly sequential | plain functions |
| Parsing, queries, resolvers, rendering | none across calls | pure functions over files | index | language detail | tested by fixtures; out of reach of a model checker |

`PROJECT.json` has the status of each component, the hazards with their lines, and
for each definition the lines it stands for.

## 2. Modules

| Module | What it is |
|---|---|
| `LspPool` | the language-server pool: slots, guards, reclaim, retire, teardown |
| `Leadership` | the abstract specification of sharing: who leads, once and alone |
| `SharedIndex` | election, following, forwarding, promotion and exit of every session of a repository; implements `Leadership` |
| `RootIndex` | the served index of one root: reindex thread, query barrier, cold build, background rebuild, over an abstract watcher |
| `ChangeFeed` | the abstract specification of a watcher: what it promises its consumer |
| `Watcher` | events, intake, directed and full checks, polling; implements `ChangeFeed` |
| `Freshness` | the log of suspects with its watermark, and the barriers that read it |
| `IncrementalIndex` | builds and applies, what they take over, and the store they write |
| `Installer` | background installs of one language server by several processes |
| `Transport` | requests, pending table, writer and reader, the shutdown handshake |
| `OpenDocs` | the open documents of a language server |

Every module `M` but the two abstract ones has an `MCM` with its instances for TLC and
an `MProofs` with its theorems; those of `Transport` and `OpenDocs`, the two halves of
the client of a language server, are together in `LspClientProofs`.

How they meet.  Each pair below is one interface of the code, cut so that one
module has the detail of what the other takes as one step:

* `RootIndex` and `Freshness` have an abstract watcher: a check covers any set of
  changed files in one step and reports them.  `Watcher` has the two reads of a
  check, the events and the loss of events, and shows that the abstraction holds:
  it refines `ChangeFeed`, where a look that finds something new owes it to the
  consumer until the consumer is told.
* `RootIndex` has the threads that build and apply, and treats the result of a build
  or an apply as the contents that were read.  `IncrementalIndex` has what one of them
  does, one after the other as the store's lock and the mutex `pending` have it,
  and shows that an apply yields what a build would.
* `Freshness` has who may clear a suspect and who sees it; there an apply is one step
  that succeeds.  `RootIndex` has the steps of an apply and its failures.
* `LspPool` holds servers; what one request of a server goes through is `Transport`,
  what the server knows of the files is `OpenDocs`, where every frame arrives.
  `Installer` provides the binary that a start needs.
* `SharedIndex` starts the root's index when a session goes local (`started`; the
  cold build of `RootIndex`).  The pool and the shared index meet in `main`'s exit
  path, modelled in each.

None of these keeps state that another one writes, other than across the interfaces
above, so no module composes two of them.

### LspPool (`lsp/pool.rs`)

One slot per language under one mutex.  Each action is one critical section of
the slot mutex, or one step with no lock held (start, request, shutdown
handshake), so every interleaving of those sections is explored.

| Code | Model |
|---|---|
| `Slot.server`, generation, in-flight count, `last_used`, failure, timeouts, crashes | `resident`, `generation`, `inFlight`, `age`, `failure`, `timeouts`, `crashes`, `stable` |
| a server process | its slot's generation when it was installed; running ones are in `up` |
| a `ServerGuard` and its chain of replacements | the set `held[c]`; calls go to its maximum, `Current(c)` |
| `acquire`, start gate, cooldown | `Acquire`, `EnterGate`, `StartOk`, `StartFail` |
| `call`, `call_once`, the re-send | `Send`, `Answer`, `RecordOk`, `RecordTimeout`, and `Acquire` from `"resend"` |
| `retire(true)`, `ServerGuard::shutdown` | `RetireCrashed`, `RetireOrderly`, `StopVictim` |
| `Drop for ServerGuard`, `try_reclaim` | `Drop`, `Peek`, `Reclaim`, `StopVictim` |
| monitor thread, `shutdown`, `shutdown_parallel` | `MonitorTick`, `MonitorPassDone`; `CloseBegin` … `CloseDone` |

Times are abstracted to what the code compares them with: `age` is fresh (below
the ttl), idle, or stale (past `BUSY_IDLE_GRACE`); `failure` is none, cooling or
cooled (the start cooldown is taken to be above zero).  Memory is one sampled
boolean.  Dropping the pool is `shutdown`.  Not modelled: `with_server` (used by
tests only), `notify_files_changed` (`OpenDocs` has what it does), the ready wait
of a first checkout.

One thing the model shows that no property claims: timeouts are counted per
slot, so three slow requests of three healthy guards retire a running server
while another guard uses it (`RetireCrashed` from `"wedged"`).  `BusyServerKept`
therefore allows a retire by any *holder*; cf. the remark at `pool.rs:55`.

### SharedIndex (`shared_index/imp.rs`, `server/shared.rs`, `elect.rs`)

Each session is a process with an elector (boot, or the re-election after a
lost leader), a promoter (`watch_for_promotion`), reader threads, a forwarded
call and `main`'s exit path.  An action is one critical section of the role or
the leader mutex, or one system call on the socket or the lock: the inode check
and the unlink of `Listener::stop` are two actions, as are the deadline of a
call and its `go_local`.

| Code | Model |
|---|---|
| `Shared.role`, its connection | `role`, `peer`; open connections `conns`, reader threads `readers` |
| `indexer.lock` | `slot` (held by the root session) or an elector in `"lead"`, `"adopt"` |
| `Shared.leader`, the socket file | `listener`, `sock` |
| `boot`, `elect`, `settle` | `Boot`, `Connect`, `TryAcquire`, `ElectAgain`, `SettleFollower`, `BecomeLeader`, `AdoptLock`, … |
| `go_local`, `start_local` | `GoLocal`, `StartLocal` in the elector's and the call's actions |
| `watch_for_promotion`, `serve_socket`, `release_lock` | the `Promoter…` actions |
| `forward`, `abandon`, `on_disconnect` | the `Call…` actions, `ReaderEof`, `OnDisconnect` |
| `shutdown`, `Listener::stop`, teardown, end of the process | `Shutdown`, `TakeListener`, `StopListener`, `CheckSocket`, `RemoveSocket`, `Teardown`, `Exit`; `Killed` |

A connection is named by its leader: a session that has stopped serving never
serves again (it implements `Leadership`, section 6), so another one follows it at
most once.  Timeouts (grace,
queue deadline, reply) may strike at any time.  `RefreshLeader` over-approximates:
a started session may try the lock whenever it likes.  A lock I/O error is an
elapsed grace.  A lock a session adopts after its teardown dies with the process.
Not modelled: failures to spawn a thread, the leader's side of a served call,
the Windows stub.

### RootIndex (`session.rs`, `reindex.rs`)

The disk is a function from files to contents; parsing one of `Panics` panics,
which fails the whole apply or build (`apply_reindex`, `build_session_index`).

| Code | Model |
|---|---|
| the watcher's snapshot, its baseline, `note_repaired`, the channel | `seen`, `sealed`, `repaired`, `queue` (one merged change set) |
| the reindex thread's batch | `batch` |
| `IndexState` | `index`, `graph` |
| the mutex `pending`, held through an apply | `owner`, with what its holder is doing in `job` |
| `rebuild_journal`, `ApplyHealth` | `journal`; `unapplied`, `inRebuild` |
| `apply_pending`, `apply_with_fallback`, `note_unapplied` | `ApplyPending`, `TryAll`, `TryNewer`, `Publish`, `Journal`, `Note` |
| `bootstrap_root`, `publish_ready` | `ColdStarts`, `ColdReads`, `ColdDrains`, `ColdFails`, `Publish` |
| `trigger_background_rebuild_arc`, its thread, `publish_rebuilt` | `RebuildClaimed`, `JournalCleared`, `FailuresHanded`; `RebuildReads`, `RebuildSettles`, `RebuildReplays`, `Publish`, `RebuildEnds` |
| the barrier: `inline_repair`, `settle_unapplied` | `RepairClassifies`, `RepairNoted`, `RepairApplies`; `QueryRetries` |

A build reads the disk in one step, anywhere between its start and its end.
Added and modified files are treated alike and the later kind wins (`Merge`).
Which decision the barrier takes, and when, is left open (it depends on counts and
timers), and its suspects are any files with an event (`Touched`).
Not modelled: eviction (closed roots, teardown, cancelled builds), the 60 s bound
on waiting for the baseline, re-parses of products dropped from the cache, a
watcher that could not be started.

Two constants switch on behaviour the code has and that breaks `NoLostWrite`, so
that the runs show the rest of the protocol (section 4 has the counterexamples):

* `Returning`: files that may be reverted, or created again after a deletion.
* `RebuildWhileBuilding`: whether a query may start a rebuild before the first
  index is published (`run_barrier` does not look at the state).

Related: `apply_reindex` documents that a change set after a failed first index
heals it by building from scratch (`reindex.rs:174-176`), but `apply_pending`
returns early unless the state is `Ready`, so that branch is never taken; only a
background rebuild heals a failed root.  The model follows the code.

### Watcher, ChangeFeed (`watch.rs`)

A check looks at each file in two steps, the stat (`Stat`) and the read of its
content (`Hash`, `Admit`, `Trust`, …), with writes in between.  A directed check does
both for one path after the other; a full check stats everything first.

| Code | Model |
|---|---|
| mtime and length, as last stat'ed | `same[f]`: is the metadata what the last stat saw?  `young[f]`: is the tick of its mtime running? |
| the bounded event channel, its overflow flag | `feed`, `overflow`; `Notify` chooses which |
| `Intake` | `pending`, `allDirty`, with storms and rule files (`Drain`) |
| `Watcher.files`, unsettled stamps | `seen`, `unsettled`; a stamp without a hash is `Unread` |
| `event_loop`: seed, storm, request, safety interval | `StartDirected`, `StartFull(reason)`, `Due` |
| `run_loop`: polls, a request answered while it sleeps, the held batch | `StartPoll(kind)`, `batch`, `End` |
| `confirm`, `make_stamp`, `directed_check`, `check` | `Forget`, `Admit`, `Trust`, `Hash`, `HashFails` |
| `note_repaired`, `take_repaired`, `report_repaired` | `Repair`, `repaired`, `marked`, `Reported` |
| a backend that fails, a scan thread that panics | `FeedFails`, `ScanPanics` |

A write within the tick of the file's mtime may leave its metadata as they were;
any other write changes them.  This is what the untrusted window of the code
assumes of the file system.  `Unwatched` files never have an event and are left to
the safety scan.  Not modelled: the flush of the batch when the thread is
stopped; an event of a directory stands for events of its files.

### Freshness (`watch.rs`, `freshness.rs`, `session.rs`)

Times are only ever compared with a few marks (the watermark, the start of a scan, of
a rebuild and of each barrier), so the model keeps, for each mark, the suspects noted
after it (`after`).  Contents do not matter, only which files' latest writes the
index (`stale`), the snapshot (`unseen`), the log (`noted`) or a build (`lacks`)
misses.  The steps of a barrier are those between which another thread can run:
`Begin`, `ReadWatermark`, `ReadSuspects`, the decision (`Fresh`, `WatermarkTooOld`,
`RepairInline`, `Degrade`), the wait, the repair, `ClearRepaired`.

`Prompt` restricts the model to runs in which each change set is applied before the
next check ends, `TornReads` lets a full check end between two reads of one decision;
the code has neither restriction (section 4).

### IncrementalIndex (`index.rs`, `store.rs`, `resolvers/mod.rs`)

| Code | Model |
|---|---|
| `IncrementalIndex` | `index`: `files`, `tooLarge`, `meta` (what the resolvers detected), `rows` (the content each graph row was parsed from), `products`, `failures`, `retries`, `resolved` |
| tables `PARSE_CACHE`, `FILE_STAMPS` | `parses`, `stamp`; `current`: the stamps whose (mtime, length) is the file's |
| `build_inner`, `index_repo_incremental` | `BeginBuild`, `BeginApply`, with `FilesAfter`, `MetaAfter`, `ToParse`, `Retried` |
| `parse_one` | `Stat` (with `StampHit`), `ReadFails`, `Parse`, `ParseTimesOut`, in any order over the files |
| `CacheWrites`, `persist_cache_writes` | `Spill`, `Flush`, `PutStamps`, `Prune`: a transaction each, any of which may fail |
| `assemble_graph_with`, `run_pending` | `Assemble`, `ResolvedAs`; any products may be evicted |
| cancelled builds, a killed process | `Cancel`, `Crash`; the store stays |

A file is its content; the parses of two contents are different.  A resolution is
the pair of inputs it was computed from, so two resolutions are equal only if
their inputs are.  `Ahead` are the files that a query's barrier may have the index
take in before the watcher reports them.

### Installer (`lsp/installer/`)

Per process a registry entry (`job`), a caller and at most one worker, which walks
through `ensure_installed` (`Look` … `Unlock`); between processes the lock directory,
the version directory (`tree`: absent, half, broken, whole) and its `marker`.
`SeeStale` and `Break` are two steps, as in `acquire`.  A process may die anywhere
(`Crash`); downloads, unpacking and renames may fail; a live holder may outlast the
lock's timeout (`Outlast`); a user may delete or damage the install.  The variable
`contested` remembers that the lock stopped keeping two workers apart.

### Transport (`lsp/transport.rs`)

Query threads (`Look` … `Cancel`), a closing thread (`Close` … `MarkDead`), the writer
behind the bounded queue, the reader, and a server which may stop reading, send
anything, exit, or exit while a grandchild holds its pipes open.  Storing
`LIFE_DEAD` and failing the pending requests are two steps, and so are the two looks
at `life` around the entry in the pending table.  Not modelled: framing, the server's
own requests, progress and readiness.

### OpenDocs (`lsp/transport.rs`)

`ensure_open` is one step under the mutex `opened` (`EnsureGone`, `EnsureChanged`,
`EnsureOpened` with its eviction).  `files_changed` takes one change after the other;
`close_if_open` removes the document under the mutex and sends `didClose` after it
(`Release`, `SendClose`), and an announcement reads the file before it takes the mutex
(`Read`, `Announce`).  `wire` is the frames on their way, `buffers` the server's copies;
`CopyAt` and `LastCopy` say what a frame will find on its arrival, and what the last one
will leave.  `stage` is where a query is, and `crossed` remembers that it overtook a
`didClose` (section 4).  Texts are numbered in the order of their writing.  Not
modelled: diagnostics, the decoding of answers.

## 3. Runs

A passing run explores every reachable state of its instance; the violation run
checks one property that the documentation of the code states and the code breaks.

| Run | Instance | What it shows |
|---|---|---|
| `pool_races` | one language, 2 symmetric clients, monitor, `shutdown`, ≤ 3 generations, wedged after 2 | guards are counted exactly, no server is lost, stale guards retire nothing, a busy server leaves only by a holder or a teardown |
| `pool_liveness` | one slow-starting language, 1 client, both teardowns, fair | a teardown returns, an unused server is reclaimed |
| `shared_mixed` | 4 sessions: one mortal, one with other settings, one that cannot bind, one that does not share; no calls | a server holds the lock, the socket path leads to the live leader |
| `shared_calls` | 2 sessions, one mortal, one with calls, fair | calls end, through any number of lost leaders; sharing never stays without a leader |
| `root_converges` | 1 file, contents v, w, bad (panics), ≤ 2 edits, 1 query, from the cold build on, fair | no write is lost, and the index ends as the disk is |
| `watch_changes` | 2 files, one hidable and without events, contents v, w, storms above 1 path, ≤ 2 edits, rule edits, repairs or requests, fair | no change is forgotten, stamps do not lie, what is sent replays, `ChangeFeed` is implemented, everything is told in the end |
| `fresh_answers` | 2 files and 2 queries (symmetric), inline repair of 1 path, ≤ 2 writes, `Prompt`, no torn reads | an answer without a note misses no noted write |
| `install_races` | 2 processes, ≤ 2 crashes, ≤ 2 failures, 1 deletion, 1 slow holder, fair | no install is half, none is taken away while the lock holds, both are served in the end |
| `transport_requests` | 1 caller and the closer, a queue of 1 frame, 2 attempts, fair | no request waits in vain or gets another's reply; everybody returns |
| `docs_queries` | 2 files, 2 queries, 1 open document, ≤ 2 writes, fair | the server can follow every frame, answers are not older than the query, no stale copy stays |
| `index_rebuilt` | 1 source, 1 config, contents v, partial, too large, unparsable; ≤ 2 edits, ≤ 2 parses over budget, 2 builds | no trusted stamp lies; a settled index and its resolutions are those of a build |
| `index_partial` (violation) | the same | a file with syntax errors leaves the graph |

**Why the bounds are enough.**

* Pool: three generations are a server, its replacement, and the replacement of that,
  so a stale guard can meet a slot that has moved on twice; a second client is needed
  for every race between guards, and languages share nothing but the monitor's and
  closer's walk over the slots.
* Shared index: the four kinds of session that behave differently are each there, with
  a kill, and the two-session run has room for leader, follower, loss, hand-over and
  independence; `MAX_HANDOVERS_PER_CALL` is 3 in the code and 1 in the runs, where the
  loop is already taken and exhausted.
* Root: an interleaving that loses a write needs one file and two contents, and two
  edits give a change that overtakes a change; `NothingForgotten` is proved for
  any number of files.
* Watcher: edits, rule edits, repairs and requests share one bound, so two are
  any pair of them within the steps of a check; a storm needs two paths.
* Freshness: a query that repairs, one that degrades, and another one that is misled by
  either; two paths are more than may be repaired inline.
* Installer: a crash of each process, or two of one; one slow holder is
  enough to contest the lock, after which only `NeverHalf` is claimed.
* Transport: ids are given once, so one call with two attempts has a late reply to
  an earlier attempt; the closer's request is a second thread's; a queue of one frame
  is full at once.
* Documents: with room for one open document every change of document evicts.
* Index: an edit under a running parse and one after it; the second build meets the
  store of the first, with or without a crash between them; one retry (`MAX_FAILURE_RETRIES`
  is 3) is taken and exhausted by two parses over budget.

The theorems of section 6 do not depend on any bound.

`SocketReachesLeader` is checked in `shared_mixed`, without calls, on purpose.
The inode check and the unlink in `Listener::stop` are two system calls, and with
the early release of the lock (section 4, `ClosesThenReleases`) a new leader can bind
between them and have its file removed.  The same early release lets the wake-up
connection of `stop` reach the new leader instead of the accept thread it is
meant for, and the exit then waits for that thread.  `KeptLockKeepsPath` (section 6)
proves that the early release is the only cause, whatever calls are made.

`CHECK_DEADLOCK FALSE` is set where the system may stop: every session has exited,
every request has returned and the transport is closed, or every edit has been made
and served.  The pool and the installer never stop.

## 4. Claims the code does not keep

While modelling, some statements of the code's own documentation turned out to be too
strong.  One of them is the run `index_partial`; it is the finding in `PROJECT.json`:

> A partial parse whose product was evicted from the cache has an entry among the
> previous failures, and the reason is not transient, so the next apply takes it for an
> "Unchanged permanent failure: do not re-read" (`index.rs:1898`).  Its symbols leave
> the graph, while `partial_parses` still lists the file.  The documentation says "Such
> a file is still in the index (its symbols are kept)" (`index.rs:689`) and that an
> evicted file is "simply re-read and re-parsed by the next apply" (`index.rs:273`).

The others are counterexamples that TLC finds with the constants below; those not named
have the values of the module's cfg.  The passing runs leave exactly this behaviour out.

| Claim | What the code does | Property and constants |
|---|---|---|
| "so the binary's exit path can shut their servers down properly" (`pool.rs:145`) | nothing closes the pool at exit (`pool.rs:833`): a call that the exit interrupts is re-sent to a server started afterwards | `LspPool!ExitLeavesNoServer`: `SlowStart = {}`, one client, `Teardowns = {"exit"}`, `WedgedAfter = 3`, `Spec` |
| "close the socket (followers see EOF), then release the lock" (`shared_index.rs:23`) | `watch_for_promotion` releases the lock when it sees `Role::Closed` (`imp.rs:434`), which is set before the socket is closed | `SharedIndex!ClosesThenReleases`: two sessions, mortal and with calls |
| "close the socket … or our leader connection" (`imp.rs:564`) | `forward` gives up the role mutex before `go_local` (`imp.rs:522`), which forgets a connection settled in between | `SharedIndex!ShutdownHangsUp`: sessions a, b, c, `Mortal = {a}`, `Callers = {b}` |
| "without losing changes that were applied to the old index" (`session.rs:849`) | the cold build and a rebuild started beside it each publish their own index (`session.rs:873`) | `RootIndex!NoLostWrite`: `RebuildWhileBuilding = TRUE`, contents v, w, nothing panics, `Spec` |
| "Tell the watcher before reading" (`session.rs:783`) | only the barrier does; what the reindex thread reads (`session.rs:434`) may be reverted before the next check sees it | `RootIndex!NoLostWrite`: `Returning = {f}`, no queries, `MaxEdits = 3`, `WarmSpec`.  The hazards at `session.rs:545` and `774` are two more ways |
| `in_rebuild` is "cleared when it publishes" (`session.rs:64`) | it is emptied before (`session.rs:825`), and a failure that the rebuild covers is recorded nowhere for a while | `RootIndex!StaleIsNoted`: two files, `MaxEdits = 3`, `WarmSpec` |
| advancing the watermark alone "would make the barrier report "fresh" for an index that does not yet contain the change" (`watch.rs:378`) | `bump_watermark` (`watch.rs:401`) keeps as suspects what the present check has found, and forgets what an earlier one has found and nobody has applied yet: the reindex thread throttles | `Freshness!FreshAnswers`: `Prompt = FALSE`, one query |
| the same | the watermark and the suspects are read one after the other, and a full check that ends in between moves suspects across | `Freshness!FreshAnswers`: `TornReads = TRUE` |
| change sets, applied as they are sent, give the files of the snapshot (`watch.rs:445`: "drop `removed` first, then parse `added` and `modified`") | while polling, the answer to a request is sent at once, and the batch held back for its debounce after it, although older (`watch.rs:1641-1660`) | `Watcher!FileSetReplays`: `VerifyPolling = TRUE`, `Hidable = Unwatched = {}`, `MaxEdits = 3`, `Spec` |
| the server's documents are those of the session | `close_if_open` (`transport.rs:1150`) sends `didClose` after it has released the mutex; a query may open the document again before | `OpenDocs!ServerInStep` without its condition `~crossed` |
| one installer at a time | of two waiters that both judge a lock stale, the second removes the lock that the first has taken (`lock.rs:44`); a live holder that outlasts the timeout is broken into as well | `Installer!OneHolder` without its condition `~contested` |
| "With an unchanged path set only `modified` contents can differ" (`index.rs:1802`) | a barrier has the index read a new config as modified; when the watcher then reports a later content of it as added, the path set is unchanged and no resolver detects again | `IncrementalIndex!ResolvesAsRebuilt`: `Ahead = {f, m}`, contents v, p, `Holds = {"write"}`, `MaxEdits = 3` |

Observed while reading and outside the models: `find_cached_binary` looks one level deep
and does not see the nested path of an automatically installed clangd; a panic inside
`run` leaves the install entry `Running` for the life of the process
(`background.rs:100`); the published diagnostics, the version they were published for
and the version of the open document are read one after the other (`transport.rs:1323`),
so a publication in between can give the version of one to the items of another.

## 5. Fairness

Weak fairness is given to threads that run by themselves and never to what a
user, a client or the system need not do: nobody has to query, call, edit, start a
session, shut down, be killed, or crash.

* **Pool**: a client's own steps once it has begun (each blocking call in it has a
  timeout in the code), the monitor, a teardown once begun, and the passing of
  idle time.
* **Shared index**: the elector, the elapse of its grace, the promoter, the
  readers, a call once begun (a live leader answers), an exit once begun.
  Cancelling, deadlines and reply timeouts are never forced: `CallReturns` holds
  without them.
* **Root index**: every thread; the watcher's periodic full check; strong fairness
  for taking the mutex `pending`, because a waiter gets it in the end although
  others take it in between, and for retries, because calls keep coming while a
  failure is recorded.  Without further calls a recorded failure is not retried:
  that is how the code works, not an assumption to be read as a promise.
* **Watcher**: taking events, directed checks, the first scan, the safety scan (its
  interval is capped) and the polls, the looks and the end of a check, and the consumer.
  No request, no event and no storm is assumed: `Settles` rests on the safety scan alone.
* **Installer**: callers that ask again, the end of their wait, the retry interval, every
  worker, and the ageing of a lock whose process has died.
* **Transport**: a request once begun and the shutdown; every wait of theirs has a
  timeout.  Nothing of the server, and neither the writer nor the reader: a server that
  stops reading holds the writer up for ever.
* **Open documents**: the reindex thread in `files_changed`, and a server that handles
  what it is sent.
* **Freshness** and the **incremental index** have no liveness property.

## 6. Proofs

The proof modules prove, for every value of the constants allowed by the named
assumptions, what the runs check on one instance.

**LspPool** assumes a finite set of clients, distinct from the monitor and the
closer.  The theorem that in-flight counts are exact is not inductive by itself:
that a stale guard is not discounted depends on what a slot's generation can be
while a thread is between two critical sections.  The invariant `PoolInv` is the
conjunction of

* `TypeOK`;
* `GuardInv`: no guard is ahead of its slot, an empty slot has no guard of its own
  generation, a start faces an empty slot and is alone in it;
* `GuardsCounted`;
* `ChainInv`: a thread in a call holds the guard it calls on;
* `VictimInv`: what has been taken out of a slot is older than the slot, is in one
  thread's hands, and belongs to a thread that is about to shut it down;
* `NoServerLost` and `StartsOnlyWhenCooled`.

From it: `TypeCorrect`, `CountsAreExact`, `ReclaimIsSafe`, `RetireIsOwn`,
`NothingLost`, `CooldownIsHonoured` and, as an action property, `BusyIsKept`.

**SharedIndex** assumes a finite set of sessions and that callers share.  Its
invariant has four parts: `TypeInv`; `OneHolder`, inductive by itself; `RoleInv`,
what a settled role excludes, because threads that start an election or the index
rely on a role they saw earlier; `ServeInv`, which follows lock and listener
through `serve_socket` and `shutdown`, where two mutexes together keep the lock
under the socket (a failed bind of an `Unbindable` session is its only exception).
From it: `TypeCorrect`, `LockIsExclusive`, `FollowersStayIdle`, `LocalIsFinal`,
`ElectionsDoNotOverlap`, `ServingHoldsLock`, and their consequence
`OneServesAtATime`: there are never two serving sessions, however many there are.

`SharingIsLeadership` is the refinement of `Leadership`.  A session leads while its
listener is up, and its tenure is over from the step of the exit that takes the listener
down, whether it was up or not; that no late elector or promoter then binds again is
`ServeInv`, that nobody else leads when one binds is `OneHolder`.

The file of the socket is a matter of its own, because calls can take it away (section 3).
`KeptLockKeepsPath` names the cause: `PathInv` (whoever binds, or is still to check or
unlink the file, holds the lock) is inductive as soon as no step gives up the lock of a
process that still needs it (`LockKept`, a condition on steps).  `SocketLeadsToLeader`
proves that condition where no session calls: `QuietInv` says that a promoter then runs
only beside a finished election and gets past its poll only while nothing is closing, so
the lock it gives up at the end has no socket.  `ClosesThenReleases` follows there too.

**RootIndex** assumes nothing of files, contents and queries beyond their kinds.
`NoLostWrite` is far from inductive: it speaks of the served index, but the next
index to be published is in the hands of an apply or a build, which read the disk
some time ago.  The invariant `RootInv` follows every copy that may be published:

* `TypeInv`: types, and at most one query between claiming a rebuild and handing
  the failures over;
* `PhaseInv`: who may hold `pending` in which phase of the builds;
* `HistoryInv`: the watcher's snapshot and the barrier's notes are states the files
  have really had;
* `TruthInv`: a removal recorded in any change set is still true, so that applying
  a set late cannot undo a newer change (a recorded write is read from the disk when
  it is applied);
* `CoverInv`, one conjunct per copy: the served index (`GraphCovered`), the base of
  an apply (`ApplyCovered`) or of a publication (`BuildCovered`), and what the cold
  build and the rebuild have read (`ColdCovered`, `RebuildCovered`).  In each, a
  file that differs from the disk is in the watcher's hands, in a change set that
  will reach that copy, in `pending`, or in the journal.

All of this speaks of one file at a time, and `TruthInv` and `CoverInv` only of those that
return to no earlier state (`Steady`).  So `SteadyFilesKept` needs one assumption, that no
rebuild starts before the first index (`~RebuildWhileBuilding`): a file that is reverted
may lose its own write and no other's, although all of them share change sets, failures
and the builds.  `NothingForgotten` (`NoLostWrite`) is the case in which no file returns
(`Returning = {}`).  Section 4 shows that the code does lose a write without either
assumption.  `WorkingIsKept` needs only the second, `TypeCorrect` neither.

**Watcher**.  `PromiseIsKept` is the refinement: every step of the watcher is a step of
`ChangeFeed` or a stutter under the mapping of `Promise`, where a look that found a
file gone counts at its stat and any other look when the content is read.
`NothingForgotten` rests on what a stamp tells (`StampsAreTrue`: metadata that look
unchanged prove nothing only for unsettled stamps) and on the order of a check
(`InOrder`, `AllTell`, `LooksAgain`): whatever changes after a stat, changes either the
metadata, or the stamp is unsettled, or an event follows.  `ReportsReplay` needs to know
what a report says of a file (`FoundTells`) and that reports are sent in the order of
their checks.  `OrderedReportsReplay` has that as a condition on steps (`SentInOrder`: no
check but a poll ends while a batch is held back), so the reordering of section 4 is the
only thing that can break the file set; `ReportsReplay` proves the condition (`HeldBack`)
where nobody asks a polling watcher for a verification (`~VerifyPolling`).

**Freshness**.  The invariant `Covered` says of a noted write that the index lacks: it is
after the watermark, after the watermark each barrier has read and after that barrier's
start, or in the paths it has read already, and a rebuild that clears suspects has read
what it clears.  It excuses (`Excused`) what checks have sent to the reindex thread and
nobody has applied yet, because the watermark may have passed it: `AnswersMissOnlyTheQueue`
is what the code guarantees however far the applies fall behind.  If they keep up
(`Prompt`) there is nothing to excuse: `AnswersAreFresh`, and `SuspectsAreKept`, the part
that the next query relies on.  All three assume `~TornReads`.

**IncrementalIndex**.  The invariant `Kept` is `StoreTells` with its counterpart for a
stamp not yet written (`NotesTell`), and `AsRebuilt` with the change set not yet applied
(`ChangesTell`), for the index that is served (`Served`) and the one that is made
(`Underway`).  From it `StampsTell` and `IndexAsRebuilt`, for any number of files,
contents, builds and edits.  For resolutions there is also `ConfigsKept`: what the
resolvers read is what the configs hold, but for what is still to be applied, and the
watcher's snapshot has every config of the index whose removal is not queued.  It is inductive if no step takes in a
config that the watcher has still to report as added (`ConfigsAnnounced`, a condition on
steps): `AnnouncedConfigsResolve`, so that the stale resolution of section 4 has no other
cause.  `ResolutionsAsRebuilt` is the case in which configs are never taken in ahead of
the watcher.

**Installer**.  `Kept` follows the lock through a worker's steps (`LockIsHeld`), what a
worker may find when it moves the old tree away (`ReplacesIncomplete`) and what a
recorded outcome stands for (`DoneIsKept`).  From it `OneAtATime`,
`CompleteInstallsStay`, `OutcomesAreTrue`; `InstallsAreWhole` holds without any condition
on the lock.

**Transport**.  `Kept` counts ids (`OneId`, `IdInUse`: an id belongs to one request),
relates the pending table to the channels (`EntryOrAnswer`, `AnswerHasNoEntry`) and says
what a sweep leaves behind (`SweptTable`).  From it `DeathAnswersAll`, `RepliesAreOwn`,
`IdsAreGivenOnce`.

**OpenDocs**.  `BuffersReplay` and `ServerInStep` speak of the frames on their way, and a
replay of frames is a fold, which would need an induction over a sequence.  `OpenDocs`
therefore states them with `LastCopy`, the copy that the last `didOpen`, `didChange` or
`didClose` of a file on the wire leaves (each of them sets the copy as a whole), and the
invariant `DocsKept` has for every frame what it will find (`CopyAt`), so that a step adds
or removes one frame and leaves what the others find:

* `Shape`: types, the order of use, which thread waits for which frame (`AsksOnce`), and
  which texts exist when (`TextsInOrder`);
* `Synced`, until a query overtakes a `didClose` (`crossed`): `InStep`, every frame fits
  the copy it will find; `Session`, the last copies are those the session believes in, but
  for a document between its removal and its `didClose`;
  `Fresh`, what a query finds or will find is not older than it.

From it: `DocsTypeCorrect`, and until then `ServerFollows`, `BuffersFollow` and
`AnswersAreCurrent`, for any number of files, threads and open documents.

**Proved and not run.**  `ReclaimSparesHeld`, `StartsOnlyWhenCooled`; `OneHolder` (of both
modules), `FollowersIndexNothing`, `LocalForGood`, `OneElection`, `OneServer`, the
refinement of `Leadership`; `NoSteadyWriteLost`, `WorkingIndexStays`; `SuspectsCover`,
`MissesOnlyQueued`; `DoneIsInstalled`.

**Model-checked only.**  Every liveness property: fairness and ENABLED are out of the
prover's reach.  Every safety property and action property of a passing run is proved;
the conditions under which some of them are proved are those under which they are run, or
weaker.

## 7. What is not modelled

Parsing, queries, resolvers, rendering and discovery are functions of file
contents or of the machine: fixtures test them and a model checker has nothing to
add.  They are most of the repository's lines, with the dispatch of the server, the
hooks and the CLI, which are sequential.  The loop guard is a counter under one mutex
and the file cache a map with one promise; both are covered by their unit tests.  The
router decides within one call.

Of the components that are modelled in part, `PROJECT.json` says what is left out.  What
has hazards of its own and is not covered: published diagnostics
(`transport.rs:1323`), the two flags that tell a query why a slow server is not there
yet (`live_backend.rs:358`), the teardown of a root that is evicted while a build runs,
and the healing of a damaged store.

## 8. Plan

1. Diagnostics in `OpenDocs`: versions, late publications and the wait for them.
2. Eviction and teardown of a root in `RootIndex`: cancelled builds, closed state.
3. The store's lock with its retries, and the recovery of a damaged file, in front of
   `IncrementalIndex`, so that two processes share one store.
4. The excludes that resolvers declare, which change the set of files.
5. Abstract specifications of the pool (who owns a server process) and of the freshness
   log (a set of files that an answer may not claim), and the refinements, proved.
