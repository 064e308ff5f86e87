----------------------------- MODULE Installer -----------------------------
(* The automatic install of one pinned language server by several processes
   that share ~/.astrolabe/servers.

   Inside a process the registry of background installs (installer/
   background.rs) lets one worker thread at a time run ensure_installed and
   keeps what came of it; callers take that outcome or wait for it.  Between
   processes the directory `.<version>.install.lock` (installer/lock.rs) is
   meant to let one worker at a time replace the version directory
   (installer/mod.rs): the archive is fetched, checked and unpacked beside it,
   the old tree is moved away, the new one moved in, and `.installed` written
   into it last.  A process may die between any two of these steps; the lock
   it leaves is broken by whoever finds it older than the timeout.

   The lock does not keep two workers apart in two cases, which `contested`
   remembers: a live holder that outlasts the timeout, and two waiters that
   both judge one old lock stale, of which the second removes the lock that
   the first has taken meanwhile.  The properties say what holds until then,
   and NeverHalf what holds all the same. *)
EXTENDS Naturals

CONSTANTS Processes,    \* Astrolabe processes with one cache
          Nobody,       \* the owner of a lock that is not there
          MaxCrashes,   \* how often a process dies
          MaxFailures,  \* how often a download, an unpacking or a rename fails
          MaxDamages,   \* how often a user deletes the server
          MaxSlow       \* how often a live holder outlasts the lock's timeout

ASSUME NobodyAssumption == Nobody \notin Processes
ASSUME BoundsAssumption == {MaxCrashes, MaxFailures, MaxDamages, MaxSlow} \subseteq Nat

VARIABLES
    lock,       \* who created the lock directory, or Nobody
    aged,       \* the lock directory is older than the timeout
    tree,       \* what the version directory holds
    marker,     \* `.installed` is in it
    staged,     \* per process, what its staging directory holds
    pc,         \* per process, where its worker is; "idle" without one
    result,     \* per process, what ensure_installed will return
    job,        \* per process, the registry's entry
    caller,     \* per process, a caller that waits, or the last answer given
    contested,  \* the lock stopped keeping two workers apart
    crashes, failures, damages, slow

lockVars  == <<lock, aged, contested>>
cacheVars == <<tree, marker>>
workVars  == <<staged, pc, result>>
jobVars   == <<job, caller>>
faultVars == <<crashes, failures, damages, slow>>
vars == <<lockVars, cacheVars, workVars, jobVars, faultVars>>

\* What the fast path and the second look under the lock both ask for.
Installed == tree = "whole" /\ marker

\* Where a worker believes that it owns the lock.
Critical == {"recheck", "fetch", "extract", "swap", "move", "mark", "check", "unlock"}

Holding(p) == pc[p] \in Critical

Init ==
    /\ lock = Nobody /\ aged = FALSE /\ contested = FALSE
    /\ tree = "absent" /\ marker = FALSE
    /\ staged = [p \in Processes |-> "none"]
    /\ pc = [p \in Processes |-> "idle"]
    /\ result = [p \in Processes |-> "none"]
    /\ job = [p \in Processes |-> "none"]
    /\ caller = [p \in Processes |-> "none"]
    /\ crashes = 0 /\ failures = 0 /\ damages = 0 /\ slow = 0

-----------------------------------------------------------------------------
(* The registry.  Its mutex is held from the look at the entry to the insert. *)

\* An entry that makes the next caller start a worker.
Startable(p) ==
    \/ job[p] \in {"none", "expired"}
    \/ job[p] = "done" /\ tree # "whole"

\* A caller asks for the server: a recorded outcome answers at once, otherwise
\* a worker is started, or joined, and the caller waits.
Poll(p) ==
    /\ caller[p] # "waiting"
    /\ \/ /\ ~Startable(p)
          /\ caller' = [caller EXCEPT ![p] = IF job[p] = "running" THEN "waiting" ELSE job[p]]
          /\ UNCHANGED <<job, pc, failures>>
       \/ /\ Startable(p)
          /\ job' = [job EXCEPT ![p] = "running"]
          /\ pc' = [pc EXCEPT ![p] = "look"]
          /\ caller' = [caller EXCEPT ![p] = "waiting"]
          /\ UNCHANGED failures
       \/ /\ Startable(p)
          /\ failures < MaxFailures
          /\ failures' = failures + 1
          /\ job' = [job EXCEPT ![p] = "failed"]
          /\ caller' = [caller EXCEPT ![p] = "failed"]
          /\ UNCHANGED pc
    /\ UNCHANGED <<lockVars, cacheVars, staged, result, crashes, damages, slow>>

\* The condition variable wakes a waiting caller, or its deadline passes.
Answer(p) ==
    /\ caller[p] = "waiting"
    /\ \/ job[p] = "running" /\ caller' = [caller EXCEPT ![p] = "pending"]
       \/ job[p] \in {"done", "failed", "expired"}
          /\ caller' = [caller EXCEPT ![p] = IF job[p] = "done" THEN "done" ELSE "failed"]
    /\ UNCHANGED <<lockVars, cacheVars, workVars, job, faultVars>>

\* The time for which a failure is remembered runs out.
Expire(p) ==
    /\ job[p] = "failed"
    /\ job' = [job EXCEPT ![p] = "expired"]
    /\ UNCHANGED <<lockVars, cacheVars, workVars, caller, faultVars>>

\* Mutant: only a success is recorded.
ReportsSuccess(p) ==
    /\ pc[p] = "report"
    /\ job' = [job EXCEPT ![p] = IF result[p] = "ok" THEN "done" ELSE @]
    /\ pc' = [pc EXCEPT ![p] = "idle"]
    /\ result' = [result EXCEPT ![p] = "none"]
    /\ UNCHANGED <<lockVars, cacheVars, staged, caller, faultVars>>

\* The worker's last step: the outcome replaces the running entry.
Report(p) ==
    /\ pc[p] = "report"
    /\ job' = [job EXCEPT ![p] = IF result[p] = "ok" THEN "done" ELSE "failed"]
    /\ pc' = [pc EXCEPT ![p] = "idle"]
    /\ result' = [result EXCEPT ![p] = "none"]
    /\ UNCHANGED <<lockVars, cacheVars, staged, caller, faultVars>>

-----------------------------------------------------------------------------
(* The worker: ensure_installed. *)

Goto(p, l) == pc' = [pc EXCEPT ![p] = l]

\* Return r; a worker that holds the lock drops its guard on the way.
Return(p, r) ==
    /\ result' = [result EXCEPT ![p] = r]
    /\ Goto(p, IF Holding(p) THEN "unlock" ELSE "report")

\* A step of the operating system or the network fails.
Fail(p) ==
    /\ failures < MaxFailures
    /\ failures' = failures + 1
    /\ Return(p, "err")

\* The fast path, without the lock.
Look(p) ==
    /\ pc[p] = "look"
    /\ \/ Installed /\ Return(p, "ok")
       \/ ~Installed /\ Goto(p, "locking") /\ UNCHANGED result
    /\ UNCHANGED <<lockVars, cacheVars, staged, jobVars, faultVars>>

\* create_dir makes the lock.
TakeLock(p) ==
    /\ pc[p] = "locking"
    /\ lock = Nobody
    /\ lock' = p
    /\ aged' = FALSE
    /\ Goto(p, "recheck")
    /\ UNCHANGED <<contested, cacheVars, staged, result, jobVars, faultVars>>

\* The wait for the lock runs out.  A waiter that arrives at a lock already
\* old does not get here: it breaks the lock in its first round.
GiveUp(p) ==
    /\ pc[p] = "locking"
    /\ lock # Nobody /\ ~aged
    /\ Return(p, "err")
    /\ UNCHANGED <<lockVars, cacheVars, staged, jobVars, faultVars>>

\* Mutant: no lock is ever stale.
NeverStale == FALSE

\* is_stale: the lock that is there now is older than the timeout.
Stale == lock # Nobody /\ aged

SeeStale(p) ==
    /\ pc[p] = "locking"
    /\ Stale
    /\ contested' = (contested \/ \E q \in Processes : pc[q] = "breaking")
    /\ Goto(p, "breaking")
    /\ UNCHANGED <<lock, aged, cacheVars, staged, result, jobVars, faultVars>>

\* remove_dir_all takes whichever lock is there by now.
Break(p) ==
    /\ pc[p] = "breaking"
    /\ lock' = Nobody
    /\ aged' = FALSE
    /\ Goto(p, "locking")
    /\ UNCHANGED <<contested, cacheVars, staged, result, jobVars, faultVars>>

\* Mutant: no second look under the lock.
NoSecondLook(p) ==
    /\ pc[p] = "recheck"
    /\ Goto(p, "fetch")
    /\ UNCHANGED <<lockVars, cacheVars, staged, result, jobVars, faultVars>>

\* The second look, under the lock: another process may have finished.
Recheck(p) ==
    /\ pc[p] = "recheck"
    /\ \/ Installed /\ Return(p, "ok")
       \/ ~Installed /\ Goto(p, "fetch") /\ UNCHANGED result
    /\ UNCHANGED <<lockVars, cacheVars, staged, jobVars, faultVars>>

\* The download and its checksum.
Fetch(p) ==
    /\ pc[p] = "fetch"
    /\ \/ Goto(p, "extract") /\ UNCHANGED <<result, failures>>
       \/ Fail(p)
    /\ UNCHANGED <<lockVars, cacheVars, staged, jobVars, crashes, damages, slow>>

\* Mutant: an error while unpacking is not passed on.
KeepsPart(p) ==
    /\ pc[p] = "extract"
    /\ \/ /\ staged[p] = "none"
          /\ staged' = [staged EXCEPT ![p] = "half"]
          /\ UNCHANGED <<pc, failures>>
       \/ /\ staged[p] = "half"
          /\ staged' = [staged EXCEPT ![p] = "whole"]
          /\ Goto(p, "swap")
          /\ UNCHANGED failures
       \/ /\ failures < MaxFailures
          /\ failures' = failures + 1
          /\ Goto(p, "swap")
          /\ UNCHANGED staged
    /\ UNCHANGED <<lockVars, cacheVars, result, jobVars, crashes, damages, slow>>

\* Unpacking fills a staging directory of the worker's own, entry by entry; a
\* failure removes it.
Extract(p) ==
    /\ pc[p] = "extract"
    /\ \/ /\ staged[p] = "none"
          /\ staged' = [staged EXCEPT ![p] = "half"]
          /\ UNCHANGED <<pc, result, failures>>
       \/ /\ staged[p] = "half"
          /\ staged' = [staged EXCEPT ![p] = "whole"]
          /\ Goto(p, "swap")
          /\ UNCHANGED <<result, failures>>
       \/ /\ Fail(p)
          /\ staged' = [staged EXCEPT ![p] = "none"]
    /\ UNCHANGED <<lockVars, cacheVars, jobVars, crashes, damages, slow>>

\* A tree in the way is moved aside and removed there; a rename that fails is
\* ignored.
Swap(p) ==
    /\ pc[p] = "swap"
    /\ \/ tree' = "absent" /\ marker' = FALSE /\ UNCHANGED failures
       \/ /\ tree # "absent"
          /\ failures < MaxFailures
          /\ failures' = failures + 1
          /\ UNCHANGED cacheVars
    /\ Goto(p, "move")
    /\ UNCHANGED <<lockVars, staged, result, jobVars, crashes, damages, slow>>

\* The new tree is moved in, which fails while another is there.
Move(p) ==
    /\ pc[p] = "move"
    /\ \/ /\ tree = "absent"
          /\ tree' = staged[p]
          /\ Goto(p, "mark")
          /\ UNCHANGED <<result, failures>>
       \/ tree # "absent" /\ Return(p, "err") /\ UNCHANGED <<tree, failures>>
       \/ tree = "absent" /\ Fail(p) /\ UNCHANGED tree
    /\ staged' = [staged EXCEPT ![p] = "none"]
    /\ UNCHANGED <<lockVars, marker, jobVars, crashes, damages, slow>>

\* `.installed` is written into the version directory, if there is one.
Mark(p) ==
    /\ pc[p] = "mark"
    /\ \/ /\ tree # "absent"
          /\ marker' = TRUE
          /\ Goto(p, "check")
          /\ UNCHANGED <<result, failures>>
       \/ tree = "absent" /\ Return(p, "err") /\ UNCHANGED <<marker, failures>>
       \/ tree # "absent" /\ Fail(p) /\ UNCHANGED marker
    /\ UNCHANGED <<lockVars, tree, staged, jobVars, crashes, damages, slow>>

\* The last look: is the binary there and executable.
Check(p) ==
    /\ pc[p] = "check"
    /\ Return(p, IF tree = "whole" THEN "ok" ELSE "err")
    /\ UNCHANGED <<lockVars, cacheVars, staged, jobVars, faultVars>>

\* The guard's drop removes the lock directory, whoever made it.
Unlock(p) ==
    /\ pc[p] = "unlock"
    /\ lock' = Nobody
    /\ aged' = FALSE
    /\ Goto(p, "report")
    /\ UNCHANGED <<contested, cacheVars, staged, result, jobVars, faultVars>>

-----------------------------------------------------------------------------
(* The world around. *)

\* The lock of a process that died gets old.
Abandoned == lock # Nobody /\ \A p \in Processes : ~Holding(p)

Age ==
    /\ Abandoned /\ ~aged
    /\ aged' = TRUE
    /\ UNCHANGED <<lock, contested, cacheVars, workVars, jobVars, faultVars>>

\* A download outlasts the timeout that others allow the lock.
Outlast ==
    /\ slow < MaxSlow
    /\ slow' = slow + 1
    /\ lock # Nobody /\ ~Abandoned /\ ~aged
    /\ aged' = TRUE
    /\ contested' = TRUE
    /\ UNCHANGED <<lock, cacheVars, workVars, jobVars, crashes, failures, damages>>

\* A process dies and is started again: what was in memory is gone, the lock
\* and the version directory stay.
Crash(p) ==
    /\ crashes < MaxCrashes
    /\ crashes' = crashes + 1
    /\ job[p] # "none"
    /\ pc' = [pc EXCEPT ![p] = "idle"]
    /\ staged' = [staged EXCEPT ![p] = "none"]
    /\ result' = [result EXCEPT ![p] = "none"]
    /\ job' = [job EXCEPT ![p] = "none"]
    /\ caller' = [caller EXCEPT ![p] = "none"]
    /\ UNCHANGED <<lockVars, cacheVars, failures, damages, slow>>

\* A user deletes the binary, or the whole version directory.
Damage ==
    /\ damages < MaxDamages
    /\ damages' = damages + 1
    /\ tree = "whole"
    /\ \/ tree' = "broken" /\ UNCHANGED marker
       \/ tree' = "absent" /\ marker' = FALSE
    /\ UNCHANGED <<lockVars, workVars, jobVars, crashes, failures, slow>>

Work(p) ==
    \/ Look(p) \/ TakeLock(p) \/ GiveUp(p) \/ SeeStale(p) \/ Break(p)
    \/ Recheck(p) \/ Fetch(p) \/ Extract(p) \/ Swap(p) \/ Move(p)
    \/ Mark(p) \/ Check(p) \/ Unlock(p) \/ Report(p)

Next ==
    \/ \E p \in Processes :
          Poll(p) \/ Answer(p) \/ Expire(p) \/ Work(p) \/ Crash(p)
    \/ Age \/ Outlast \/ Damage

\* Threads are scheduled, deadlines and ages are reached, and somebody keeps
\* asking for the language.
Fairness ==
    /\ \A p \in Processes :
          WF_vars(Poll(p)) /\ WF_vars(Answer(p)) /\ WF_vars(Expire(p)) /\ WF_vars(Work(p))
    /\ WF_vars(Age)

Spec == Init /\ [][Next]_vars /\ Fairness

-----------------------------------------------------------------------------

(* Every variable has its type; an entry is running exactly while a worker
   thread is there to replace it (background.rs:100), so no caller waits for
   an outcome that nobody will record. *)
TypeOK ==
    /\ lock \in Processes \cup {Nobody} /\ aged \in BOOLEAN /\ contested \in BOOLEAN
    /\ tree \in {"absent", "broken", "half", "whole"} /\ marker \in BOOLEAN
    /\ staged \in [Processes -> {"none", "half", "whole"}]
    /\ pc \in [Processes -> {"idle", "look", "locking", "breaking", "report"} \cup Critical]
    /\ result \in [Processes -> {"none", "ok", "err"}]
    /\ job \in [Processes -> {"none", "running", "done", "failed", "expired"}]
    /\ caller \in [Processes -> {"none", "waiting", "pending", "done", "failed"}]
    /\ crashes \in Nat /\ failures \in Nat /\ damages \in Nat /\ slow \in Nat
    /\ \A p \in Processes : job[p] = "running" <=> pc[p] # "idle"

(* The version directory never holds a part of an archive, and `.installed`
   never stands beside nothing: not even when two workers replace it at once,
   an install fails halfway or a process dies (mod.rs:266-302). *)
NeverHalf ==
    /\ tree # "half"
    /\ marker => tree # "absent"

(* Until a holder outlasts the timeout or two waiters break one lock, at most
   one worker of all processes is between lock and unlock, however many
   abandoned locks were broken (lock.rs:23-53). *)
OneHolder ==
    ~contested => \A p, q \in Processes : Holding(p) /\ Holding(q) => p = q

(* Until then a complete install is taken away by nobody but the user: not by
   a worker that found nothing before another process finished and got the
   lock after it (mod.rs:246-249). *)
InstallKept ==
    [][Installed /\ ~contested => Installed' \/ damages' # damages]_vars

(* Until then, and while the user has deleted nothing, a process that holds a
   successful outcome answers with a server that is there. *)
DoneIsInstalled ==
    ~contested /\ damages = 0 => \A p \in Processes : job[p] = "done" => Installed

(* Whatever failed, died or was deleted before, in the end the server is
   installed and every process answers with it, unless the lock stopped
   keeping workers apart: no lock of a dead process and no remembered failure
   keeps it out (lock.rs:44, background.rs:93). *)
Served == \A p \in Processes : <>[](contested \/ (Installed /\ caller[p] = "done"))
=============================================================================
