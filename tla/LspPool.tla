------------------------------- MODULE LspPool -------------------------------
(***************************************************************************)
(* The language-server pool, crates/astrolabe-core/src/lsp/pool.rs.        *)
(*                                                                         *)
(* One slot per language under one mutex.  Query threads (Clients) check a *)
(* server out, call it and drop the guard; a Monitor thread reclaims idle  *)
(* or oversized servers; a Closer tears the pool down.  Every action below *)
(* is one critical section of the slot mutex, or one step taken with no    *)
(* lock held (a start, a request, a shutdown handshake), so every          *)
(* interleaving of those sections is explored.                             *)
(*                                                                         *)
(* A server process is named by the generation its slot had when it was    *)
(* installed.  A ServerGuard is the generation it was minted with; a guard *)
(* with its chain of replacements (pool.rs:363-376) is the set held[c],    *)
(* whose maximum is the one calls go to.                                   *)
(***************************************************************************)
EXTENDS Integers, FiniteSets, FiniteSetsExt

CONSTANTS
    Languages,      \* languages a server can be started for
    SlowStart,      \* languages whose calls are never re-sent (Kotlin)
    Clients,        \* query threads
    Monitor,        \* the pool's daemon thread
    Closer,         \* the thread that tears the pool down
    Teardowns,      \* how it may: "shutdown" (LspPool::shutdown), "exit" (shutdown_parallel)
    WedgedAfter,    \* WEDGED_AFTER_TIMEOUTS
    MaxGeneration   \* bound: no server is started beyond this generation

ASSUME ClientsAssumption == IsFiniteSet(Clients)
ASSUME ThreadsAssumption ==
    Monitor \notin Clients /\ Closer \notin Clients /\ Monitor # Closer
ASSUME SlowStartAssumption == SlowStart \subseteq Languages
ASSUME TeardownsAssumption == Teardowns \subseteq {"shutdown", "exit"}
ASSUME WedgedAfterAssumption == WedgedAfter \in Nat \ {0}
ASSUME MaxGenerationAssumption == MaxGeneration \in Nat

Threads == Clients \cup {Monitor, Closer}
Servers == Languages \X Nat
Ages == {"fresh", "idle", "stale"}      \* since last_used: < ttl, >= ttl, >= BUSY_IDLE_GRACE
Failures == {"none", "cooling", "cooled"}

VARIABLES
    \* SlotState, per language
    resident,     \* server.is_some()
    generation,
    inFlight,
    age,          \* last_used.elapsed()
    failure,      \* start_failure and whether its cooldown still runs
    timeouts,
    crashes,
    stable,       \* started_at.elapsed() > CRASH_LOOP_WINDOW
    \* processes
    up,           \* generations whose process is running
    \* threads
    pc,
    lang,         \* language a client works on
    held,         \* generations of the guards a client holds
    resent,       \* the current call was already re-sent
    sample,       \* what try_reclaim peeked and sampled (at most one)
    victims,      \* servers a thread took out of a slot and still has to shut down
    todo,         \* languages a pass of the monitor or the closer has left
    stop          \* Inner.stop

slotVars == <<resident, generation, inFlight, age, failure, timeouts, crashes, stable>>
clientVars == <<lang, held, resent>>
vars == <<slotVars, up, pc, clientVars, sample, victims, todo, stop>>

Samples == [lang : Languages, gen : Nat, busy : BOOLEAN, over : BOOLEAN]

TypeOK ==
    /\ resident \in [Languages -> BOOLEAN]
    /\ generation \in [Languages -> Nat]
    /\ inFlight \in [Languages -> Nat]
    /\ age \in [Languages -> Ages]
    /\ failure \in [Languages -> Failures]
    /\ timeouts \in [Languages -> Nat]
    /\ crashes \in [Languages -> Nat]
    /\ stable \in [Languages -> BOOLEAN]
    /\ up \in [Languages -> SUBSET Nat]
    /\ pc \in [Threads -> {"idle", "gate", "starting", "using", "calling", "ok",
                           "crashed", "timeout", "wedged", "stopCrashed",
                           "stopWedged", "stopOrderly", "resend", "dropped",
                           "sampled", "reclaiming", "scan", "joining",
                           "closing", "exiting", "finished"}]
    /\ lang \in [Clients -> Languages]
    /\ held \in [Clients -> SUBSET Nat]
    /\ resent \in [Clients -> BOOLEAN]
    /\ sample \in [Threads -> SUBSET Samples]
    /\ victims \in [Threads -> SUBSET Servers]
    /\ todo \in [{Monitor, Closer} -> SUBSET Languages]
    /\ stop \in BOOLEAN

Init ==
    /\ resident = [l \in Languages |-> FALSE]
    /\ generation = [l \in Languages |-> 0]
    /\ inFlight = [l \in Languages |-> 0]
    /\ age = [l \in Languages |-> "fresh"]
    /\ failure = [l \in Languages |-> "none"]
    /\ timeouts = [l \in Languages |-> 0]
    /\ crashes = [l \in Languages |-> 0]
    /\ stable = [l \in Languages |-> FALSE]
    /\ up = [l \in Languages |-> {}]
    /\ pc = [t \in Threads |-> "idle"]
    /\ lang \in [Clients -> Languages]
    /\ held = [c \in Clients |-> {}]
    /\ resent = [c \in Clients |-> FALSE]
    /\ sample = [t \in Threads |-> {}]
    /\ victims = [t \in Threads |-> {}]
    /\ todo = [t \in {Monitor, Closer} |-> {}]
    /\ stop = FALSE

Goto(t, label) == pc' = [pc EXCEPT ![t] = label]

-----------------------------------------------------------------------------
(* acquire / checkout *)

\* Mint a guard on the resident server: creating it and counting it are one
\* critical section.  A fresh acquire returns it; a re-send sends on it.
CheckOut(c, l) ==
    /\ inFlight' = [inFlight EXCEPT ![l] = @ + 1]
    /\ age' = [age EXCEPT ![l] = "fresh"]
    /\ held' = [held EXCEPT ![c] = @ \cup {generation[l]}]
    /\ Goto(c, IF held[c] = {} THEN "using" ELSE "calling")
    /\ UNCHANGED <<resident, generation, failure, timeouts, crashes, stable>>

\* acquire returned an error: to the caller, or out of the call being re-sent.
AcquireFailed(c) == Goto(c, IF held[c] = {} THEN "idle" ELSE "using")

\* The fast path of acquire, entered by a query or by a call to be re-sent.
Acquire(c, l) ==
    /\ \/ pc[c] = "idle"
       \/ pc[c] = "resend" /\ l = lang[c]
    /\ lang' = [lang EXCEPT ![c] = l]
    /\ resent' = [resent EXCEPT ![c] = pc[c] = "resend"]
    /\ \/ resident[l] /\ CheckOut(c, l)
       \/ ~resident[l] /\ Goto(c, "gate") /\ UNCHANGED <<slotVars, held>>
    /\ UNCHANGED <<up, sample, victims, todo, stop>>

\* Mutant: no gate, any number of starters.
NoGate(l) == TRUE

\* start_gate is held exactly by the client that is starting the language.
GateFree(l) == \A c \in Clients : ~(pc[c] = "starting" /\ lang[c] = l)

Cooling(l) == failure[l] = "cooling"

\* Behind the gate: look again, honour the cooldown, else begin a start.
EnterGate(c) ==
    LET l == lang[c] IN
    /\ pc[c] = "gate"
    /\ GateFree(l)
    /\ \/ resident[l] /\ CheckOut(c, l)
       \/ /\ ~resident[l]
          /\ IF Cooling(l) THEN AcquireFailed(c) ELSE Goto(c, "starting")
          /\ UNCHANGED <<slotVars, held>>
    /\ UNCHANGED <<up, lang, resent, sample, victims, todo, stop>>

\* factory.start succeeded: install the server and mint its first guard.
StartOk(c) ==
    LET l == lang[c]
        g == generation[l] + 1
    IN
    /\ pc[c] = "starting"
    /\ generation[l] < MaxGeneration
    /\ resident' = [resident EXCEPT ![l] = TRUE]
    /\ generation' = [generation EXCEPT ![l] = g]
    /\ inFlight' = [inFlight EXCEPT ![l] = 1]
    /\ age' = [age EXCEPT ![l] = "fresh"]
    /\ failure' = [failure EXCEPT ![l] = "none"]
    /\ timeouts' = [timeouts EXCEPT ![l] = 0]
    /\ stable' = [stable EXCEPT ![l] = FALSE]
    /\ up' = [up EXCEPT ![l] = @ \cup {g}]
    /\ held' = [held EXCEPT ![c] = @ \cup {g}]
    /\ Goto(c, IF held[c] = {} THEN "using" ELSE "calling")
    /\ UNCHANGED <<crashes, lang, resent, sample, victims, todo, stop>>

\* factory.start failed: record the failure and cool down.
StartFail(c) ==
    LET l == lang[c] IN
    /\ pc[c] = "starting"
    /\ resident' = [resident EXCEPT ![l] = FALSE]
    /\ failure' = [failure EXCEPT ![l] = "cooling"]
    /\ AcquireFailed(c)
    /\ UNCHANGED <<generation, inFlight, age, timeouts, crashes, stable, up,
                   clientVars, sample, victims, todo, stop>>

-----------------------------------------------------------------------------
(* call / call_once *)

Current(c) == Max(held[c])

\* Mutant: the generation check of retire and of the counters is dropped.
MatchesAnything(c) == TRUE

\* The server this guard calls is still the one in the slot.
Matches(c) == generation[lang[c]] = Current(c)

Send(c) ==
    /\ pc[c] = "using"
    /\ resent' = [resent EXCEPT ![c] = FALSE]
    /\ Goto(c, "calling")
    /\ UNCHANGED <<slotVars, up, lang, held, sample, victims, todo, stop>>

\* The request ends, with no pool lock held.  Only a running server answers;
\* "using" is any other error, which call_once passes through untouched.
Answer(c) ==
    /\ pc[c] = "calling"
    /\ \E r \in {"ok", "timeout", "crashed", "using"} :
        /\ r = "ok" => Current(c) \in up[lang[c]]
        /\ r = "crashed" => Current(c) \notin up[lang[c]]
        /\ Goto(c, r)
    /\ UNCHANGED <<slotVars, up, clientVars, sample, victims, todo, stop>>

\* call_once on Ok: the server answers, so it is not wedged nor crash-looping.
RecordOk(c) ==
    LET l == lang[c] IN
    /\ pc[c] = "ok"
    /\ timeouts' = [timeouts EXCEPT ![l] = IF Matches(c) THEN 0 ELSE @]
    /\ crashes' = [crashes EXCEPT ![l] = IF Matches(c) /\ stable[l] THEN 0 ELSE @]
    /\ Goto(c, "using")
    /\ UNCHANGED <<resident, generation, inFlight, age, failure, stable, up,
                   clientVars, sample, victims, todo, stop>>

\* call_once on Timeout: count it against the server that was called.
RecordTimeout(c) ==
    LET l == lang[c] IN
    /\ pc[c] = "timeout"
    /\ timeouts' = [timeouts EXCEPT ![l] = IF Matches(c) THEN @ + 1 ELSE @]
    /\ Goto(c, IF Matches(c) /\ timeouts[l] + 1 >= WedgedAfter THEN "wedged" ELSE "using")
    /\ UNCHANGED <<resident, generation, inFlight, age, failure, crashes, stable,
                   up, clientVars, sample, victims, todo, stop>>

\* Take the server out of slot l: whoever does it must shut it down later.
TakeServer(t, l) ==
    /\ resident' = [resident EXCEPT ![l] = FALSE]
    /\ generation' = [generation EXCEPT ![l] = @ + 1]
    /\ inFlight' = [inFlight EXCEPT ![l] = 0]
    /\ victims' = [victims EXCEPT ![t] = @ \cup {<<l, generation[l]>>}]

\* Where call continues once a crashed server is dealt with.
AfterCrash(c) ==
    IF resent[c] \/ lang[c] \in SlowStart THEN "using" ELSE "resend"

\* retire(true): a crashed or wedged server leaves the slot, and from the
\* second crash in a row a backoff is recorded as a start failure.
RetireCrashed(c) ==
    LET l == lang[c]
        row == (IF stable[l] THEN 0 ELSE crashes[l]) + 1
    IN
    /\ pc[c] \in {"crashed", "wedged"}
    /\ \/ /\ Matches(c) /\ resident[l]
          /\ TakeServer(c, l)
          /\ timeouts' = [timeouts EXCEPT ![l] = 0]
          /\ crashes' = [crashes EXCEPT ![l] = row]
          /\ failure' = [failure EXCEPT ![l] = IF row >= 2 THEN "cooling" ELSE @]
          /\ Goto(c, IF pc[c] = "crashed" THEN "stopCrashed" ELSE "stopWedged")
          /\ UNCHANGED <<age, stable>>
       \/ /\ ~(Matches(c) /\ resident[l])
          /\ Goto(c, IF pc[c] = "crashed" THEN AfterCrash(c) ELSE "using")
          /\ UNCHANGED <<slotVars, victims>>
    /\ UNCHANGED <<up, clientVars, sample, todo, stop>>

\* ServerGuard::shutdown, retire(false): an orderly retire by a guard's owner.
RetireOrderly(c) ==
    LET l == lang[c] IN
    /\ pc[c] = "using"
    /\ Matches(c) /\ resident[l]
    /\ TakeServer(c, l)
    /\ timeouts' = [timeouts EXCEPT ![l] = 0]
    /\ Goto(c, "stopOrderly")
    /\ UNCHANGED <<age, failure, crashes, stable, up, clientVars, sample, todo, stop>>

-----------------------------------------------------------------------------
(* Drop for ServerGuard, and try_reclaim *)

\* Mutant: a stale guard is discounted too.
CountedAnyway(c) == held[c] # {}

\* One guard of the chain is of the slot's generation.
Counted(c) == generation[lang[c]] \in held[c]

\* Mutant: the guard and its replacement both give the count back.
ReleaseTwo(n) == n - 2

\* saturating_sub(1)
ReleaseOne(n) == IF n = 0 THEN 0 ELSE n - 1

\* Dropping a guard drops its replacements too; only the last of the chain can
\* be of the slot's generation, the others return early.
Drop(c) ==
    LET l == lang[c] IN
    /\ pc[c] = "using"
    /\ held' = [held EXCEPT ![c] = {}]
    /\ \/ /\ Counted(c)
          /\ inFlight' = [inFlight EXCEPT ![l] = ReleaseOne(@)]
          /\ age' = [age EXCEPT ![l] = "fresh"]
          /\ Goto(c, IF ReleaseOne(inFlight[l]) = 0 /\ resident[l] THEN "dropped" ELSE "idle")
       \/ /\ ~Counted(c)
          /\ Goto(c, "idle")
          /\ UNCHANGED <<inFlight, age>>
    /\ UNCHANGED <<resident, generation, failure, timeouts, crashes, stable, up,
                   lang, resent, sample, victims, todo, stop>>

\* Mutant: a server that stays busy is spared for ever.
IdleExpiredUnlessBusy(a, busy) == a # "fresh" /\ ~busy

\* should_reclaim: idle longer than the ttl that applies, or over the ceiling
\* that applies (memory_over_budget is sampled as one boolean).
IdleExpired(a, busy) == a = "stale" \/ (a = "idle" /\ ~busy)
ShouldReclaim(a, busy, over) == IdleExpired(a, busy) \/ over

\* Where a thread is when its try_reclaim of one language returns.
AfterReclaim(t) == IF t = Monitor THEN "scan" ELSE "idle"

\* First half of try_reclaim: peek under the lock, then sample memory and
\* business with no lock held.
Peek(t, l) ==
    /\ \/ t \in Clients /\ pc[t] = "dropped" /\ l = lang[t] /\ UNCHANGED todo
       \/ /\ t = Monitor /\ pc[t] = "scan" /\ l \in todo[t]
          /\ todo' = [todo EXCEPT ![t] = @ \ {l}]
    /\ \/ /\ resident[l] /\ inFlight[l] = 0
          /\ \E busy, over \in BOOLEAN :
                /\ ShouldReclaim(age[l], busy, over)
                /\ sample' = [sample EXCEPT ![t] =
                     {[lang |-> l, gen |-> generation[l], busy |-> busy, over |-> over]}]
          /\ Goto(t, "sampled")
       \/ /\ Goto(t, AfterReclaim(t))
          /\ ~resident[l] \/ inFlight[l] > 0 \/ ~IdleExpired(age[l], TRUE)
          /\ UNCHANGED sample
    /\ UNCHANGED <<slotVars, up, clientVars, victims, stop>>

\* Mutant: in_flight is not looked at again.
TakenUnchecked(s) ==
    /\ generation[s.lang] = s.gen
    /\ resident[s.lang]
    /\ ShouldReclaim(age[s.lang], s.busy, s.over)

\* What the second look must still find before the server is taken.
StillReclaimable(s) ==
    /\ generation[s.lang] = s.gen
    /\ inFlight[s.lang] = 0
    /\ resident[s.lang]
    /\ ShouldReclaim(age[s.lang], s.busy, s.over)

\* Second half of try_reclaim: look again under the lock, then take.
Reclaim(t) ==
    /\ pc[t] = "sampled"
    /\ sample' = [sample EXCEPT ![t] = {}]
    /\ \E s \in sample[t] :
        \/ /\ StillReclaimable(s)
           /\ TakeServer(t, s.lang)
           /\ Goto(t, "reclaiming")
        \/ /\ ~StillReclaimable(s)
           /\ Goto(t, AfterReclaim(t))
           /\ UNCHANGED <<resident, generation, inFlight, victims>>
    /\ UNCHANGED <<age, failure, timeouts, crashes, stable, up, clientVars, todo, stop>>

\* The shutdown handshake of a taken server, with no lock held.
ShutDown(t, v) ==
    /\ v \in victims[t]
    /\ victims' = [victims EXCEPT ![t] = @ \ {v}]
    /\ up' = [up EXCEPT ![v[1]] = @ \ {v[2]}]

StopVictim(t) ==
    /\ pc[t] \in {"stopCrashed", "stopWedged", "stopOrderly", "reclaiming"}
    /\ \E v \in victims[t] : ShutDown(t, v)
    /\ Goto(t, CASE pc[t] = "stopCrashed" -> AfterCrash(t)
                 [] pc[t] = "reclaiming"  -> AfterReclaim(t)
                 [] OTHER                 -> "using")
    /\ UNCHANGED <<slotVars, clientVars, sample, todo, stop>>

-----------------------------------------------------------------------------
(* monitor_loop and teardown *)

\* Mutant: the loop parks again without looking at the stop flag.
MonitorTickForever ==
    /\ pc[Monitor] = "idle"
    /\ Goto(Monitor, "scan")
    /\ todo' = [todo EXCEPT ![Monitor] = Languages]
    /\ UNCHANGED <<slotVars, up, clientVars, sample, victims, stop>>

MonitorTick ==
    /\ pc[Monitor] = "idle"
    /\ IF stop THEN Goto(Monitor, "finished") /\ UNCHANGED todo
               ELSE /\ Goto(Monitor, "scan")
                    /\ todo' = [todo EXCEPT ![Monitor] = Languages]
    /\ UNCHANGED <<slotVars, up, clientVars, sample, victims, stop>>

MonitorPassDone ==
    /\ pc[Monitor] = "scan"
    /\ todo[Monitor] = {}
    /\ Goto(Monitor, "idle")
    /\ UNCHANGED <<slotVars, up, clientVars, sample, victims, todo, stop>>

\* LspPool::shutdown signals and joins the monitor; exit's shutdown_parallel
\* goes straight to the slots.
CloseBegin ==
    /\ pc[Closer] = "idle"
    /\ todo' = [todo EXCEPT ![Closer] = Languages]
    /\ \/ "shutdown" \in Teardowns /\ Goto(Closer, "joining") /\ stop' = TRUE
       \/ "exit" \in Teardowns /\ Goto(Closer, "exiting") /\ UNCHANGED stop
    /\ UNCHANGED <<slotVars, up, clientVars, sample, victims>>

CloseJoin ==
    /\ pc[Closer] = "joining"
    /\ pc[Monitor] = "finished"
    /\ Goto(Closer, "closing")
    /\ UNCHANGED <<slotVars, up, clientVars, sample, victims, todo, stop>>

\* Take one slot's server, in flight or not.  shutdown_all shuts it down
\* before the next slot; shutdown_parallel first empties every slot.
CloseTake(l) ==
    /\ \/ pc[Closer] = "closing" /\ victims[Closer] = {}
       \/ pc[Closer] = "exiting"
    /\ l \in todo[Closer]
    /\ todo' = [todo EXCEPT ![Closer] = @ \ {l}]
    /\ \/ resident[l] /\ TakeServer(Closer, l)
       \/ ~resident[l] /\ UNCHANGED <<resident, generation, inFlight, victims>>
    /\ UNCHANGED <<age, failure, timeouts, crashes, stable, up, pc, clientVars,
                   sample, stop>>

\* The exit threads go on after the deadline has let the caller return.
CloseStop ==
    /\ pc[Closer] = "closing" \/ todo[Closer] = {}
    /\ \E v \in victims[Closer] : ShutDown(Closer, v)
    /\ UNCHANGED <<slotVars, pc, clientVars, sample, todo, stop>>

CloseDone ==
    /\ todo[Closer] = {}
    /\ \/ pc[Closer] = "closing" /\ victims[Closer] = {}
       \/ pc[Closer] = "exiting"
    /\ Goto(Closer, "finished")
    /\ UNCHANGED <<slotVars, up, clientVars, sample, victims, todo, stop>>

-----------------------------------------------------------------------------
(* The environment: time passes, server processes die *)

Age(l) ==
    /\ resident[l] /\ age[l] # "stale"
    /\ age' = [age EXCEPT ![l] = IF @ = "fresh" THEN "idle" ELSE "stale"]
    /\ UNCHANGED <<resident, generation, inFlight, failure, timeouts, crashes, stable,
                   up, pc, clientVars, sample, victims, todo, stop>>

Stabilise(l) ==
    /\ resident[l] /\ ~stable[l]
    /\ stable' = [stable EXCEPT ![l] = TRUE]
    /\ UNCHANGED <<resident, generation, inFlight, age, failure, timeouts, crashes,
                   up, pc, clientVars, sample, victims, todo, stop>>

CoolDown(l) ==
    /\ failure[l] = "cooling"
    /\ failure' = [failure EXCEPT ![l] = "cooled"]
    /\ UNCHANGED <<resident, generation, inFlight, age, timeouts, crashes, stable,
                   up, pc, clientVars, sample, victims, todo, stop>>

ProcessExits(l) ==
    /\ \E g \in up[l] : up' = [up EXCEPT ![l] = @ \ {g}]
    /\ UNCHANGED <<slotVars, pc, clientVars, sample, victims, todo, stop>>

-----------------------------------------------------------------------------
\* What a client does on its own once it has begun: every blocking call in it
\* (start, request, shutdown) is bounded by a timeout in the code.
ClientRuns(c) ==
    \/ pc[c] = "resend" /\ Acquire(c, lang[c])
    \/ EnterGate(c)
    \/ StartOk(c) \/ StartFail(c)
    \/ Answer(c) \/ RecordOk(c) \/ RecordTimeout(c)
    \/ RetireCrashed(c)
    \/ Peek(c, lang[c]) \/ Reclaim(c) \/ StopVictim(c)

ClientStep(c) ==
    \/ \E l \in Languages : Acquire(c, l)
    \/ EnterGate(c)
    \/ StartOk(c)
    \/ StartFail(c)
    \/ Send(c)
    \/ Answer(c)
    \/ RecordOk(c)
    \/ RecordTimeout(c)
    \/ RetireCrashed(c)
    \/ RetireOrderly(c)
    \/ Drop(c)

ReclaimStep(t) ==
    \/ \E l \in Languages : Peek(t, l)
    \/ Reclaim(t)
    \/ StopVictim(t)

MonitorStep == MonitorTick \/ MonitorPassDone

CloserStep ==
    \/ CloseBegin
    \/ CloseJoin
    \/ \E l \in Languages : CloseTake(l)
    \/ CloseStop
    \/ CloseDone

EnvStep(l) == Age(l) \/ Stabilise(l) \/ CoolDown(l) \/ ProcessExits(l)

Next ==
    \/ \E c \in Clients : ClientStep(c)
    \/ \E t \in Clients \cup {Monitor} : ReclaimStep(t)
    \/ MonitorStep
    \/ CloserStep
    \/ \E l \in Languages : EnvStep(l)

Spec == Init /\ [][Next]_vars

\* Threads keep running and time passes; nobody is obliged to query, to tear
\* the pool down or to crash.
Fairness ==
    /\ \A c \in Clients : WF_vars(ClientRuns(c))
    /\ WF_vars(ReclaimStep(Monitor))
    /\ WF_vars(MonitorStep)
    /\ WF_vars(CloseJoin \/ (\E l \in Languages : CloseTake(l)) \/ CloseDone)
    /\ WF_vars(CloseStop)
    /\ \A l \in Languages : WF_vars(Age(l))

FairSpec == Spec /\ Fairness
-----------------------------------------------------------------------------
(* What the pool promises *)

GuardHolders(l) == {c \in Clients : lang[c] = l /\ generation[l] \in held[c]}

\* in_flight is "the number of live ServerGuards for the current generation"
\* (pool.rs:31-33): acquire, start, drop, retire, reclaim and teardown all
\* rewrite it, and stale guards must never be counted nor discounted.
GuardsCounted == \A l \in Languages : inFlight[l] = Cardinality(GuardHolders(l))

\* "Reclaim cannot interrupt an in-flight request" (pool.rs:28-53): nobody
\* holds a guard on a server that a reclaimer has taken and is shutting down,
\* although the peek, the sample, the take and the shutdown are four steps.
ReclaimSparesHeld ==
    \A t \in Threads : pc[t] = "reclaiming" =>
        \A v \in victims[t], c \in Clients : lang[c] = v[1] => v[2] \notin held[c]

\* A running server is in its slot or in the hands of a thread that still has
\* to shut it down: no start, failure or race loses one (pool.rs:696-738).
NoServerLost ==
    \A l \in Languages : \A g \in up[l] :
        \/ resident[l] /\ g = generation[l]
        \/ \E t \in Threads : <<l, g>> \in victims[t]

\* Only a holder of a guard on that very server retires it: a stale guard that
\* reports a crash leaves the server that replaced its own alone
\* (retire, pool.rs:1044-1052).
RetiresOnlyItsOwn ==
    \A c \in Clients : pc[c] \in {"stopCrashed", "stopWedged", "stopOrderly"} =>
        \A v \in victims[c] : v[1] = lang[c] /\ v[2] \in held[c]

\* A start is under way only while no cooldown runs, whoever recorded the
\* failure and whenever: the crash backoff of retire (pool.rs:1057-1070) and
\* the failed-start cooldown of acquire (pool.rs:683-694).
StartsOnlyWhenCooled ==
    \A c \in Clients : pc[c] = "starting" => failure[lang[c]] # "cooling"

\* A guard is counted until it is dropped or its server leaves the slot: no
\* step takes a counted guard's server away except a retire of that server by
\* one of its holders or a teardown (pool.rs:55-57, 528-530).
BusyServerKept ==
    [][\A l \in Languages :
         resident[l] /\ GuardHolders(l) # {} /\ generation'[l] # generation[l] =>
            \/ <<l, generation[l]>> \in victims'[Closer]
            \/ \E c \in GuardHolders(l) : <<l, generation[l]>> \in victims'[c]]_vars

\* The exit path shuts the servers down "instead of leaving them to die with
\* stdin" (pool.rs:145-146): once it has finished, none is running.  The code
\* does not keep this; README.md section 4 has the instance that shows it.
ExitLeavesNoServer ==
    pc[Closer] = "finished" /\ victims[Closer] = {} => \A l \in Languages : up[l] = {}

\* A server nobody uses is reclaimed while the monitor runs: "nothing ever
\* reclaimed the process.  This pool is the missing trigger" (pool.rs:3-9).
IdleServerReclaimed ==
    \A l \in Languages : []<>(~resident[l] \/ inFlight[l] > 0 \/ stop)

\* A teardown that has begun returns: joining the monitor does not wait on a
\* pass that never ends (stop_monitor, shutdown; pool.rs:510-534).
TeardownReturns == (pc[Closer] # "idle") ~> (pc[Closer] = "finished")
=============================================================================
