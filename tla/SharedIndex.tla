----------------------------- MODULE SharedIndex -----------------------------
(***************************************************************************)
(* One index per repository across sessions:                               *)
(* crates/astrolabe-mcp/src/shared_index/imp.rs and server/shared.rs.      *)
(*                                                                         *)
(* Every MCP session is a process.  The one that wins indexer.lock serves  *)
(* a Unix socket; the others follow it and forward their tool calls.  In   *)
(* each session four threads meet: the elector (boot, or the re-election   *)
(* after a disconnect), the promoter (watch_for_promotion), a forwarded    *)
(* call, and main's exit path.  Every action is one critical section of    *)
(* the role or leader mutex, or one system call on the socket or the lock. *)
(*                                                                         *)
(* A session follows another at most once (one that has stopped serving    *)
(* never serves again: see Leadership), so a connection is named by its    *)
(* leader.                                                                 *)
(***************************************************************************)
EXTENDS Naturals, FiniteSets

CONSTANTS
    Sessions,
    Loners,       \* sessions that do not share (ASTROLABE_SHARED_INDEX=off)
    Odd,          \* sharing sessions whose settings differ from the others'
    Unbindable,   \* sessions whose bind of the socket fails
    Mortal,       \* sessions that may be killed
    Callers,      \* sessions whose client calls tools
    MaxHandovers, \* MAX_HANDOVERS_PER_CALL
    Nobody

ASSUME SessionsAssumption == IsFiniteSet(Sessions) /\ Nobody \notin Sessions
ASSUME KindsAssumption ==
    /\ Loners \subseteq Sessions /\ Odd \subseteq Sessions
    /\ Unbindable \subseteq Sessions /\ Mortal \subseteq Sessions
    /\ Callers \subseteq Sessions \ Loners
ASSUME MaxHandoversAssumption == MaxHandovers \in Nat

VARIABLES
    phase,      \* of the process: boot, then up, then main's exit path, then gone
    role,       \* Shared.role
    peer,       \* the connection in Role::Follower
    conns,      \* connections this session has not closed
    readers,    \* connections with a reader thread
    slot,       \* RootSession.indexer_lock is Some
    started,    \* local_started, and the local index threads run
    listener,   \* Shared.leader and the state of its socket
    bindFailed,
    elector,    \* the elect/settle thread
    elected,    \* the leader it connected to
    graceOver,  \* its grace period has elapsed
    promoter,   \* the watch_for_promotion thread
    call,       \* a forwarded call
    via,        \* the connection it uses
    handovers,
    sock        \* whose listener the socket file belongs to

electVars == <<elector, elected, graceOver>>
callVars == <<call, via, handovers>>
vars == <<phase, role, peer, conns, readers, slot, started, listener, bindFailed,
          electVars, promoter, callVars, sock>>

TypeOK ==
    /\ phase \in [Sessions -> {"off", "booting", "up", "closing", "stopping", "unlinking",
                               "removing", "unhosted", "torn", "gone"}]
    /\ role \in [Sessions -> {"electing", "follower", "local", "closed"}]
    /\ peer \in [Sessions -> Sessions \cup {Nobody}]
    /\ conns \in [Sessions -> SUBSET Sessions]
    /\ readers \in [Sessions -> SUBSET Sessions]
    /\ slot \in [Sessions -> BOOLEAN]
    /\ started \in [Sessions -> BOOLEAN]
    /\ listener \in [Sessions -> {"none", "up", "stopping"}]
    /\ bindFailed \in [Sessions -> BOOLEAN]
    /\ elector \in [Sessions -> {"off", "connect", "acquire", "wait", "follow", "lead", "adopt",
                                 "serve", "bind", "local", "start"}]
    /\ elected \in [Sessions -> Sessions \cup {Nobody}]
    /\ graceOver \in [Sessions -> BOOLEAN]
    /\ promoter \in [Sessions -> {"off", "sleep", "take", "serve", "bind", "unlock", "done"}]
    /\ call \in [Sessions -> {"idle", "wait", "sent", "local", "start", "hangup"}]
    /\ via \in [Sessions -> Sessions \cup {Nobody}]
    /\ handovers \in [Sessions -> 0..MaxHandovers]
    /\ sock \in Sessions \cup {Nobody}

Init ==
    /\ phase = [p \in Sessions |-> "off"]
    /\ role = [p \in Sessions |-> "electing"]
    /\ peer = [p \in Sessions |-> Nobody]
    /\ conns = [p \in Sessions |-> {}]
    /\ readers = [p \in Sessions |-> {}]
    /\ slot = [p \in Sessions |-> FALSE]
    /\ started = [p \in Sessions |-> FALSE]
    /\ listener = [p \in Sessions |-> "none"]
    /\ bindFailed = [p \in Sessions |-> FALSE]
    /\ elector = [p \in Sessions |-> "off"]
    /\ elected = [p \in Sessions |-> Nobody]
    /\ graceOver = [p \in Sessions |-> FALSE]
    /\ promoter = [p \in Sessions |-> "off"]
    /\ call = [p \in Sessions |-> "idle"]
    /\ via = [p \in Sessions |-> Nobody]
    /\ handovers = [p \in Sessions |-> 0]
    /\ sock = Nobody

Running(p) == phase[p] \notin {"off", "gone"}
Hosted(p) == phase[p] \in {"booting", "up", "closing", "stopping", "unlinking",
                         "removing"}

\* The IndexerLock is held by a slot, or by an elector that has won it.
HoldsLock(p) == slot[p] \/ elector[p] \in {"lead", "adopt"}

\* Mutant: the lock is not exclusive.
LockAlwaysFree == TRUE

LockFree == \A p \in Sessions : ~HoldsLock(p)

\* serve_socket keeps the leader mutex from the role check to the bind.
LeaderMutexFree(p) == elector[p] # "bind" /\ promoter[p] # "bind"

\* Both ends of p's connection to l are open.
Live(p, l) == l \in conns[p] /\ listener[l] # "none"

Mismatch(p, l) == (p \in Odd) # (l \in Odd)
-----------------------------------------------------------------------------
(* boot and elect *)

Boot(p) ==
    /\ phase[p] = "off"
    /\ phase' = [phase EXCEPT ![p] = IF p \in Loners THEN "up" ELSE "booting"]
    /\ IF p \in Loners
       THEN /\ role' = [role EXCEPT ![p] = "local"]
            /\ started' = [started EXCEPT ![p] = TRUE]
            /\ UNCHANGED elector
       ELSE /\ elector' = [elector EXCEPT ![p] = "connect"]
            /\ UNCHANGED <<role, started>>
    /\ UNCHANGED <<peer, conns, readers, slot, listener, bindFailed, elected, graceOver,
                   promoter, callVars, sock>>

\* Mutant: a connection is taken for granted, even without a socket.
DialsBlindly(p) ==
    /\ elector[p] = "connect"
    /\ elector' = [elector EXCEPT ![p] = "follow"]
    /\ elected' = [elected EXCEPT ![p] = sock]
    /\ conns' = [conns EXCEPT ![p] = @ \cup {sock}]
    /\ UNCHANGED <<phase, role, peer, readers, slot, started, listener, bindFailed, graceOver,
                   promoter, callVars, sock>>

\* connect: nobody listens (or answers within HELLO_TIMEOUT), a leader
\* refuses, or a leader accepts.
Connect(p) ==
    /\ elector[p] = "connect"
    /\ \/ /\ elector' = [elector EXCEPT ![p] = "acquire"]
          /\ UNCHANGED <<elected, conns>>
       \/ /\ sock # Nobody /\ listener[sock] = "up"
          /\ IF Mismatch(p, sock)
             THEN /\ elector' = [elector EXCEPT ![p] = "local"]
                  /\ UNCHANGED <<elected, conns>>
             ELSE /\ elector' = [elector EXCEPT ![p] = "follow"]
                  /\ elected' = [elected EXCEPT ![p] = sock]
                  /\ conns' = [conns EXCEPT ![p] = @ \cup {sock}]
    /\ UNCHANGED <<phase, role, peer, readers, slot, started, listener, bindFailed, graceOver,
                   promoter, callVars, sock>>

TryAcquire(p) ==
    /\ elector[p] = "acquire"
    /\ elector' = [elector EXCEPT ![p] = IF LockFree THEN "lead" ELSE "wait"]
    /\ UNCHANGED <<phase, role, peer, conns, readers, slot, started, listener, bindFailed,
                   elected, graceOver, promoter, callVars, sock>>

\* The loop of elect; an I/O error of the lock ends it as an elapsed grace does.
ElectAgain(p) ==
    /\ elector[p] = "wait"
    /\ elector' = [elector EXCEPT ![p] = IF graceOver[p] THEN "local" ELSE "connect"]
    /\ UNCHANGED <<phase, role, peer, conns, readers, slot, started, listener, bindFailed,
                   elected, graceOver, promoter, callVars, sock>>

GraceElapses(p) ==
    /\ elector[p] \in {"connect", "acquire", "wait"}
    /\ ~graceOver[p]
    /\ graceOver' = [graceOver EXCEPT ![p] = TRUE]
    /\ UNCHANGED <<phase, role, peer, conns, readers, slot, started, listener, bindFailed,
                   elector, elected, promoter, callVars, sock>>

-----------------------------------------------------------------------------
(* settle *)

\* boot returns once its election has settled, and only then are calls served.
ElectorDone(p) ==
    /\ elector' = [elector EXCEPT ![p] = "off"]
    /\ phase' = [phase EXCEPT ![p] = IF @ = "booting" THEN "up" ELSE @]

StillElecting(p) == role[p] = "electing"

\* settle(Follower): only a session that is still electing follows; one that
\* went local or shut down meanwhile closes the connection.
SettleFollower(p) ==
    LET l == elected[p] IN
    /\ elector[p] = "follow"
    /\ \/ /\ StillElecting(p)
          /\ role' = [role EXCEPT ![p] = "follower"]
          /\ peer' = [peer EXCEPT ![p] = l]
          /\ readers' = [readers EXCEPT ![p] = @ \cup {l}]
          /\ UNCHANGED conns
       \/ /\ ~StillElecting(p)
          /\ conns' = [conns EXCEPT ![p] = @ \ {l}]
          /\ UNCHANGED <<role, peer, readers>>
    /\ ElectorDone(p)
    /\ elected' = [elected EXCEPT ![p] = Nobody]
    /\ UNCHANGED <<slot, started, listener, bindFailed, graceOver, promoter, callVars,
                   sock>>

\* become_leader: a closed session drops the lock it won.
BecomeLeader(p) ==
    /\ elector[p] = "lead"
    /\ elector' = [elector EXCEPT ![p] =
                     IF role[p] = "closed" \/ ~Hosted(p) THEN "off" ELSE "adopt"]
    /\ UNCHANGED <<phase, role, peer, conns, readers, slot, started, listener, bindFailed,
                   elected, graceOver, promoter, callVars, sock>>

AdoptLock(p) ==
    /\ elector[p] = "adopt"
    /\ slot' = [slot EXCEPT ![p] = TRUE]
    /\ elector' = [elector EXCEPT ![p] = "serve"]
    /\ UNCHANGED <<phase, role, peer, conns, readers, started, listener, bindFailed,
                   elected, graceOver, promoter, callVars, sock>>

\* serve_socket, under the leader mutex: is there a socket to bind?
MayServe(p) == listener[p] = "none" /\ role[p] # "closed"

\* Listener::bind: the file at the path is stale, for we hold the lock.
Bind(p) ==
    IF p \in Unbindable
    THEN /\ bindFailed' = [bindFailed EXCEPT ![p] = TRUE]
         /\ sock' \in {sock, Nobody}
         /\ UNCHANGED listener
    ELSE /\ listener' = [listener EXCEPT ![p] = "up"]
         /\ sock' = p
         /\ UNCHANGED bindFailed

ElectorServes(p) ==
    /\ elector[p] = "serve" /\ LeaderMutexFree(p)
    /\ elector' = [elector EXCEPT ![p] = IF MayServe(p) THEN "bind" ELSE "local"]
    /\ UNCHANGED <<phase, role, peer, conns, readers, slot, started, listener, bindFailed,
                   elected, graceOver, promoter, callVars, sock>>

ElectorBinds(p) ==
    /\ elector[p] = "bind"
    /\ Bind(p)
    /\ elector' = [elector EXCEPT ![p] = "local"]
    /\ UNCHANGED <<phase, role, peer, conns, readers, slot, started, elected, graceOver,
                   promoter, callVars>>

\* go_local, first half: whatever the session was, it answers on its own now.
GoLocal(p) ==
    IF role[p] = "closed" THEN UNCHANGED <<role, peer>>
    ELSE /\ role' = [role EXCEPT ![p] = "local"]
         /\ peer' = [peer EXCEPT ![p] = Nobody]

\* go_local, second half: start the index once, and poll for the lock.
StartLocal(p) ==
    /\ LeaderMutexFree(p)
    /\ started' = [started EXCEPT ![p] = @ \/ Hosted(p)]
    /\ promoter' = [promoter EXCEPT ![p] =
                      IF @ = "off" /\ listener[p] # "up" THEN "sleep" ELSE @]

ElectorGoesLocal(p) ==
    /\ elector[p] = "local"
    /\ GoLocal(p)
    /\ elector' = [elector EXCEPT ![p] = IF role[p] = "closed" THEN "off" ELSE "start"]
    /\ UNCHANGED <<phase, conns, readers, slot, started, listener, bindFailed, elected,
                   graceOver, promoter, callVars, sock>>

ElectorStarts(p) ==
    /\ elector[p] = "start"
    /\ StartLocal(p)
    /\ ElectorDone(p)
    /\ UNCHANGED <<role, peer, conns, readers, slot, listener, bindFailed, elected,
                   graceOver, callVars, sock>>

-----------------------------------------------------------------------------
(* watch_for_promotion, and the index threads *)

PromoterPolls(p) ==
    /\ promoter[p] = "sleep" /\ LeaderMutexFree(p)
    /\ promoter' = [promoter EXCEPT ![p] =
         IF role[p] = "closed" \/ listener[p] = "up" \/ bindFailed[p] \/ ~Hosted(p)
         THEN "done" ELSE "take"]
    /\ UNCHANGED <<phase, role, peer, conns, readers, slot, started, listener, bindFailed,
                   electVars, callVars, sock>>

\* try_take_lock
PromoterTakes(p) ==
    /\ promoter[p] = "take"
    /\ slot' = [slot EXCEPT ![p] = @ \/ LockFree]
    /\ promoter' = [promoter EXCEPT ![p] = IF slot'[p] THEN "serve" ELSE "sleep"]
    /\ UNCHANGED <<phase, role, peer, conns, readers, started, listener, bindFailed,
                   electVars, callVars, sock>>

PromoterServes(p) ==
    /\ promoter[p] = "serve" /\ LeaderMutexFree(p)
    /\ \/ /\ MayServe(p)
          /\ promoter' = [promoter EXCEPT ![p] = "bind"]
       \/ /\ ~MayServe(p)
          /\ promoter' = [promoter EXCEPT ![p] = IF listener[p] = "up" THEN "done" ELSE "unlock"]
    /\ UNCHANGED <<phase, role, peer, conns, readers, slot, started, listener, bindFailed,
                   electVars, callVars, sock>>

PromoterBinds(p) ==
    /\ promoter[p] = "bind"
    /\ Bind(p)
    /\ promoter' = [promoter EXCEPT ![p] = IF p \in Unbindable THEN "unlock" ELSE "done"]
    /\ UNCHANGED <<phase, role, peer, conns, readers, slot, started, electVars, callVars>>

\* release_lock: a promotion that lost a race with shutdown.
PromoterUnlocks(p) ==
    /\ promoter[p] = "unlock"
    /\ slot' = [slot EXCEPT ![p] = @ /\ role[p] # "closed"]
    /\ promoter' = [promoter EXCEPT ![p] = "done"]
    /\ UNCHANGED <<phase, role, peer, conns, readers, started, listener, bindFailed,
                   electVars, callVars, sock>>

\* refresh_leader, called by every build and every applied change set.
RefreshLeader(p) ==
    /\ started[p] /\ Running(p)
    /\ ~slot[p] /\ LockFree
    /\ slot' = [slot EXCEPT ![p] = TRUE]
    /\ UNCHANGED <<phase, role, peer, conns, readers, started, listener, bindFailed,
                   electVars, promoter, callVars, sock>>

-----------------------------------------------------------------------------
(* forward, on_disconnect, abandon *)

\* Only the loss of the connection in use starts a re-election.
OnDisconnect(p, l) ==
    IF role[p] = "follower" /\ peer[p] = l
    THEN /\ role' = [role EXCEPT ![p] = "electing"]
         /\ peer' = [peer EXCEPT ![p] = Nobody]
         /\ elector' = [elector EXCEPT ![p] = "connect"]
         /\ graceOver' = [graceOver EXCEPT ![p] = FALSE]
    ELSE UNCHANGED <<role, peer, elector, graceOver>>

\* Mutant: the reader ends without reporting the loss.
ReaderQuits(p, l) ==
    /\ l \in readers[p] /\ ~Live(p, l)
    /\ readers' = [readers EXCEPT ![p] = @ \ {l}]
    /\ conns' = [conns EXCEPT ![p] = @ \ {l}]
    /\ UNCHANGED <<phase, role, peer, slot, started, listener, bindFailed, electVars, promoter,
                   callVars, sock>>

\* The reader thread of a connection sees its end.
ReaderEof(p, l) ==
    /\ l \in readers[p] /\ ~Live(p, l)
    /\ readers' = [readers EXCEPT ![p] = @ \ {l}]
    /\ conns' = [conns EXCEPT ![p] = @ \ {l}]
    /\ OnDisconnect(p, l)
    /\ UNCHANGED <<phase, slot, started, listener, bindFailed, elected, promoter, callVars, sock>>

CallBegins(p) ==
    /\ phase[p] = "up" /\ p \in Callers /\ call[p] = "idle"
    /\ call' = [call EXCEPT ![p] = "wait"]
    /\ handovers' = [handovers EXCEPT ![p] = 0]
    /\ UNCHANGED <<phase, role, peer, conns, readers, slot, started, listener, bindFailed,
                   electVars, promoter, via, sock>>

\* Follower: send.  Local or closed: the session answers itself.
CallRouted(p) ==
    /\ call[p] = "wait"
    /\ \/ /\ role[p] = "follower"
          /\ call' = [call EXCEPT ![p] = "sent"]
          /\ via' = [via EXCEPT ![p] = peer[p]]
       \/ /\ role[p] \in {"local", "closed"}
          /\ call' = [call EXCEPT ![p] = "idle"]
          /\ UNCHANGED via
    /\ UNCHANGED <<phase, role, peer, conns, readers, slot, started, listener, bindFailed,
                   electVars, promoter, handovers, sock>>

\* No leader within QUEUE_BUDGET: the role mutex is dropped before go_local.
CallDeadline(p) ==
    /\ call[p] = "wait" /\ role[p] = "electing"
    /\ call' = [call EXCEPT ![p] = "local"]
    /\ UNCHANGED <<phase, role, peer, conns, readers, slot, started, listener, bindFailed,
                   electVars, promoter, via, handovers, sock>>

CallAnswered(p) ==
    /\ call[p] = "sent" /\ Live(p, via[p])
    /\ call' = [call EXCEPT ![p] = "idle"]
    /\ via' = [via EXCEPT ![p] = Nobody]
    /\ UNCHANGED <<phase, role, peer, conns, readers, slot, started, listener, bindFailed,
                   electVars, promoter, handovers, sock>>

\* The client cancels, and the call polls for it.
CallCancelled(p) ==
    /\ \/ call[p] = "sent"
       \/ call[p] = "wait" /\ role[p] = "electing"
    /\ call' = [call EXCEPT ![p] = "idle"]
    /\ via' = [via EXCEPT ![p] = Nobody]
    /\ UNCHANGED <<phase, role, peer, conns, readers, slot, started, listener, bindFailed,
                   electVars, promoter, handovers, sock>>

\* The leader did not answer in time: abandon it.
CallTimeout(p) ==
    /\ call[p] = "sent"
    /\ call' = [call EXCEPT ![p] = "local"]
    /\ UNCHANGED <<phase, role, peer, conns, readers, slot, started, listener, bindFailed,
                   electVars, promoter, via, handovers, sock>>

\* Mutant: the end of the connection does not fail its pending requests.
LossUnnoticed(p) == FALSE

CallDisconnected(p) ==
    /\ call[p] = "sent" /\ ~Live(p, via[p])
    /\ OnDisconnect(p, via[p])
    /\ via' = [via EXCEPT ![p] = Nobody]
    /\ IF handovers[p] = MaxHandovers
       THEN call' = [call EXCEPT ![p] = "local"] /\ UNCHANGED handovers
       ELSE /\ call' = [call EXCEPT ![p] = "wait"]
            /\ handovers' = [handovers EXCEPT ![p] = @ + 1]
    /\ UNCHANGED <<phase, conns, readers, slot, started, listener, bindFailed, elected,
                   promoter, sock>>

CallGoesLocal(p) ==
    /\ call[p] = "local"
    /\ GoLocal(p)
    /\ call' = [call EXCEPT ![p] = IF role[p] = "closed" THEN "hangup" ELSE "start"]
    /\ UNCHANGED <<phase, conns, readers, slot, started, listener, bindFailed, electVars,
                   promoter, via, handovers, sock>>

CallStarts(p) ==
    /\ call[p] = "start"
    /\ StartLocal(p)
    /\ call' = [call EXCEPT ![p] = "hangup"]
    /\ UNCHANGED <<phase, role, peer, conns, readers, slot, listener, bindFailed, electVars,
                   via, handovers, sock>>

\* abandon closes the connection that timed out; the other paths have none.
CallHangsUp(p) ==
    /\ call[p] = "hangup"
    /\ conns' = [conns EXCEPT ![p] = @ \ {via[p]}]
    /\ call' = [call EXCEPT ![p] = "idle"]
    /\ via' = [via EXCEPT ![p] = Nobody]
    /\ UNCHANGED <<phase, role, peer, readers, slot, started, listener, bindFailed, electVars,
                   promoter, handovers, sock>>

-----------------------------------------------------------------------------
(* shutdown, and the end of the process *)

Shutdown(p) ==
    /\ phase[p] = "up"
    /\ phase' = [phase EXCEPT ![p] = "closing"]
    /\ role' = [role EXCEPT ![p] = "closed"]
    /\ conns' = [conns EXCEPT ![p] = @ \ {peer[p]}]
    /\ peer' = [peer EXCEPT ![p] = Nobody]
    /\ UNCHANGED <<readers, slot, started, listener, bindFailed, electVars, promoter,
                   callVars, sock>>

TakeListener(p) ==
    /\ phase[p] = "closing" /\ LeaderMutexFree(p)
    /\ IF listener[p] = "up"
       THEN /\ listener' = [listener EXCEPT ![p] = "stopping"]
            /\ phase' = [phase EXCEPT ![p] = "stopping"]
       ELSE /\ phase' = [phase EXCEPT ![p] = "unhosted"]
            /\ UNCHANGED listener
    /\ UNCHANGED <<role, peer, conns, readers, slot, started, bindFailed, electVars, promoter,
                   callVars, sock>>

\* Listener::stop: a connection to the path wakes the accept loop, which ends;
\* then every follower is dropped.
StopListener(p) ==
    /\ phase[p] = "stopping"
    /\ sock = p
    /\ listener' = [listener EXCEPT ![p] = "none"]
    /\ phase' = [phase EXCEPT ![p] = "unlinking"]
    /\ UNCHANGED <<role, peer, conns, readers, slot, started, bindFailed, electVars, promoter,
                   callVars, sock>>

\* Is the file at the path still our inode?
CheckSocket(p) ==
    /\ phase[p] = "unlinking"
    /\ phase' = [phase EXCEPT ![p] = IF sock = p THEN "removing" ELSE "unhosted"]
    /\ UNCHANGED <<role, peer, conns, readers, slot, started, listener, bindFailed, electVars,
                   promoter, callVars, sock>>

\* Unlink it, and drop the host.
RemoveSocket(p) ==
    /\ phase[p] = "removing"
    /\ sock' = Nobody
    /\ phase' = [phase EXCEPT ![p] = "unhosted"]
    /\ UNCHANGED <<role, peer, conns, readers, slot, started, listener, bindFailed, electVars,
                   promoter, callVars>>

\* Mutant: the lock is released before the socket is closed.
TeardownFirst(p) ==
    /\ phase[p] \in {"closing", "unhosted"} /\ slot[p]
    /\ slot' = [slot EXCEPT ![p] = FALSE]
    /\ UNCHANGED phase
    /\ UNCHANGED <<role, peer, conns, readers, started, listener, bindFailed, electVars,
                   promoter, callVars, sock>>

\* shutdown_indexing: the session's teardown releases the lock.
Teardown(p) ==
    /\ phase[p] = "unhosted"
    /\ phase' = [phase EXCEPT ![p] = "torn"]
    /\ slot' = [slot EXCEPT ![p] = FALSE]
    /\ UNCHANGED <<role, peer, conns, readers, started, listener, bindFailed, electVars,
                   promoter, callVars, sock>>

\* The process ends: the system closes its sockets and releases its lock.
Dies(p) ==
    /\ phase' = [phase EXCEPT ![p] = "gone"]
    /\ role' = [role EXCEPT ![p] = "closed"]
    /\ peer' = [peer EXCEPT ![p] = Nobody]
    /\ conns' = [conns EXCEPT ![p] = {}]
    /\ readers' = [readers EXCEPT ![p] = {}]
    /\ slot' = [slot EXCEPT ![p] = FALSE]
    /\ started' = [started EXCEPT ![p] = FALSE]
    /\ listener' = [listener EXCEPT ![p] = "none"]
    /\ elector' = [elector EXCEPT ![p] = "off"]
    /\ elected' = [elected EXCEPT ![p] = Nobody]
    /\ promoter' = [promoter EXCEPT ![p] = "done"]
    /\ call' = [call EXCEPT ![p] = "idle"]
    /\ via' = [via EXCEPT ![p] = Nobody]
    /\ UNCHANGED <<bindFailed, graceOver, handovers, sock>>

\* At the end of main, whatever the background threads are doing.
Exit(p) == phase[p] = "torn" /\ Dies(p)

\* Killed: the socket file of a killed leader stays behind.
Killed(p) == p \in Mortal /\ Running(p) /\ Dies(p)

-----------------------------------------------------------------------------
ElectorStep(p) ==
    \/ Connect(p) \/ TryAcquire(p) \/ ElectAgain(p)
    \/ SettleFollower(p)
    \/ BecomeLeader(p) \/ AdoptLock(p) \/ ElectorServes(p) \/ ElectorBinds(p)
    \/ ElectorGoesLocal(p) \/ ElectorStarts(p)

PromoterStep(p) ==
    \/ PromoterPolls(p) \/ PromoterTakes(p) \/ PromoterServes(p) \/ PromoterBinds(p)
    \/ PromoterUnlocks(p)

\* What a forwarded call does on its own once it has begun.
CallRuns(p) ==
    \/ CallRouted(p) \/ CallAnswered(p) \/ CallDisconnected(p)
    \/ CallGoesLocal(p) \/ CallStarts(p) \/ CallHangsUp(p)

CallStep(p) ==
    \/ CallBegins(p) \/ CallRuns(p) \/ CallDeadline(p) \/ CallCancelled(p) \/ CallTimeout(p)

ExitStep(p) ==
    \/ TakeListener(p) \/ StopListener(p) \/ CheckSocket(p) \/ RemoveSocket(p)
    \/ Teardown(p) \/ Exit(p)

Next ==
    \E p \in Sessions :
        \/ Boot(p)
        \/ ElectorStep(p) \/ GraceElapses(p)
        \/ PromoterStep(p)
        \/ RefreshLeader(p)
        \/ \E l \in Sessions : ReaderEof(p, l)
        \/ CallStep(p)
        \/ Shutdown(p)
        \/ ExitStep(p)
        \/ Killed(p)

Spec == Init /\ [][Next]_vars

\* Threads run, time passes, a live leader answers, and an exit once begun goes
\* on.  Nobody has to start, call, cancel, time out, shut down or be killed.
Fairness ==
    \A p \in Sessions :
        /\ WF_vars(ElectorStep(p))
        /\ WF_vars(GraceElapses(p))
        /\ WF_vars(PromoterStep(p))
        /\ \A l \in Sessions : WF_vars(ReaderEof(p, l))
        /\ WF_vars(CallRuns(p))
        /\ WF_vars(ExitStep(p))

FairSpec == Spec /\ Fairness
-----------------------------------------------------------------------------
(* What sharing promises *)

\* The session that serves the socket holds indexer.lock, from before the bind
\* until its exit takes the listener down: so two sessions never serve at once,
\* although election, promotion, index builds and the exit path all take or
\* release the lock (serve_socket and shutdown, imp.rs:387, 566).
ServesUnderLock == \A p \in Sessions : listener[p] = "up" => slot[p]

\* "Leader exit: close the socket (followers see EOF), then release the lock"
\* (shared_index.rs:23).  Not kept by the code: README.md, section 4.
ClosesThenReleases == \A p \in Sessions : listener[p] = "stopping" => slot[p]

\* A new session always finds the live leader at the path: no stale or foreign
\* unlink removes its socket file (Listener::bind and stop, imp.rs:592, 652).
SocketReachesLeader == \A p \in Sessions : listener[p] = "up" => sock = p

\* "A follower never starts a watcher or builds an index"
\* (tests/shared_index.rs:210), whatever late call or election turns up.
FollowersIndexNothing == \A p \in Sessions : role[p] = "follower" => ~started[p]

\* A session that has gone local or closed never follows or elects again:
\* "stop using it for good" (abandon, imp.rs:492), although elections, calls and
\* readers that began earlier are still running.
LocalForGood ==
    [][\A p \in Sessions :
         /\ role[p] = "local" => role'[p] \in {"local", "closed"}
         /\ role[p] = "closed" => role'[p] = "closed"]_vars

\* A lost leader starts one election, although the reader thread and every
\* waiting call report the loss (on_disconnect, imp.rs:468).
OneElection ==
    [][\A p \in Sessions :
         elector[p] \notin {"off", "wait", "connect"} => elector'[p] # "connect"]_vars

\* No two sessions hold indexer.lock: it is won by the elector, the promoter
\* and the index threads of every session independently.
OneHolder == \A p, q \in Sessions : HoldsLock(p) /\ HoldsLock(q) => p = q

\* Once shutdown has returned and no thread of the session is still on its way,
\* no leader serves it any more: "close the socket (followers see EOF) or our
\* leader connection" (imp.rs:564).  Not kept by the code: README.md, section 4.
ShutdownHangsUp ==
    \A p, l \in Sessions :
        phase[p] \in {"unhosted", "torn"} /\ elector[p] = "off" /\ call[p] = "idle" =>
            ~Live(p, l)

\* A forwarded call returns, through any number of leaders that go away.
CallReturns == \A p \in Sessions : (call[p] # "idle") ~> (call[p] = "idle")

\* Sharing recovers: it never stays without a leader while a sharing session is
\* up, unless binding failed or a session that does not share has the lock.
SomeoneServes ==
    []<>(\/ \E p \in Sessions : listener[p] = "up" \/ bindFailed[p]
         \/ \E p \in Loners : slot[p]
         \/ \A p \in Sessions \ Loners : phase[p] # "up")
=============================================================================
