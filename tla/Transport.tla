----------------------------- MODULE Transport -----------------------------
(* The JSON-RPC client of one language server, crates/astrolabe-core/src/lsp/
   transport.rs: query threads that send requests and wait for the reply with
   their id, a writer thread behind a bounded queue, a reader thread, and the
   shutdown handshake.

   Whoever finds the server gone stores LIFE_DEAD and then fails the requests
   in the pending table.  A request is entered into the table after a first
   look at `life` and sent after a second.  Each of the four is a step of its
   own here; NoVainWait says that no order of them lets a request wait for a
   reply that cannot come.

   Left out: framing, notifications and the server's own requests, which the
   reader answers through the same queue, and progress reports. *)
EXTENDS Naturals, Sequences

CONSTANTS Callers,      \* query threads
          Closer,       \* the thread that calls shutdown
          QueueFrames,  \* STDIN_QUEUE_FRAMES
          Attempts,     \* CONTENT_MODIFIED_ATTEMPTS
          MaxRequests   \* bound: no call begins after so many ids

ASSUME CloserAssumption == Closer \notin Callers
ASSUME BoundsAssumption == QueueFrames \in Nat \ {0} /\ Attempts \in Nat \ {0} /\ MaxRequests \in Nat

VARIABLES
    life,       \* LIFE_RUNNING, LIFE_SHUTDOWN, LIFE_DEAD
    pending,    \* ids with an entry in the table
    nextId,
    gate,       \* the queue's sender is there (stdin.is_some())
    queue,      \* frames for the writer: a request's id, or 0
    writer,     \* "idle", "writing", "sweep", "gone"
    frame,      \* what the writer has taken
    reader,     \* "idle", "sending", "sweep", "gone"
    hand,       \* the reply that the reader has found a waiter for
    outbox,     \* replies on their way
    server,     \* "up" (it may still neither read nor reply), "exited"
    heldOpen,   \* a grandchild keeps the pipes of an exited server open
    inbox,      \* requests the server has read and not answered
    pc,         \* per thread
    after,      \* per thread, where it goes on after a kill or a sweep
    id,         \* per thread, the id of its request, or 0
    mail,       \* per thread, what its channel holds
    tries       \* per thread, attempts made

tableVars  == <<pending, nextId>>
writeVars  == <<gate, queue, writer, frame>>
readVars   == <<reader, hand, outbox>>
serverVars == <<server, heldOpen, inbox>>
placeVars  == <<pc, after>>
callVars   == <<id, mail, tries>>
vars == <<life, tableVars, writeVars, readVars, serverVars, placeVars, callVars>>

Threads == Callers \cup {Closer}

Reply(n, what) == [id |-> n, what |-> what]
Nothing == Reply(0, "none")

Init ==
    /\ life = "running" /\ pending = {} /\ nextId = 1
    /\ gate = TRUE /\ queue = <<>> /\ writer = "idle" /\ frame = 0
    /\ reader = "idle" /\ hand = Nothing /\ outbox = {}
    /\ server = "up" /\ heldOpen = FALSE /\ inbox = {}
    /\ pc = [t \in Threads |-> "idle"]
    /\ after = [t \in Threads |-> "idle"]
    /\ id = [t \in Threads |-> 0]
    /\ mail = [t \in Threads |-> Nothing]
    /\ tries = [t \in Threads |-> 0]

Goto(t, l) == pc' = [pc EXCEPT ![t] = l] /\ UNCHANGED after

\* Do k, a kill or a sweep, and go on at l.
GotoVia(t, k, l) == pc' = [pc EXCEPT ![t] = k] /\ after' = [after EXCEPT ![t] = l]

\* fail_pending: every request with an entry is told that the server crashed.
FailPending ==
    /\ pending' = {}
    /\ mail' = [t \in Threads |->
                  IF id[t] \in pending /\ mail[t] = Nothing THEN Reply(id[t], "crashed") ELSE mail[t]]

\* Where t goes on when its request returns; the closer has its handshake left.
Home(t) == IF t = Closer THEN "mark" ELSE "idle"

\* Mutant of Clear: one channel serves every request of a thread.
SharesChannel(t) ==
    /\ id' = [id EXCEPT ![t] = 0]
    /\ tries' = [tries EXCEPT ![t] = 0]
    /\ UNCHANGED mail

\* The channel and the id of the request of t go out of use.
Clear(t) ==
    /\ id' = [id EXCEPT ![t] = 0]
    /\ mail' = [mail EXCEPT ![t] = Nothing]
    /\ tries' = [tries EXCEPT ![t] = 0]

Return(t) == Clear(t) /\ Goto(t, Home(t))

-----------------------------------------------------------------------------
(* A request: request_value, request_once and write_rpc. *)

Call(t) ==
    /\ t \in Callers
    /\ pc[t] = "idle"
    /\ nextId <= MaxRequests
    /\ Goto(t, "look")
    /\ UNCHANGED <<life, tableVars, writeVars, readVars, serverVars, callVars>>

\* The first look at life.
Look(t) ==
    /\ pc[t] = "look"
    /\ \/ life = "dead" /\ Return(t)
       \/ life = "shutdown" /\ t # Closer /\ Return(t)
       \/ /\ life = "running" \/ (life = "shutdown" /\ t = Closer)
          /\ Goto(t, "exited")
          /\ UNCHANGED callVars
    /\ UNCHANGED <<life, tableVars, writeVars, readVars, serverVars>>

\* A process that has exited: the first to see it fails the others.
LookExited(t) ==
    /\ pc[t] = "exited"
    /\ LET next == IF t = Closer THEN "enter" ELSE "idle"
       IN  \/ server # "exited" /\ Goto(t, "enter") /\ UNCHANGED life
           \/ /\ server = "exited" /\ life = "running"
              /\ life' = "dead"
              /\ GotoVia(t, "sweep", next)
           \/ server = "exited" /\ life # "running" /\ Goto(t, next) /\ UNCHANGED life
    /\ UNCHANGED <<tableVars, writeVars, readVars, serverVars, callVars>>

\* A new id and its entry in the table.
Enter(t) ==
    /\ pc[t] = "enter"
    /\ nextId' = nextId + 1
    /\ id' = [id EXCEPT ![t] = nextId]
    /\ pending' = pending \cup {nextId}
    /\ tries' = [tries EXCEPT ![t] = @ + 1]
    /\ Goto(t, "write")
    /\ UNCHANGED <<life, writeVars, readVars, serverVars, mail>>

\* Mutant of Write: life is looked at once.
WritesBlind(t) ==
    /\ pc[t] = "write"
    /\ Goto(t, "push")
    /\ UNCHANGED <<life, tableVars, writeVars, readVars, serverVars, callVars>>

\* write_rpc: the second look at life.
Write(t) ==
    /\ pc[t] = "write"
    /\ Goto(t, IF life = "dead" THEN "drop" ELSE "push")
    /\ UNCHANGED <<life, tableVars, writeVars, readVars, serverVars, callVars>>

\* Mutant of Push: send instead of try_send.
PushBlocks(t, n, yes, no) ==
    \/ /\ gate /\ writer # "gone" /\ Len(queue) < QueueFrames
       /\ queue' = Append(queue, n)
       /\ Goto(t, yes)
       /\ UNCHANGED life
    \/ ~gate /\ Goto(t, no) /\ UNCHANGED <<queue, life>>
    \/ /\ gate /\ writer = "gone"
       /\ life' = "dead"
       /\ GotoVia(t, "sweep", no)
       /\ UNCHANGED queue

\* write_rpc under the stdin lock: frame n is queued and t goes on at yes; at
\* no when the gate is closed, the writer has gone, or it is so far behind
\* that the queue is full.
Push(t, n, yes, no) ==
    \/ /\ gate /\ writer # "gone" /\ Len(queue) < QueueFrames
       /\ queue' = Append(queue, n)
       /\ Goto(t, yes)
       /\ UNCHANGED life
    \/ ~gate /\ Goto(t, no) /\ UNCHANGED <<queue, life>>
    \/ /\ gate /\ writer = "gone"
       /\ life' = "dead"
       /\ GotoVia(t, "sweep", no)
       /\ UNCHANGED queue
    \/ /\ gate /\ writer # "gone" /\ Len(queue) = QueueFrames
       /\ GotoVia(t, "kill", no)
       /\ UNCHANGED <<queue, life>>

PushRequest(t) ==
    /\ pc[t] = "push"
    /\ Push(t, id[t], "wait", "drop")
    /\ UNCHANGED <<tableVars, gate, writer, frame, readVars, serverVars, callVars>>

\* kill_stuck_server, up to its fail_pending.
Kill(t) ==
    /\ pc[t] = "kill"
    /\ life' = "dead"
    /\ gate' = FALSE
    /\ server' = "exited"
    /\ heldOpen' = FALSE
    /\ inbox' = {}
    /\ pc' = [pc EXCEPT ![t] = "sweep"]
    /\ UNCHANGED <<tableVars, queue, writer, frame, readVars, after, callVars>>

Sweep(t) ==
    /\ pc[t] = "sweep"
    /\ FailPending
    /\ pc' = [pc EXCEPT ![t] = after[t]]
    /\ after' = [after EXCEPT ![t] = "idle"]
    /\ UNCHANGED <<life, nextId, writeVars, readVars, serverVars, id, tries>>

\* Mutant of Drop: a request that could not be sent stays in the table.
LeavesEntry(t) ==
    /\ pc[t] = "drop"
    /\ Return(t)
    /\ UNCHANGED <<life, tableVars, writeVars, readVars, serverVars>>

\* Sending failed: the entry is taken back.
Drop(t) ==
    /\ pc[t] = "drop"
    /\ pending' = pending \ {id[t]}
    /\ Return(t)
    /\ UNCHANGED <<life, nextId, writeVars, readVars, serverVars>>

\* The channel holds an answer; after ContentModified the request is repeated
\* under a new id.
Receive(t) ==
    /\ pc[t] = "wait"
    /\ mail[t] # Nothing
    /\ \/ Return(t)
       \/ /\ mail[t].what = "modified"
          /\ tries[t] < Attempts
          /\ id' = [id EXCEPT ![t] = 0]
          /\ mail' = [mail EXCEPT ![t] = Nothing]
          /\ Goto(t, "look")
          /\ UNCHANGED tries
    /\ UNCHANGED <<life, tableVars, writeVars, readVars, serverVars>>

\* The time is up: the entry is removed.
TimeOut(t) ==
    /\ pc[t] = "wait"
    /\ mail[t] = Nothing
    /\ pending' = pending \ {id[t]}
    /\ Goto(t, "late")
    /\ UNCHANGED <<life, nextId, writeVars, readVars, serverVars, callVars>>

\* A reply that came meanwhile is returned all the same; without one, a writer
\* that has long been in its frame gives a server away that does not read.
Late(t) ==
    /\ pc[t] = "late"
    /\ \/ mail[t] # Nothing /\ Return(t)
       \/ /\ mail[t] = Nothing
          /\ Clear(t)
          /\ \/ writer = "writing" /\ GotoVia(t, "kill", Home(t))
             \/ Goto(t, "cancel")
    /\ UNCHANGED <<life, tableVars, writeVars, readVars, serverVars>>

\* $/cancelRequest; whether it could be sent is ignored.
Cancel(t) ==
    /\ pc[t] = "cancel"
    /\ \/ life = "dead" /\ Goto(t, Home(t)) /\ UNCHANGED <<queue, life>>
       \/ life # "dead" /\ Push(t, 0, Home(t), Home(t))
    /\ UNCHANGED <<tableVars, gate, writer, frame, readVars, serverVars, callVars>>

-----------------------------------------------------------------------------
(* shutdown and stop_with_grace. *)

Close ==
    /\ pc[Closer] = "idle"
    /\ Goto(Closer, IF life = "running" THEN "look" ELSE "stop")
    /\ UNCHANGED <<life, tableVars, writeVars, readVars, serverVars, callVars>>

\* Whatever came of the request, life is overwritten.
MarkShutdown ==
    /\ pc[Closer] = "mark"
    /\ life' = "shutdown"
    /\ Goto(Closer, "bye")
    /\ UNCHANGED <<tableVars, writeVars, readVars, serverVars, callVars>>

\* The exit notification.
SendExit ==
    /\ pc[Closer] = "bye"
    /\ \/ life = "dead" /\ Goto(Closer, "stop") /\ UNCHANGED <<queue, life>>
       \/ life # "dead" /\ Push(Closer, 0, "stop", "stop")
    /\ UNCHANGED <<tableVars, gate, writer, frame, readVars, serverVars, callVars>>

\* life.swap, and the store that takes it back for a transport that was dead.
Stop ==
    /\ pc[Closer] = "stop"
    /\ life' = "shutdown"
    /\ Goto(Closer, IF life = "dead" THEN "restore" ELSE "gate")
    /\ UNCHANGED <<tableVars, writeVars, readVars, serverVars, callVars>>

Restore ==
    /\ pc[Closer] = "restore"
    /\ life' = "dead"
    /\ Goto(Closer, "gate")
    /\ UNCHANGED <<tableVars, writeVars, readVars, serverVars, callVars>>

CloseGate ==
    /\ pc[Closer] = "gate"
    /\ gate' = FALSE
    /\ Goto(Closer, "reap")
    /\ UNCHANGED <<life, tableVars, queue, writer, frame, readVars, serverVars, callVars>>

\* The process exits within its grace or is killed, with its group.
Reap ==
    /\ pc[Closer] = "reap"
    /\ server' = "exited"
    /\ heldOpen' = FALSE
    /\ inbox' = {}
    /\ Goto(Closer, "dead")
    /\ UNCHANGED <<life, tableVars, writeVars, readVars, callVars>>

MarkDead ==
    /\ pc[Closer] = "dead"
    /\ life' = "dead"
    /\ GotoVia(Closer, "sweep", "closed")
    /\ UNCHANGED <<tableVars, writeVars, readVars, serverVars, callVars>>

-----------------------------------------------------------------------------
(* write_stdin, the writer thread. *)

WriterTakes ==
    /\ writer = "idle"
    /\ queue # <<>>
    /\ writer' = "writing"
    /\ frame' = Head(queue)
    /\ queue' = Tail(queue)
    /\ UNCHANGED <<life, tableVars, gate, readVars, serverVars, placeVars, callVars>>

\* write_all returns when somebody reads, and fails once nobody can.
WriterWrites ==
    /\ writer = "writing"
    /\ frame' = 0
    /\ \/ /\ server = "up" \/ heldOpen
          /\ inbox' = IF server = "up" THEN inbox \cup ({frame} \ {0}) ELSE inbox
          /\ writer' = "idle"
          /\ UNCHANGED life
       \/ /\ server = "exited" /\ ~heldOpen
          /\ life' = "dead"
          /\ writer' = "sweep"
          /\ UNCHANGED inbox
    /\ UNCHANGED <<tableVars, gate, queue, readVars, server, heldOpen, placeVars, callVars>>

WriterSweeps ==
    /\ writer = "sweep"
    /\ FailPending
    /\ writer' = "gone"
    /\ UNCHANGED <<life, nextId, gate, queue, frame, readVars, serverVars, placeVars, id, tries>>

\* The sender is gone and the queue is drained.
WriterEnds ==
    /\ writer = "idle"
    /\ queue = <<>> /\ ~gate
    /\ writer' = "gone"
    /\ UNCHANGED <<life, tableVars, gate, queue, frame, readVars, serverVars, placeVars, callVars>>

-----------------------------------------------------------------------------
(* read_stdout and handle_response, the reader thread. *)

\* A reply is read; one that nobody waits for is dropped.
ReaderTakes ==
    /\ reader = "idle"
    /\ \E m \in outbox :
         /\ outbox' = outbox \ {m}
         /\ pending' = pending \ {m.id}
         /\ \/ m.id \in pending /\ reader' = "sending" /\ hand' = m
            \/ m.id \notin pending /\ UNCHANGED <<reader, hand>>
    /\ UNCHANGED <<life, nextId, writeVars, serverVars, placeVars, callVars>>

\* tx.send: it reaches the request that made the channel, or nobody.
ReaderSends ==
    /\ reader = "sending"
    /\ mail' = [t \in Threads |-> IF id[t] = hand.id THEN hand ELSE mail[t]]
    /\ reader' = "idle"
    /\ hand' = Nothing
    /\ UNCHANGED <<life, tableVars, writeVars, outbox, serverVars, placeVars, id, tries>>

\* on_reader_exit: the server sent no frame, or the end of the file, which
\* comes once nobody holds the pipe open.
ReaderEnds ==
    /\ reader = "idle"
    /\ outbox = {}
    /\ server = "up" \/ (server = "exited" /\ ~heldOpen)
    /\ life' = IF life = "running" THEN "dead" ELSE life
    /\ reader' = IF life = "running" THEN "sweep" ELSE "gone"
    /\ UNCHANGED <<tableVars, writeVars, hand, outbox, serverVars, placeVars, callVars>>

ReaderSweeps ==
    /\ reader = "sweep"
    /\ FailPending
    /\ reader' = "gone"
    /\ UNCHANGED <<life, nextId, writeVars, hand, outbox, serverVars, placeVars, id, tries>>

-----------------------------------------------------------------------------
(* The server process. *)

ServerReplies ==
    /\ server = "up"
    /\ \E n \in inbox, what \in {"ok", "modified"} :
         /\ inbox' = inbox \ {n}
         /\ outbox' = outbox \cup {Reply(n, what)}
    /\ UNCHANGED <<life, tableVars, writeVars, reader, hand, server, heldOpen, placeVars, callVars>>

ServerExits(held) ==
    /\ server = "up"
    /\ server' = "exited"
    /\ heldOpen' = held
    /\ inbox' = {}
    /\ UNCHANGED <<life, tableVars, writeVars, readVars, placeVars, callVars>>

-----------------------------------------------------------------------------

Request(t) ==
    \/ Look(t) \/ LookExited(t) \/ Enter(t) \/ Write(t) \/ PushRequest(t)
    \/ Kill(t) \/ Sweep(t) \/ Drop(t) \/ Receive(t)
    \/ TimeOut(t) \/ Late(t) \/ Cancel(t)

Shutdown ==
    \/ MarkShutdown \/ SendExit \/ Stop \/ Restore \/ CloseGate \/ Reap \/ MarkDead

Writer == WriterTakes \/ WriterWrites \/ WriterSweeps \/ WriterEnds
Reader == ReaderTakes \/ ReaderSends \/ ReaderEnds \/ ReaderSweeps

Next ==
    \/ \E t \in Threads : Call(t) \/ Request(t)
    \/ Close \/ Shutdown
    \/ Writer \/ Reader
    \/ ServerReplies \/ (\E held \in BOOLEAN : ServerExits(held))

\* Threads that call are scheduled and their deadlines pass; nothing is asked
\* of the server, nor of the threads that hold its pipes.
Fairness == (\A t \in Threads : WF_vars(Request(t))) /\ WF_vars(Shutdown)

Spec == Init /\ [][Next]_vars /\ Fairness

-----------------------------------------------------------------------------

Places == {"idle", "look", "exited", "enter", "write", "push", "wait", "late", "cancel",
           "drop", "kill", "sweep", "mark", "bye", "stop", "restore",
           "gate", "reap", "dead", "closed"}
Replies == [id : Nat, what : {"none", "ok", "modified", "crashed"}]

(* Every variable has its type, and an entry of the table belongs to a request
   that is under way: no path out of request_once leaves its entry behind
   (transport.rs:675-693). *)
TypeOK ==
    /\ life \in {"running", "shutdown", "dead"} /\ gate \in BOOLEAN
    /\ \A n \in pending : n # 0 /\ \E t \in Threads : id[t] = n
    /\ nextId \in Nat
    /\ queue \in Seq(Nat) /\ frame \in Nat
    /\ writer \in {"idle", "writing", "sweep", "gone"}
    /\ reader \in {"idle", "sending", "sweep", "gone"}
    /\ hand \in Replies /\ outbox \subseteq Replies
    /\ server \in {"up", "exited"} /\ heldOpen \in BOOLEAN /\ inbox \subseteq Nat
    /\ pc \in [Threads -> Places] /\ after \in [Threads -> Places]
    /\ id \in [Threads -> Nat] /\ mail \in [Threads -> Replies]
    /\ tries \in [Threads -> Nat]

\* Somebody is still going to fail the pending requests.
SweepDue ==
    \/ writer = "sweep" \/ reader = "sweep"
    \/ \E t \in Threads : pc[t] = "sweep"
    \/ pc[Closer] \in {"gate", "reap", "dead"}

(* On a dead transport, once the sweeps under way are done, a request that was
   sent holds its answer or the reader is about to give it one: it never waits
   for its timeout, whenever the death fell between its two looks at life, its
   entry and its frame (transport.rs:653-680, 1816). *)
NoVainWait ==
    life = "dead" /\ ~SweepDue =>
      \A t \in Threads :
        pc[t] \in {"push", "wait"} => mail[t] # Nothing \/ (reader = "sending" /\ hand.id = id[t])

(* What a request finds in its channel answers this request: never a reply to
   one that timed out, to an earlier attempt or to another thread
   (transport.rs:682-686, 2129). *)
OwnReply ==
    \A t \in Threads : mail[t] # Nothing => id[t] # 0 /\ mail[t].id = id[t]

(* Every request returns and a shutdown ends, although the server may stop
   reading, stop answering or die at any moment, and the queue may be full
   (transport.rs:84-87). *)
RequestReturns ==
    /\ \A t \in Callers : pc[t] # "idle" ~> pc[t] = "idle"
    /\ pc[Closer] # "idle" ~> pc[Closer] = "closed"
=============================================================================
