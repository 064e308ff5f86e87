-------------------------- MODULE LspClientProofs --------------------------
(***************************************************************************)
(* Proofs about the client of one language server: its Transport, and the  *)
(* documents that its session holds open, OpenDocs.                        *)
(*                                                                         *)
(* Transport, for any number of threads, any queue and any number of       *)
(* requests.  A request that was entered has its entry in the              *)
(* table until somebody has its answer in hand (EntryOrAnswer), and what   *)
(* is in a channel or in the reader's hand has no entry any more           *)
(* (AnswerHasNoEntry).  Whoever stores LIFE_DEAD still has a sweep to do,  *)
(* and a sweep empties the table; after the last one a request can enter   *)
(* it but its second look at life stops it (SweptTable).  Ids that are     *)
(* never given twice keep one thread from taking another's entry (OneId),  *)
(* and a thread has one exactly while its request is under way (IdInUse).  *)
(*                                                                         *)
(* OpenDocs, for any files, query threads and limit.  CopyAt says what the *)
(* server's copy of a file will be when a frame arrives; a frame that is   *)
(* sent is met by the last copies, and handling one changes no later copy  *)
(* (CopyAppend, CopyTail).  So what the session believes is compared with  *)
(* the last copies (Session), every frame on its way fits the copy that it *)
(* will meet (InStep), and what a query on its way will find is known to   *)
(* be no older than the query (Fresh), because a file's text only grows    *)
(* newer than a query that was asked about it (TextsInOrder).              *)
(***************************************************************************)
EXTENDS Transport, OpenDocs, SequenceTheorems, WellFoundedInduction, TLAPS

(* Transport. *)


\* Ids are given once.
OneId ==
    /\ nextId > 0 /\ hand.id < nextId
    /\ \A t \in Threads : id[t] < nextId
    /\ \A t, u \in Threads : id[t] # 0 /\ id[t] = id[u] => t = u

\* Only a request that is under way has an id, also beyond a kill or a sweep.
IdInUse ==
    \A t \in Threads :
      /\ pc[t] \notin {"write", "push", "wait", "late", "drop", "kill", "sweep"} => id[t] = 0
      /\ pc[t] \in {"kill", "sweep"} =>
           \/ after[t] = "drop"
           \/ id[t] = 0 /\ after[t] \in {"idle", "enter", "mark", "stop", "closed"}

\* What is answered or given up has no entry.
AnswerHasNoEntry ==
    /\ reader = "sending" => hand.id # 0 /\ hand.id \notin pending
    /\ \A t \in Threads : mail[t] # Nothing \/ pc[t] = "late" => id[t] \notin pending

Answered(t) == mail[t] # Nothing \/ (reader = "sending" /\ hand.id = id[t])

\* A request that is under way has an entry or an answer.
EntryOrAnswer ==
    \A t \in Threads : pc[t] \in {"write", "push", "wait"} => id[t] \in pending \/ Answered(t)

\* On a dead transport no request that may be sent has an entry.
SweptTable ==
    life = "dead" /\ ~SweepDue =>
      \A t \in Threads : pc[t] \in {"push", "wait"} => id[t] \notin pending

Kept == /\ TypeOK /\ OneId /\ IdInUse /\ OwnReply
        /\ AnswerHasNoEntry /\ EntryOrAnswer /\ SweptTable

-----------------------------------------------------------------------------
LEMMA ClosesThread == Closer \in Threads
  BY DEF Threads

LEMMA NothingIsReply ==
  /\ Nothing \in Replies /\ Nothing.id = 0
  /\ \A m \in Replies : m.id \in Nat
  /\ \A n : Reply(n, "crashed") # Nothing /\ Reply(n, "crashed").id = n
  /\ \A n \in Nat, what \in {"ok", "modified", "crashed"} : Reply(n, what) \in Replies
  BY DEF Nothing, Replies, Reply

\* Init establishes each part.
LEMMA KeptInit == Init => Kept
<1> SUFFICES ASSUME Init
             PROVE  Kept
  OBVIOUS
<1>1. TypeOK
  <2>1. /\ queue \in Seq(Nat) /\ hand \in Replies
        /\ mail \in [Threads -> Replies] /\ id \in [Threads -> Nat]
    BY NothingIsReply DEF Init
  <2>2. pc \in [Threads -> Places] /\ after \in [Threads -> Places] /\ tries \in [Threads -> Nat]
    BY DEF Init, Places
  <2> QED
    BY <2>1, <2>2 DEF Init, TypeOK
<1>2. OneId /\ IdInUse /\ OwnReply
  BY DEF Init, OneId, IdInUse, OwnReply, Nothing, Reply
<1>3. AnswerHasNoEntry /\ EntryOrAnswer /\ SweptTable
  BY DEF Init, AnswerHasNoEntry, EntryOrAnswer, SweptTable, Nothing, Reply
<1> QED
  BY <1>1, <1>2, <1>3 DEF Kept


\* Every step keeps the types and takes an entry away before its request ends.
LEMMA TypeStep ==
  ASSUME TypeOK, OneId, IdInUse, AnswerHasNoEntry, [Next]_vars
  PROVE  TypeOK'
<1> USE ClosesThread, BoundsAssumption DEF tableVars, writeVars, readVars, serverVars,
       placeVars, callVars
<1>a. /\ life \in {"running", "shutdown", "dead"} /\ gate \in BOOLEAN /\ nextId \in Nat
      /\ queue \in Seq(Nat) /\ frame \in Nat
      /\ writer \in {"idle", "writing", "sweep", "gone"}
      /\ reader \in {"idle", "sending", "sweep", "gone"}
      /\ hand \in Replies /\ outbox \subseteq Replies
      /\ server \in {"up", "exited"} /\ heldOpen \in BOOLEAN /\ inbox \subseteq Nat
  BY DEF TypeOK
<1>b. pc \in [Threads -> Places] /\ after \in [Threads -> Places]
  BY DEF TypeOK
<1>c. /\ id \in [Threads -> Nat] /\ mail \in [Threads -> Replies]
      /\ tries \in [Threads -> Nat]
  BY DEF TypeOK
<1>d. \A n \in pending : n # 0 /\ \E u \in Threads : id[u] = n
  BY DEF TypeOK
<1>1. CASE UNCHANGED vars
  BY <1>1 DEF vars, TypeOK
<1>2. ASSUME NEW t \in Threads, Call(t) \/ Request(t)
      PROVE  TypeOK'
  <2>1. CASE Call(t)
    BY <2>1, <1>a, <1>b, <1>c, <1>d, NothingIsReply DEF TypeOK, Places, Call, Goto
  <2>2. CASE Look(t)
    <3>1. /\ life' \in {"running", "shutdown", "dead"} /\ gate' \in BOOLEAN /\ nextId' \in Nat
          /\ writer' \in {"idle", "writing", "sweep", "gone"} /\ frame' \in Nat
      BY <2>2, <1>a DEF Look, Goto, Return, Clear, Home
    <3>2. queue' \in Seq(Nat)
      BY <2>2, <1>a DEF Look, Goto, Return, Clear, Home
    <3>3. /\ reader' \in {"idle", "sending", "sweep", "gone"}
          /\ hand' \in Replies /\ outbox' \subseteq Replies
          /\ server' \in {"up", "exited"} /\ heldOpen' \in BOOLEAN /\ inbox' \subseteq Nat
      BY <2>2, <1>a, NothingIsReply DEF Look, Goto, Return, Clear, Home
    <3>4. pc' \in [Threads -> Places] /\ after' \in [Threads -> Places]
      BY <2>2, <1>b DEF Look, Goto, Return, Clear, Home, Places
    <3>5. /\ id' \in [Threads -> Nat] /\ mail' \in [Threads -> Replies]
          /\ tries' \in [Threads -> Nat]
      BY ZenonT(60), <2>2, <1>a, <1>c, NothingIsReply DEF Look, Goto, Return, Clear, Home
    <3>6. \A n \in pending' : n # 0 /\ \E u \in Threads : id'[u] = n
      <4>1. id[t] = 0
        BY <2>2 DEF Look, IdInUse
      <4>2. pending' = pending /\ id' = id
        BY <2>2, <4>1, <1>c DEF Look, Goto, Return, Clear
      <4> QED
        BY <4>2, <1>d
    <3> QED
      BY <3>1, <3>2, <3>3, <3>4, <3>5, <3>6 DEF TypeOK
  <2>3. CASE LookExited(t)
    BY ZenonT(60), <2>3, <1>a, <1>b, <1>c, <1>d, NothingIsReply DEF TypeOK, Places, LookExited, Goto, GotoVia
  <2>4. CASE Enter(t)
    <3>1. /\ life' \in {"running", "shutdown", "dead"} /\ gate' \in BOOLEAN /\ nextId' \in Nat
          /\ writer' \in {"idle", "writing", "sweep", "gone"} /\ frame' \in Nat
      BY <2>4, <1>a DEF Enter, Goto
    <3>2. queue' \in Seq(Nat)
      BY <2>4, <1>a DEF Enter, Goto
    <3>3. /\ reader' \in {"idle", "sending", "sweep", "gone"}
          /\ hand' \in Replies /\ outbox' \subseteq Replies
          /\ server' \in {"up", "exited"} /\ heldOpen' \in BOOLEAN /\ inbox' \subseteq Nat
      BY <2>4, <1>a, NothingIsReply DEF Enter, Goto
    <3>4. pc' \in [Threads -> Places] /\ after' \in [Threads -> Places]
      BY <2>4, <1>b DEF Enter, Goto, Places
    <3>5. /\ id' \in [Threads -> Nat] /\ mail' \in [Threads -> Replies]
          /\ tries' \in [Threads -> Nat]
      BY <2>4, <1>a, <1>c, NothingIsReply DEF Enter, Goto
    <3>6. \A n \in pending' : n # 0 /\ \E u \in Threads : id'[u] = n
      <4>1. id[t] = 0 /\ nextId # 0
        BY <2>4 DEF Enter, IdInUse, OneId
      <4>2. pending' = pending \cup {nextId} /\ id' = [id EXCEPT ![t] = nextId]
        BY <2>4 DEF Enter
      <4> SUFFICES ASSUME NEW n \in pending'
                   PROVE  n # 0 /\ \E u \in Threads : id'[u] = n
        OBVIOUS
      <4>3. CASE n = nextId
        BY <4>1, <4>2, <4>3, <1>c
      <4>4. CASE n # nextId
        <5>1. n # 0
          BY <4>2, <4>4, <1>d
        <5>2. PICK u \in Threads : id[u] = n
          BY <4>2, <4>4, <1>d
        <5> QED
          BY <4>1, <4>2, <5>1, <5>2, <1>c
      <4> QED
        BY <4>3, <4>4
    <3> QED
      BY <3>1, <3>2, <3>3, <3>4, <3>5, <3>6 DEF TypeOK
  <2>5. CASE Write(t)
    BY <2>5, <1>a, <1>b, <1>c, <1>d, NothingIsReply DEF TypeOK, Places, Write, Goto
  <2>6. CASE PushRequest(t)
    <3>1. /\ life' \in {"running", "shutdown", "dead"} /\ gate' \in BOOLEAN /\ nextId' \in Nat
          /\ writer' \in {"idle", "writing", "sweep", "gone"} /\ frame' \in Nat
      BY <2>6, <1>a DEF PushRequest, Push, Goto, GotoVia
    <3>2. queue' \in Seq(Nat)
      <4>1. queue' = queue \/ queue' = Append(queue, id[t])
        BY <2>6 DEF PushRequest, Push, Goto, GotoVia
      <4>2. queue \in Seq(Nat) /\ id[t] \in Nat
        BY <1>a, <1>c
      <4> QED
        BY <4>1, <4>2
    <3>3. /\ reader' \in {"idle", "sending", "sweep", "gone"}
          /\ hand' \in Replies /\ outbox' \subseteq Replies
          /\ server' \in {"up", "exited"} /\ heldOpen' \in BOOLEAN /\ inbox' \subseteq Nat
      BY <2>6, <1>a, NothingIsReply DEF PushRequest, Push, Goto, GotoVia
    <3>4. pc' \in [Threads -> Places] /\ after' \in [Threads -> Places]
      BY <2>6, <1>b DEF PushRequest, Push, Goto, GotoVia, Places
    <3>5. /\ id' \in [Threads -> Nat] /\ mail' \in [Threads -> Replies]
          /\ tries' \in [Threads -> Nat]
      BY <2>6, <1>a, <1>c, NothingIsReply DEF PushRequest, Push, Goto, GotoVia
    <3>6. \A n \in pending' : n # 0 /\ \E u \in Threads : id'[u] = n
      BY <2>6, <1>a, <1>c, <1>d, NothingIsReply DEF PushRequest, Push, Goto, GotoVia,
         OneId, IdInUse, AnswerHasNoEntry
    <3> QED
      BY <3>1, <3>2, <3>3, <3>4, <3>5, <3>6 DEF TypeOK
  <2>7. CASE Kill(t)
    BY <2>7, <1>a, <1>b, <1>c, <1>d, NothingIsReply DEF TypeOK, Places, Kill
  <2>8. CASE Sweep(t)
    BY <2>8, <1>a, <1>b, <1>c, <1>d, NothingIsReply DEF TypeOK, Places, Sweep, FailPending
  <2>9. CASE Drop(t)
    BY <2>9, <1>a, <1>b, <1>c, <1>d, NothingIsReply DEF TypeOK, Places, Drop, Return, Clear, Goto, Home
  <2>10. CASE Receive(t)
    <3>1. /\ life' \in {"running", "shutdown", "dead"} /\ gate' \in BOOLEAN /\ nextId' \in Nat
          /\ writer' \in {"idle", "writing", "sweep", "gone"} /\ frame' \in Nat
      BY <2>10, <1>a DEF Receive, Return, Clear, Goto, Home
    <3>2. queue' \in Seq(Nat)
      BY <2>10, <1>a DEF Receive, Return, Clear, Goto, Home
    <3>3. /\ reader' \in {"idle", "sending", "sweep", "gone"}
          /\ hand' \in Replies /\ outbox' \subseteq Replies
          /\ server' \in {"up", "exited"} /\ heldOpen' \in BOOLEAN /\ inbox' \subseteq Nat
      BY <2>10, <1>a, NothingIsReply DEF Receive, Return, Clear, Goto, Home
    <3>4. pc' \in [Threads -> Places] /\ after' \in [Threads -> Places]
      BY <2>10, <1>b DEF Receive, Return, Clear, Goto, Home, Places
    <3>5. /\ id' \in [Threads -> Nat] /\ mail' \in [Threads -> Replies]
          /\ tries' \in [Threads -> Nat]
      BY <2>10, <1>a, <1>c, NothingIsReply DEF Receive, Return, Clear, Goto, Home
    <3>6. \A n \in pending' : n # 0 /\ \E u \in Threads : id'[u] = n
      BY <2>10, <1>a, <1>c, <1>d, NothingIsReply DEF Receive, Return, Clear, Goto, Home,
         OneId, IdInUse, AnswerHasNoEntry
    <3> QED
      BY <3>1, <3>2, <3>3, <3>4, <3>5, <3>6 DEF TypeOK
  <2>11. CASE TimeOut(t)
    BY <2>11, <1>a, <1>b, <1>c, <1>d, NothingIsReply DEF TypeOK, Places, TimeOut, Goto
  <2>12. CASE Late(t)
    <3>1. /\ life' \in {"running", "shutdown", "dead"} /\ gate' \in BOOLEAN /\ nextId' \in Nat
          /\ writer' \in {"idle", "writing", "sweep", "gone"} /\ frame' \in Nat
      BY <2>12, <1>a DEF Late, Return, Clear, Goto, GotoVia, Home
    <3>2. queue' \in Seq(Nat)
      BY <2>12, <1>a DEF Late, Return, Clear, Goto, GotoVia, Home
    <3>3. /\ reader' \in {"idle", "sending", "sweep", "gone"}
          /\ hand' \in Replies /\ outbox' \subseteq Replies
          /\ server' \in {"up", "exited"} /\ heldOpen' \in BOOLEAN /\ inbox' \subseteq Nat
      BY <2>12, <1>a, NothingIsReply DEF Late, Return, Clear, Goto, GotoVia, Home
    <3>4. pc' \in [Threads -> Places] /\ after' \in [Threads -> Places]
      BY <2>12, <1>b DEF Late, Return, Clear, Goto, GotoVia, Home, Places
    <3>5. /\ id' \in [Threads -> Nat] /\ mail' \in [Threads -> Replies]
          /\ tries' \in [Threads -> Nat]
      BY <2>12, <1>a, <1>c, NothingIsReply DEF Late, Return, Clear, Goto, GotoVia, Home
    <3>6. \A n \in pending' : n # 0 /\ \E u \in Threads : id'[u] = n
      BY <2>12, <1>a, <1>c, <1>d, NothingIsReply DEF Late, Return, Clear, Goto, GotoVia,
         Home, OneId, IdInUse, AnswerHasNoEntry
    <3> QED
      BY <3>1, <3>2, <3>3, <3>4, <3>5, <3>6 DEF TypeOK
  <2>13. CASE Cancel(t)
    <3>1. /\ life' \in {"running", "shutdown", "dead"} /\ gate' \in BOOLEAN /\ nextId' \in Nat
          /\ writer' \in {"idle", "writing", "sweep", "gone"} /\ frame' \in Nat
      BY <2>13, <1>a DEF Cancel, Push, Goto, GotoVia, Home
    <3>2. queue' \in Seq(Nat)
      <4>1. queue' = queue \/ queue' = Append(queue, 0)
        BY <2>13 DEF Cancel, Push, Goto, GotoVia, Home
      <4>2. queue \in Seq(Nat) /\ 0 \in Nat
        BY <1>a, <1>c
      <4> QED
        BY <4>1, <4>2
    <3>3. /\ reader' \in {"idle", "sending", "sweep", "gone"}
          /\ hand' \in Replies /\ outbox' \subseteq Replies
          /\ server' \in {"up", "exited"} /\ heldOpen' \in BOOLEAN /\ inbox' \subseteq Nat
      BY <2>13, <1>a, NothingIsReply DEF Cancel, Push, Goto, GotoVia, Home
    <3>4. pc' \in [Threads -> Places] /\ after' \in [Threads -> Places]
      BY <2>13, <1>b DEF Cancel, Push, Goto, GotoVia, Home, Places
    <3>5. /\ id' \in [Threads -> Nat] /\ mail' \in [Threads -> Replies]
          /\ tries' \in [Threads -> Nat]
      BY <2>13, <1>a, <1>c, NothingIsReply DEF Cancel, Push, Goto, GotoVia, Home
    <3>6. \A n \in pending' : n # 0 /\ \E u \in Threads : id'[u] = n
      BY <2>13, <1>a, <1>c, <1>d, NothingIsReply DEF Cancel, Push, Goto, GotoVia, Home,
         OneId, IdInUse, AnswerHasNoEntry
    <3> QED
      BY <3>1, <3>2, <3>3, <3>4, <3>5, <3>6 DEF TypeOK
  <2> QED
    BY <1>2, <2>1, <2>2, <2>3, <2>4, <2>5, <2>6, <2>7, <2>8, <2>9, <2>10, <2>11, <2>12, <2>13
       DEF Request
<1>3. CASE Close \/ Shutdown
  <2>1. CASE Close
    BY <2>1, <1>a, <1>b, <1>c, <1>d, NothingIsReply DEF TypeOK, Places, Close, Goto
  <2>2. CASE MarkShutdown
    BY <2>2, <1>a, <1>b, <1>c, <1>d, NothingIsReply DEF TypeOK, Places, MarkShutdown, Goto
  <2>3. CASE SendExit
    <3>1. /\ life' \in {"running", "shutdown", "dead"} /\ gate' \in BOOLEAN /\ nextId' \in Nat
          /\ writer' \in {"idle", "writing", "sweep", "gone"} /\ frame' \in Nat
      BY <2>3, <1>a DEF SendExit, Push, Goto, GotoVia
    <3>2. queue' \in Seq(Nat)
      <4>1. queue' = queue \/ queue' = Append(queue, 0)
        BY <2>3 DEF SendExit, Push, Goto, GotoVia
      <4>2. queue \in Seq(Nat) /\ 0 \in Nat
        BY <1>a, <1>c
      <4> QED
        BY <4>1, <4>2
    <3>3. /\ reader' \in {"idle", "sending", "sweep", "gone"}
          /\ hand' \in Replies /\ outbox' \subseteq Replies
          /\ server' \in {"up", "exited"} /\ heldOpen' \in BOOLEAN /\ inbox' \subseteq Nat
      BY <2>3, <1>a, NothingIsReply DEF SendExit, Push, Goto, GotoVia
    <3>4. pc' \in [Threads -> Places] /\ after' \in [Threads -> Places]
      BY <2>3, <1>b DEF SendExit, Push, Goto, GotoVia, Places
    <3>5. /\ id' \in [Threads -> Nat] /\ mail' \in [Threads -> Replies]
          /\ tries' \in [Threads -> Nat]
      BY <2>3, <1>a, <1>c, NothingIsReply DEF SendExit, Push, Goto, GotoVia
    <3>6. \A n \in pending' : n # 0 /\ \E u \in Threads : id'[u] = n
      BY <2>3, <1>a, <1>c, <1>d, NothingIsReply DEF SendExit, Push, Goto, GotoVia, OneId,
         IdInUse, AnswerHasNoEntry
    <3> QED
      BY <3>1, <3>2, <3>3, <3>4, <3>5, <3>6 DEF TypeOK
  <2>4. CASE Stop
    BY <2>4, <1>a, <1>b, <1>c, <1>d, NothingIsReply DEF TypeOK, Places, Stop, Goto
  <2>5. CASE Restore
    BY <2>5, <1>a, <1>b, <1>c, <1>d, NothingIsReply DEF TypeOK, Places, Restore, Goto
  <2>6. CASE CloseGate
    BY <2>6, <1>a, <1>b, <1>c, <1>d, NothingIsReply DEF TypeOK, Places, CloseGate, Goto
  <2>7. CASE Reap
    BY <2>7, <1>a, <1>b, <1>c, <1>d, NothingIsReply DEF TypeOK, Places, Reap, Goto
  <2>8. CASE MarkDead
    BY <2>8, <1>a, <1>b, <1>c, <1>d, NothingIsReply DEF TypeOK, Places, MarkDead, GotoVia
  <2> QED
    BY <1>3, <2>1, <2>2, <2>3, <2>4, <2>5, <2>6, <2>7, <2>8 DEF Shutdown
<1>4. CASE Writer
  <2>1. CASE WriterTakes
    BY <2>1, <1>a, <1>b, <1>c, <1>d, NothingIsReply DEF TypeOK, Places, WriterTakes
  <2>2. CASE WriterWrites
    BY <2>2, <1>a, <1>b, <1>c, <1>d, NothingIsReply DEF TypeOK, Places, WriterWrites
  <2>3. CASE WriterSweeps
    BY <2>3, <1>a, <1>b, <1>c, <1>d, NothingIsReply DEF TypeOK, Places, WriterSweeps, FailPending
  <2>4. CASE WriterEnds
    BY <2>4, <1>a, <1>b, <1>c, <1>d, NothingIsReply DEF TypeOK, Places, WriterEnds
  <2> QED
    BY <1>4, <2>1, <2>2, <2>3, <2>4 DEF Writer
<1>5. CASE Reader
  <2>1. CASE ReaderTakes
    BY <2>1, <1>a, <1>b, <1>c, <1>d, NothingIsReply DEF TypeOK, Places, ReaderTakes
  <2>2. CASE ReaderSends
    BY <2>2, <1>a, <1>b, <1>c, <1>d, NothingIsReply DEF TypeOK, Places, ReaderSends
  <2>3. CASE ReaderEnds
    BY <2>3, <1>a, <1>b, <1>c, <1>d, NothingIsReply DEF TypeOK, Places, ReaderEnds
  <2>4. CASE ReaderSweeps
    BY <2>4, <1>a, <1>b, <1>c, <1>d, NothingIsReply DEF TypeOK, Places, ReaderSweeps, FailPending
  <2> QED
    BY <1>5, <2>1, <2>2, <2>3, <2>4 DEF Reader
<1>6. CASE ServerReplies
  BY <1>6, <1>a, <1>b, <1>c, <1>d, NothingIsReply DEF TypeOK, Places, ServerReplies
<1>7. CASE \E held \in BOOLEAN : ServerExits(held)
  BY <1>7, <1>a, <1>b, <1>c, <1>d, NothingIsReply DEF TypeOK, Places, ServerExits
<1> QED
  BY <1>1, <1>2, <1>3, <1>4, <1>5, <1>6, <1>7 DEF Next

\* An id is new when it is given.
LEMMA OneIdStep ==
  ASSUME TypeOK, OneId, [Next]_vars
  PROVE  OneId'
<1> USE ClosesThread, BoundsAssumption DEF OneId, tableVars, writeVars, readVars, serverVars,
       placeVars, callVars
<1>0. /\ pc \in [Threads -> Places] /\ after \in [Threads -> Places]
      /\ id \in [Threads -> Nat] /\ mail \in [Threads -> Replies] /\ tries \in [Threads -> Nat]
      /\ nextId \in Nat /\ hand \in Replies /\ outbox \subseteq Replies /\ 0 \notin pending
  BY DEF TypeOK
<1> USE <1>0, NothingIsReply
<1>1. CASE UNCHANGED vars
  BY <1>1 DEF vars
<1>2. ASSUME NEW t \in Threads, Call(t) \/ Request(t)
      PROVE  OneId'
  <2>1. CASE Call(t)
    BY <2>1 DEF Call, Goto
  <2>2. CASE Look(t)
    <3>1. nextId' = nextId /\ hand' = hand
      BY <2>2 DEF Look
    <3>2. id' = id \/ id' = [id EXCEPT ![t] = 0]
      BY <2>2 DEF Look, Return, Clear
    <3> QED
      BY <3>1, <3>2
  <2>3. CASE LookExited(t)
    BY <2>3 DEF LookExited, Goto, GotoVia
  <2>4. CASE Enter(t)
    BY <2>4 DEF Enter, Goto
  <2>5. CASE Write(t)
    BY <2>5 DEF Write, Goto
  <2>6. CASE PushRequest(t)
    BY <2>6 DEF PushRequest, Push, Goto, GotoVia
  <2>7. CASE Kill(t)
    BY <2>7 DEF Kill
  <2>8. CASE Sweep(t)
    BY <2>8 DEF Sweep, FailPending
  <2>9. CASE Drop(t)
    BY <2>9 DEF Drop, Return, Clear, Goto, Home
  <2>10. CASE Receive(t)
    BY SMTT(60), <2>10 DEF Receive, Return, Clear, Goto, Home
  <2>11. CASE TimeOut(t)
    BY <2>11 DEF TimeOut, Goto
  <2>12. CASE Late(t)
    <3>1. nextId' = nextId /\ hand' = hand
      BY <2>12 DEF Late
    <3>2. id' = [id EXCEPT ![t] = 0]
      BY <2>12 DEF Late, Return, Clear
    <3> QED
      BY <3>1, <3>2
  <2>13. CASE Cancel(t)
    BY <2>13 DEF Cancel, Push, Goto, GotoVia, Home
  <2> QED
    BY <1>2, <2>1, <2>2, <2>3, <2>4, <2>5, <2>6, <2>7, <2>8, <2>9, <2>10, <2>11, <2>12, <2>13
       DEF Request
<1>3. CASE Close \/ Shutdown
  <2>1. CASE Close
    BY <2>1 DEF Close, Goto
  <2>2. CASE MarkShutdown
    BY <2>2 DEF MarkShutdown, Goto
  <2>3. CASE SendExit
    BY <2>3 DEF SendExit, Push, Goto, GotoVia
  <2>4. CASE Stop
    BY <2>4 DEF Stop, Goto
  <2>5. CASE Restore
    BY <2>5 DEF Restore, Goto
  <2>6. CASE CloseGate
    BY <2>6 DEF CloseGate, Goto
  <2>7. CASE Reap
    BY <2>7 DEF Reap, Goto
  <2>8. CASE MarkDead
    BY <2>8 DEF MarkDead, GotoVia
  <2> QED
    BY <1>3, <2>1, <2>2, <2>3, <2>4, <2>5, <2>6, <2>7, <2>8 DEF Shutdown
<1>4. CASE Writer
  <2>1. CASE WriterTakes
    BY <2>1 DEF WriterTakes
  <2>2. CASE WriterWrites
    BY <2>2 DEF WriterWrites
  <2>3. CASE WriterSweeps
    BY <2>3 DEF WriterSweeps, FailPending
  <2>4. CASE WriterEnds
    BY <2>4 DEF WriterEnds
  <2> QED
    BY <1>4, <2>1, <2>2, <2>3, <2>4 DEF Writer
<1>5. CASE Reader
  <2>1. CASE ReaderTakes
    <3>1. nextId' = nextId /\ id' = id
      BY <2>1 DEF ReaderTakes
    <3>2. hand' = hand \/ hand'.id \in pending
      BY <2>1 DEF ReaderTakes
    <3>3. \A n \in pending : \E u \in Threads : id[u] = n
      BY DEF TypeOK
    <3> QED
      BY <3>1, <3>2, <3>3
  <2>2. CASE ReaderSends
    BY <2>2 DEF ReaderSends
  <2>3. CASE ReaderEnds
    BY <2>3 DEF ReaderEnds
  <2>4. CASE ReaderSweeps
    BY <2>4 DEF ReaderSweeps, FailPending
  <2> QED
    BY <1>5, <2>1, <2>2, <2>3, <2>4 DEF Reader
<1>6. CASE ServerReplies
  BY <1>6 DEF ServerReplies
<1>7. CASE \E held \in BOOLEAN : ServerExits(held)
  BY <1>7 DEF ServerExits
<1> QED
  BY <1>1, <1>2, <1>3, <1>4, <1>5, <1>6, <1>7 DEF Next

\* A request gives its id up when it returns.
LEMMA IdInUseStep ==
  ASSUME TypeOK, IdInUse, [Next]_vars
  PROVE  IdInUse'
<1> USE ClosesThread, BoundsAssumption DEF IdInUse, tableVars, writeVars, readVars, serverVars,
       placeVars, callVars
<1>0. /\ pc \in [Threads -> Places] /\ after \in [Threads -> Places]
      /\ id \in [Threads -> Nat] /\ mail \in [Threads -> Replies] /\ tries \in [Threads -> Nat]
      /\ nextId \in Nat /\ hand \in Replies /\ outbox \subseteq Replies /\ 0 \notin pending
  BY DEF TypeOK
<1> USE <1>0, NothingIsReply
<1>1. CASE UNCHANGED vars
  BY <1>1 DEF vars
<1>2. ASSUME NEW t \in Threads, Call(t) \/ Request(t)
      PROVE  IdInUse'
  <2>1. CASE Call(t)
    BY <2>1 DEF Call, Goto
  <2>2. CASE Look(t)
    BY <2>2 DEF Look, Goto, Return, Clear, Home
  <2>3. CASE LookExited(t)
    BY <2>3 DEF LookExited, Goto, GotoVia
  <2>4. CASE Enter(t)
    BY <2>4 DEF Enter, Goto
  <2>5. CASE Write(t)
    BY <2>5 DEF Write, Goto
  <2>6. CASE PushRequest(t)
    BY ZenonT(60), <2>6 DEF PushRequest, Push, Goto, GotoVia
  <2>7. CASE Kill(t)
    BY <2>7 DEF Kill
  <2>8. CASE Sweep(t)
    BY <2>8 DEF Sweep, FailPending
  <2>9. CASE Drop(t)
    BY <2>9 DEF Drop, Return, Clear, Goto, Home
  <2>10. CASE Receive(t)
    BY SMTT(60), <2>10 DEF Receive, Return, Clear, Goto, Home
  <2>11. CASE TimeOut(t)
    BY <2>11 DEF TimeOut, Goto
  <2>12. CASE Late(t)
    BY SMTT(60), <2>12 DEF Late, Return, Clear, Goto, GotoVia, Home
  <2>13. CASE Cancel(t)
    BY ZenonT(60), <2>13 DEF Cancel, Push, Goto, GotoVia, Home
  <2> QED
    BY <1>2, <2>1, <2>2, <2>3, <2>4, <2>5, <2>6, <2>7, <2>8, <2>9, <2>10, <2>11, <2>12, <2>13
       DEF Request
<1>3. CASE Close \/ Shutdown
  <2>1. CASE Close
    BY <2>1 DEF Close, Goto
  <2>2. CASE MarkShutdown
    BY <2>2 DEF MarkShutdown, Goto
  <2>3. CASE SendExit
    BY ZenonT(60), <2>3 DEF SendExit, Push, Goto, GotoVia
  <2>4. CASE Stop
    BY <2>4 DEF Stop, Goto
  <2>5. CASE Restore
    BY <2>5 DEF Restore, Goto
  <2>6. CASE CloseGate
    BY <2>6 DEF CloseGate, Goto
  <2>7. CASE Reap
    BY <2>7 DEF Reap, Goto
  <2>8. CASE MarkDead
    BY <2>8 DEF MarkDead, GotoVia
  <2> QED
    BY <1>3, <2>1, <2>2, <2>3, <2>4, <2>5, <2>6, <2>7, <2>8 DEF Shutdown
<1>4. CASE Writer
  <2>1. CASE WriterTakes
    BY <2>1 DEF WriterTakes
  <2>2. CASE WriterWrites
    BY <2>2 DEF WriterWrites
  <2>3. CASE WriterSweeps
    BY <2>3 DEF WriterSweeps, FailPending
  <2>4. CASE WriterEnds
    BY <2>4 DEF WriterEnds
  <2> QED
    BY <1>4, <2>1, <2>2, <2>3, <2>4 DEF Writer
<1>5. CASE Reader
  <2>1. CASE ReaderTakes
    BY <2>1 DEF ReaderTakes
  <2>2. CASE ReaderSends
    BY <2>2 DEF ReaderSends
  <2>3. CASE ReaderEnds
    BY <2>3 DEF ReaderEnds
  <2>4. CASE ReaderSweeps
    BY <2>4 DEF ReaderSweeps, FailPending
  <2> QED
    BY <1>5, <2>1, <2>2, <2>3, <2>4 DEF Reader
<1>6. CASE ServerReplies
  BY <1>6 DEF ServerReplies
<1>7. CASE \E held \in BOOLEAN : ServerExits(held)
  BY <1>7 DEF ServerExits
<1> QED
  BY <1>1, <1>2, <1>3, <1>4, <1>5, <1>6, <1>7 DEF Next

\* A channel is new with its id.
LEMMA OwnStep ==
  ASSUME TypeOK, OneId, IdInUse, AnswerHasNoEntry, OwnReply, [Next]_vars
  PROVE  OwnReply'
<1> USE ClosesThread, BoundsAssumption DEF OneId, IdInUse, AnswerHasNoEntry, OwnReply,
       tableVars, writeVars, readVars, serverVars, placeVars, callVars
<1>0. /\ pc \in [Threads -> Places] /\ after \in [Threads -> Places]
      /\ id \in [Threads -> Nat] /\ mail \in [Threads -> Replies] /\ tries \in [Threads -> Nat]
      /\ nextId \in Nat /\ hand \in Replies /\ outbox \subseteq Replies /\ 0 \notin pending
  BY DEF TypeOK
<1> USE <1>0, NothingIsReply
<1>1. CASE UNCHANGED vars
  BY <1>1 DEF vars
<1>2. ASSUME NEW t \in Threads, Call(t) \/ Request(t)
      PROVE  OwnReply'
  <2>1. CASE Call(t)
    BY <2>1 DEF Call, Goto
  <2>2. CASE Look(t)
    BY <2>2 DEF Look, Goto, Return, Clear, Home
  <2>3. CASE LookExited(t)
    BY <2>3 DEF LookExited, Goto, GotoVia
  <2>4. CASE Enter(t)
    BY <2>4 DEF Enter, Goto
  <2>5. CASE Write(t)
    BY <2>5 DEF Write, Goto
  <2>6. CASE PushRequest(t)
    BY <2>6 DEF PushRequest, Push, Goto, GotoVia
  <2>7. CASE Kill(t)
    BY <2>7 DEF Kill
  <2>8. CASE Sweep(t)
    BY <2>8 DEF Sweep, FailPending
  <2>9. CASE Drop(t)
    BY <2>9 DEF Drop, Return, Clear, Goto, Home
  <2>10. CASE Receive(t)
    BY <2>10 DEF Receive, Return, Clear, Goto, Home
  <2>11. CASE TimeOut(t)
    BY <2>11 DEF TimeOut, Goto
  <2>12. CASE Late(t)
    BY <2>12 DEF Late, Return, Clear, Goto, GotoVia, Home
  <2>13. CASE Cancel(t)
    BY <2>13 DEF Cancel, Push, Goto, GotoVia, Home
  <2> QED
    BY <1>2, <2>1, <2>2, <2>3, <2>4, <2>5, <2>6, <2>7, <2>8, <2>9, <2>10, <2>11, <2>12, <2>13
       DEF Request
<1>3. CASE Close \/ Shutdown
  <2>1. CASE Close
    BY <2>1 DEF Close, Goto
  <2>2. CASE MarkShutdown
    BY <2>2 DEF MarkShutdown, Goto
  <2>3. CASE SendExit
    BY <2>3 DEF SendExit, Push, Goto, GotoVia
  <2>4. CASE Stop
    BY <2>4 DEF Stop, Goto
  <2>5. CASE Restore
    BY <2>5 DEF Restore, Goto
  <2>6. CASE CloseGate
    BY <2>6 DEF CloseGate, Goto
  <2>7. CASE Reap
    BY <2>7 DEF Reap, Goto
  <2>8. CASE MarkDead
    BY <2>8 DEF MarkDead, GotoVia
  <2> QED
    BY <1>3, <2>1, <2>2, <2>3, <2>4, <2>5, <2>6, <2>7, <2>8 DEF Shutdown
<1>4. CASE Writer
  <2>1. CASE WriterTakes
    BY <2>1 DEF WriterTakes
  <2>2. CASE WriterWrites
    BY <2>2 DEF WriterWrites
  <2>3. CASE WriterSweeps
    BY <2>3 DEF WriterSweeps, FailPending
  <2>4. CASE WriterEnds
    BY <2>4 DEF WriterEnds
  <2> QED
    BY <1>4, <2>1, <2>2, <2>3, <2>4 DEF Writer
<1>5. CASE Reader
  <2>1. CASE ReaderTakes
    BY <2>1 DEF ReaderTakes
  <2>2. CASE ReaderSends
    BY <2>2 DEF ReaderSends
  <2>3. CASE ReaderEnds
    BY <2>3 DEF ReaderEnds
  <2>4. CASE ReaderSweeps
    BY <2>4 DEF ReaderSweeps, FailPending
  <2> QED
    BY <1>5, <2>1, <2>2, <2>3, <2>4 DEF Reader
<1>6. CASE ServerReplies
  BY <1>6 DEF ServerReplies
<1>7. CASE \E held \in BOOLEAN : ServerExits(held)
  BY <1>7 DEF ServerExits
<1> QED
  BY <1>1, <1>2, <1>3, <1>4, <1>5, <1>6, <1>7 DEF Next

\* Whoever answers or gives up takes the entry out first.
LEMMA AnswerStep ==
  ASSUME TypeOK, OneId, IdInUse, OwnReply, AnswerHasNoEntry, [Next]_vars
  PROVE  AnswerHasNoEntry'
<1> USE ClosesThread, BoundsAssumption DEF OneId, IdInUse, OwnReply, AnswerHasNoEntry,
       tableVars, writeVars, readVars, serverVars, placeVars, callVars
<1>0. /\ pc \in [Threads -> Places] /\ after \in [Threads -> Places]
      /\ id \in [Threads -> Nat] /\ mail \in [Threads -> Replies] /\ tries \in [Threads -> Nat]
      /\ nextId \in Nat /\ hand \in Replies /\ outbox \subseteq Replies /\ 0 \notin pending
  BY DEF TypeOK
<1> USE <1>0, NothingIsReply
<1>1. CASE UNCHANGED vars
  BY <1>1 DEF vars
<1>2. ASSUME NEW t \in Threads, Call(t) \/ Request(t)
      PROVE  AnswerHasNoEntry'
  <2>1. CASE Call(t)
    BY <2>1 DEF Call, Goto
  <2>2. CASE Look(t)
    BY <2>2 DEF Look, Goto, Return, Clear, Home
  <2>3. CASE LookExited(t)
    BY <2>3 DEF LookExited, Goto, GotoVia
  <2>4. CASE Enter(t)
    <3>1. id[t] = 0 /\ mail[t] = Nothing
      BY <2>4 DEF Enter
    <3>2. /\ pending' = pending \cup {nextId} /\ id' = [id EXCEPT ![t] = nextId]
          /\ pc' = [pc EXCEPT ![t] = "write"]
          /\ UNCHANGED <<reader, hand, mail>>
      BY <2>4 DEF Enter, Goto
    <3>3. reader' = "sending" => hand'.id # 0 /\ hand'.id \notin pending'
      BY <3>2
    <3>4. ASSUME NEW u \in Threads, mail'[u] # Nothing \/ pc'[u] = "late"
          PROVE  id'[u] \notin pending'
      <4>1. u # t
        BY <3>1, <3>2, <3>4
      <4> QED
        BY <3>2, <3>4, <4>1
    <3> QED
      BY <3>3, <3>4
  <2>5. CASE Write(t)
    BY <2>5 DEF Write, Goto
  <2>6. CASE PushRequest(t)
    BY <2>6 DEF PushRequest, Push, Goto, GotoVia
  <2>7. CASE Kill(t)
    BY <2>7 DEF Kill
  <2>8. CASE Sweep(t)
    BY <2>8 DEF Sweep, FailPending
  <2>9. CASE Drop(t)
    BY <2>9 DEF Drop, Return, Clear, Goto, Home
  <2>10. CASE Receive(t)
    BY <2>10 DEF Receive, Return, Clear, Goto, Home
  <2>11. CASE TimeOut(t)
    BY <2>11 DEF TimeOut, Goto
  <2>12. CASE Late(t)
    BY <2>12 DEF Late, Return, Clear, Goto, GotoVia, Home
  <2>13. CASE Cancel(t)
    BY <2>13 DEF Cancel, Push, Goto, GotoVia, Home
  <2> QED
    BY <1>2, <2>1, <2>2, <2>3, <2>4, <2>5, <2>6, <2>7, <2>8, <2>9, <2>10, <2>11, <2>12, <2>13
       DEF Request
<1>3. CASE Close \/ Shutdown
  <2>1. CASE Close
    BY <2>1 DEF Close, Goto
  <2>2. CASE MarkShutdown
    BY <2>2 DEF MarkShutdown, Goto
  <2>3. CASE SendExit
    BY <2>3 DEF SendExit, Push, Goto, GotoVia
  <2>4. CASE Stop
    BY <2>4 DEF Stop, Goto
  <2>5. CASE Restore
    BY <2>5 DEF Restore, Goto
  <2>6. CASE CloseGate
    BY <2>6 DEF CloseGate, Goto
  <2>7. CASE Reap
    BY <2>7 DEF Reap, Goto
  <2>8. CASE MarkDead
    BY <2>8 DEF MarkDead, GotoVia
  <2> QED
    BY <1>3, <2>1, <2>2, <2>3, <2>4, <2>5, <2>6, <2>7, <2>8 DEF Shutdown
<1>4. CASE Writer
  <2>1. CASE WriterTakes
    BY <2>1 DEF WriterTakes
  <2>2. CASE WriterWrites
    BY <2>2 DEF WriterWrites
  <2>3. CASE WriterSweeps
    BY <2>3 DEF WriterSweeps, FailPending
  <2>4. CASE WriterEnds
    BY <2>4 DEF WriterEnds
  <2> QED
    BY <1>4, <2>1, <2>2, <2>3, <2>4 DEF Writer
<1>5. CASE Reader
  <2>1. CASE ReaderTakes
    BY <2>1 DEF ReaderTakes
  <2>2. CASE ReaderSends
    BY <2>2 DEF ReaderSends
  <2>3. CASE ReaderEnds
    BY <2>3 DEF ReaderEnds
  <2>4. CASE ReaderSweeps
    BY <2>4 DEF ReaderSweeps, FailPending
  <2> QED
    BY <1>5, <2>1, <2>2, <2>3, <2>4 DEF Reader
<1>6. CASE ServerReplies
  BY <1>6 DEF ServerReplies
<1>7. CASE \E held \in BOOLEAN : ServerExits(held)
  BY <1>7 DEF ServerExits
<1> QED
  BY <1>1, <1>2, <1>3, <1>4, <1>5, <1>6, <1>7 DEF Next

\* Whoever takes an entry out has its answer in hand.
LEMMA EntryStep ==
  ASSUME TypeOK, OneId, IdInUse, AnswerHasNoEntry, EntryOrAnswer, [Next]_vars
  PROVE  EntryOrAnswer'
<1> USE ClosesThread, BoundsAssumption DEF OneId, IdInUse, AnswerHasNoEntry, EntryOrAnswer,
       Answered, tableVars, writeVars, readVars, serverVars, placeVars, callVars
<1>0. /\ pc \in [Threads -> Places] /\ after \in [Threads -> Places]
      /\ id \in [Threads -> Nat] /\ mail \in [Threads -> Replies] /\ tries \in [Threads -> Nat]
      /\ nextId \in Nat /\ hand \in Replies /\ outbox \subseteq Replies /\ 0 \notin pending
  BY DEF TypeOK
<1> USE <1>0, NothingIsReply
<1>1. CASE UNCHANGED vars
  BY <1>1 DEF vars
<1>2. ASSUME NEW t \in Threads, Call(t) \/ Request(t)
      PROVE  EntryOrAnswer'
  <2>1. CASE Call(t)
    BY <2>1 DEF Call, Goto
  <2>2. CASE Look(t)
    BY <2>2 DEF Look, Goto, Return, Clear, Home
  <2>3. CASE LookExited(t)
    BY <2>3 DEF LookExited, Goto, GotoVia
  <2>4. CASE Enter(t)
    BY <2>4 DEF Enter, Goto
  <2>5. CASE Write(t)
    BY <2>5 DEF Write, Goto
  <2>6. CASE PushRequest(t)
    BY <2>6 DEF PushRequest, Push, Goto, GotoVia
  <2>7. CASE Kill(t)
    BY <2>7 DEF Kill
  <2>8. CASE Sweep(t)
    BY <2>8 DEF Sweep, FailPending
  <2>9. CASE Drop(t)
    BY <2>9 DEF Drop, Return, Clear, Goto, Home
  <2>10. CASE Receive(t)
    BY <2>10 DEF Receive, Return, Clear, Goto, Home
  <2>11. CASE TimeOut(t)
    BY <2>11 DEF TimeOut, Goto
  <2>12. CASE Late(t)
    BY <2>12 DEF Late, Return, Clear, Goto, GotoVia, Home
  <2>13. CASE Cancel(t)
    BY <2>13 DEF Cancel, Push, Goto, GotoVia, Home
  <2> QED
    BY <1>2, <2>1, <2>2, <2>3, <2>4, <2>5, <2>6, <2>7, <2>8, <2>9, <2>10, <2>11, <2>12, <2>13
       DEF Request
<1>3. CASE Close \/ Shutdown
  <2>1. CASE Close
    BY <2>1 DEF Close, Goto
  <2>2. CASE MarkShutdown
    BY <2>2 DEF MarkShutdown, Goto
  <2>3. CASE SendExit
    BY <2>3 DEF SendExit, Push, Goto, GotoVia
  <2>4. CASE Stop
    BY <2>4 DEF Stop, Goto
  <2>5. CASE Restore
    BY <2>5 DEF Restore, Goto
  <2>6. CASE CloseGate
    BY <2>6 DEF CloseGate, Goto
  <2>7. CASE Reap
    BY <2>7 DEF Reap, Goto
  <2>8. CASE MarkDead
    BY <2>8 DEF MarkDead, GotoVia
  <2> QED
    BY <1>3, <2>1, <2>2, <2>3, <2>4, <2>5, <2>6, <2>7, <2>8 DEF Shutdown
<1>4. CASE Writer
  <2>1. CASE WriterTakes
    BY <2>1 DEF WriterTakes
  <2>2. CASE WriterWrites
    BY <2>2 DEF WriterWrites
  <2>3. CASE WriterSweeps
    BY <2>3 DEF WriterSweeps, FailPending
  <2>4. CASE WriterEnds
    BY <2>4 DEF WriterEnds
  <2> QED
    BY <1>4, <2>1, <2>2, <2>3, <2>4 DEF Writer
<1>5. CASE Reader
  <2>1. CASE ReaderTakes
    BY <2>1 DEF ReaderTakes
  <2>2. CASE ReaderSends
    BY <2>2 DEF ReaderSends
  <2>3. CASE ReaderEnds
    BY <2>3 DEF ReaderEnds
  <2>4. CASE ReaderSweeps
    BY <2>4 DEF ReaderSweeps, FailPending
  <2> QED
    BY <1>5, <2>1, <2>2, <2>3, <2>4 DEF Reader
<1>6. CASE ServerReplies
  BY <1>6 DEF ServerReplies
<1>7. CASE \E held \in BOOLEAN : ServerExits(held)
  BY <1>7 DEF ServerExits
<1> QED
  BY <1>1, <1>2, <1>3, <1>4, <1>5, <1>6, <1>7 DEF Next

\* Whoever stores LIFE_DEAD sweeps next, and a sweep empties the table.
LEMMA SweptStep ==
  ASSUME TypeOK, OneId, SweptTable, [Next]_vars
  PROVE  SweptTable'
<1> USE ClosesThread, BoundsAssumption DEF OneId, SweptTable, SweepDue, tableVars, writeVars,
       readVars, serverVars, placeVars, callVars
<1>0. /\ pc \in [Threads -> Places] /\ after \in [Threads -> Places]
      /\ id \in [Threads -> Nat] /\ mail \in [Threads -> Replies] /\ tries \in [Threads -> Nat]
      /\ nextId \in Nat /\ hand \in Replies /\ outbox \subseteq Replies /\ 0 \notin pending
  BY DEF TypeOK
<1> USE <1>0, NothingIsReply
<1>1. CASE UNCHANGED vars
  BY <1>1 DEF vars
<1>2. ASSUME NEW t \in Threads, Call(t) \/ Request(t)
      PROVE  SweptTable'
  <2>1. CASE Call(t)
    BY <2>1 DEF Call, Goto
  <2>2. CASE Look(t)
    BY <2>2 DEF Look, Goto, Return, Clear, Home
  <2>3. CASE LookExited(t)
    BY <2>3 DEF LookExited, Goto, GotoVia
  <2>4. CASE Enter(t)
    BY <2>4 DEF Enter, Goto
  <2>5. CASE Write(t)
    BY <2>5 DEF Write, Goto
  <2>6. CASE PushRequest(t)
    BY <2>6 DEF PushRequest, Push, Goto, GotoVia
  <2>7. CASE Kill(t)
    BY <2>7 DEF Kill
  <2>8. CASE Sweep(t)
    BY <2>8 DEF Sweep, FailPending
  <2>9. CASE Drop(t)
    BY <2>9 DEF Drop, Return, Clear, Goto, Home
  <2>10. CASE Receive(t)
    BY <2>10 DEF Receive, Return, Clear, Goto, Home
  <2>11. CASE TimeOut(t)
    BY <2>11 DEF TimeOut, Goto
  <2>12. CASE Late(t)
    BY <2>12 DEF Late, Return, Clear, Goto, GotoVia, Home
  <2>13. CASE Cancel(t)
    BY <2>13 DEF Cancel, Push, Goto, GotoVia, Home
  <2> QED
    BY <1>2, <2>1, <2>2, <2>3, <2>4, <2>5, <2>6, <2>7, <2>8, <2>9, <2>10, <2>11, <2>12, <2>13
       DEF Request
<1>3. CASE Close \/ Shutdown
  <2>1. CASE Close
    BY <2>1 DEF Close, Goto
  <2>2. CASE MarkShutdown
    BY <2>2 DEF MarkShutdown, Goto
  <2>3. CASE SendExit
    BY <2>3 DEF SendExit, Push, Goto, GotoVia
  <2>4. CASE Stop
    BY <2>4 DEF Stop, Goto
  <2>5. CASE Restore
    BY <2>5 DEF Restore, Goto
  <2>6. CASE CloseGate
    BY <2>6 DEF CloseGate, Goto
  <2>7. CASE Reap
    BY <2>7 DEF Reap, Goto
  <2>8. CASE MarkDead
    BY <2>8 DEF MarkDead, GotoVia
  <2> QED
    BY <1>3, <2>1, <2>2, <2>3, <2>4, <2>5, <2>6, <2>7, <2>8 DEF Shutdown
<1>4. CASE Writer
  <2>1. CASE WriterTakes
    BY <2>1 DEF WriterTakes
  <2>2. CASE WriterWrites
    BY <2>2 DEF WriterWrites
  <2>3. CASE WriterSweeps
    BY <2>3 DEF WriterSweeps, FailPending
  <2>4. CASE WriterEnds
    BY <2>4 DEF WriterEnds
  <2> QED
    BY <1>4, <2>1, <2>2, <2>3, <2>4 DEF Writer
<1>5. CASE Reader
  <2>1. CASE ReaderTakes
    BY <2>1 DEF ReaderTakes
  <2>2. CASE ReaderSends
    BY <2>2 DEF ReaderSends
  <2>3. CASE ReaderEnds
    BY <2>3 DEF ReaderEnds
  <2>4. CASE ReaderSweeps
    BY <2>4 DEF ReaderSweeps, FailPending
  <2> QED
    BY <1>5, <2>1, <2>2, <2>3, <2>4 DEF Reader
<1>6. CASE ServerReplies
  BY <1>6 DEF ServerReplies
<1>7. CASE \E held \in BOOLEAN : ServerExits(held)
  BY <1>7 DEF ServerExits
<1> QED
  BY <1>1, <1>2, <1>3, <1>4, <1>5, <1>6, <1>7 DEF Next


\* The whole invariant.
LEMMA KeptAlways == Spec => []Kept
<1>1. Kept /\ [Next]_vars => Kept'
  BY TypeStep, OneIdStep, IdInUseStep, OwnStep, AnswerStep, EntryStep, SweptStep DEF Kept
<1> QED
  BY KeptInit, <1>1, PTL DEF Spec

-----------------------------------------------------------------------------

(* Type correctness, and no entry of the pending table outlives its request,
   whichever way it ends (transport.rs:675-693). *)
THEOREM TypeCorrect == Spec => []TypeOK
<1>1. Kept => TypeOK
  BY DEF Kept
<1> QED
  BY KeptAlways, <1>1, PTL

(* However the death of the server falls between the looks at life, the entry
   and the frame of any number of requests, none of them is left waiting once
   the threads that noticed have swept the table (transport.rs:653-680, 1816). *)
THEOREM DeathAnswersAll == Spec => []NoVainWait
<1>1. Kept => NoVainWait
  BY DEF Kept, EntryOrAnswer, SweptTable, Answered, NoVainWait
<1> QED
  BY KeptAlways, <1>1, PTL

(* What a request finds in its channel carries its own id, however many
   requests time out, are repeated or cross (transport.rs:682-686, 2129). *)
THEOREM RepliesAreOwn == Spec => []OwnReply
<1>1. Kept => OwnReply
  BY DEF Kept
<1> QED
  BY KeptAlways, <1>1, PTL

(* No two requests under way have the same id, so the one that finds a reply is
   the one that it answers (transport.rs:671). *)
THEOREM IdsAreGivenOnce ==
  Spec => [](\A t, u \in Threads : id[t] # 0 /\ id[t] = id[u] => t = u)
<1>1. Kept => \A t, u \in Threads : id[t] # 0 /\ id[t] = id[u] => t = u
  BY DEF Kept, OneId
<1> QED
  BY KeptAlways, <1>1, PTL

-----------------------------------------------------------------------------
(* OpenDocs. *)


\* A copy, or the disk in the place of one, is not older than this text.
NotOlder(copy, text) == copy = Closed \/ copy.text >= text

\* Every frame of w fits the copy that it will meet.
InStep(w) == \A j \in DOMAIN w : Fits(w[j], CopyAt(w, buffers, w[j].file, j))

\* A query on its way is that of a thread which waits for it, and the only one.
AsksOnce(w) ==
    \A j \in DOMAIN w : \A t \in w[j].who :
      /\ w[j].op = "ask" /\ stage[t] = "wait" /\ file[t] = w[j].file
      /\ \A k \in DOMAIN w : t \in w[k].who => k = j

\* Between a document's removal and its didClose the server's copy is a ghost.
Session ==
    \A f \in Files :
      IF step = "close" /\ change.file = f
      THEN opened[f] = Closed /\ LastCopy(f) # Closed
      ELSE LastCopy(f) = opened[f]

\* Texts are not from the future, and a file only gets newer than a query on it.
TextsInOrder ==
    /\ \A f \in Files : disk[f] <= clock
    /\ \A t \in Queries :
         /\ since[t] <= clock
         /\ stage[t] \in {"sync", "ask", "wait"} =>
              file[t] \in Files /\ (disk[file[t]] = 0 \/ since[t] <= disk[file[t]])

\* What a query finds, or will find when it arrives, is not older than it.
Fresh ==
    /\ \A t \in Queries : stage[t] = "ask" => NotOlder(LastCopy(file[t]), since[t])
    /\ \A j \in DOMAIN wire : \A t \in wire[j].who :
         NotOlder(CopyAt(wire, buffers, wire[j].file, j), since[t])
    /\ \A t \in Queries : stage[t] = "answered" => answer[t] >= since[t]


-----------------------------------------------------------------------------
\* A bounded set of numbers has a greatest.
LEMMA Greatest ==
  ASSUME NEW n \in Nat, NEW S \in SUBSET (0 .. n), S # {}
  PROVE  \E i \in S : \A k \in S : k <= i
<1> DEFINE T == {n - i : i \in S}
<1>1. T \subseteq Nat /\ T # {}
  <2>1. \A i \in S : n - i \in Nat
    OBVIOUS
  <2> QED
    BY <2>1
<1>2. PICK x \in T : \A y \in T : ~ (<<y, x>> \in OpToRel(<, Nat))
  BY <1>1, NatLessThanWellFounded, WFMin
<1>3. \A y \in T : x <= y
  <2> SUFFICES ASSUME NEW y \in T
               PROVE  x <= y
    OBVIOUS
  <2>1. x \in Nat /\ y \in Nat
    BY <1>1
  <2>2. ~ (y < x)
    <3> HIDE DEF T
    <3> QED
      BY <1>2, <2>1 DEF OpToRel
  <2> QED
    BY <2>1, <2>2
<1>4. PICK i \in S : x = n - i
  OBVIOUS
<1>5. ASSUME NEW k \in S
      PROVE  k <= i
  <2>1. n - k \in T
    OBVIOUS
  <2>2. n - i <= n - k
    BY <2>1, <1>3, <1>4
  <2>3. i \in Int /\ k \in Int
    OBVIOUS
  <2> HIDE DEF T
  <2> QED
    BY <2>2, <2>3
<1> QED
  BY <1>5

\* The last frame that sets a copy before frame j exists ...
LEMMA LastSetIs ==
  ASSUME NEW w, NEW f, NEW j \in Nat \ {0}
  PROVE  /\ LastSet(w, f, j) \in 0 .. j - 1
         /\ LastSet(w, f, j) = 0 \/ Sets(w[LastSet(w, f, j)], f)
         /\ \A k \in LastSet(w, f, j) + 1 .. j - 1 : ~Sets(w[k], f)
<1> DEFINE S == {i \in 0 .. j - 1 : i = 0 \/ Sets(w[i], f)}
<1>1. j - 1 \in Nat /\ S \in SUBSET (0 .. j - 1) /\ 0 \in S
  OBVIOUS
<1>2. PICK i \in S : \A k \in S : k <= i
  <2> HIDE DEF S
  <2> QED
    BY <1>1, Greatest
<1>3. \A k \in i + 1 .. j - 1 : k \notin S
  BY <1>2
<1>4. \A k \in i + 1 .. j - 1 : ~Sets(w[k], f)
  BY <1>3
<1>5. \E l \in 0 .. j - 1 : (l = 0 \/ Sets(w[l], f)) /\ \A k \in l + 1 .. j - 1 : ~Sets(w[k], f)
  BY <1>4
<1> QED
  BY <1>5, Zenon DEF LastSet

\* ... and is the only one of its kind.
LEMMA LastSetUnique ==
  ASSUME NEW w, NEW f, NEW j \in Nat \ {0}, NEW i \in 0 .. j - 1,
         i = 0 \/ Sets(w[i], f), \A k \in i + 1 .. j - 1 : ~Sets(w[k], f)
  PROVE  LastSet(w, f, j) = i
<1> DEFINE l == LastSet(w, f, j)
<1>1. /\ l \in 0 .. j - 1 /\ (l = 0 \/ Sets(w[l], f))
      /\ \A k \in l + 1 .. j - 1 : ~Sets(w[k], f)
  BY LastSetIs
<1> HIDE DEF l
<1>2. ~(l < i)
  BY <1>1
<1>3. ~(i < l)
  BY <1>1
<1>4. l = i
  BY <1>1, <1>2, <1>3
<1> QED
  BY <1>4 DEF l

\* What the first j - 1 frames make of the copies depends on nothing else.
LEMMA CopySame ==
  ASSUME NEW w, NEW v, NEW copies, NEW f, NEW j \in Nat \ {0},
         \A k \in 1 .. j - 1 : w[k] = v[k]
  PROVE  CopyAt(w, copies, f, j) = CopyAt(v, copies, f, j)
<1> DEFINE i == LastSet(v, f, j)
<1>1. i \in 0 .. j - 1 /\ (i = 0 \/ Sets(v[i], f)) /\ \A k \in i + 1 .. j - 1 : ~Sets(v[k], f)
  BY LastSetIs
<1> HIDE DEF i
<1>2. i = 0 \/ Sets(w[i], f)
  BY <1>1
<1>3. \A k \in i + 1 .. j - 1 : ~Sets(w[k], f)
  BY <1>1
<1>4. LastSet(w, f, j) = i
  BY <1>1, <1>2, <1>3, LastSetUnique
<1>5. i = 0 \/ w[i] = v[i]
  BY <1>1
<1> QED
  BY <1>4, <1>5 DEF CopyAt, i

\* The first frame meets the copies as they are.
LEMMA CopyFirst ==
  ASSUME NEW w, NEW copies, NEW f
  PROVE  CopyAt(w, copies, f, 1) = copies[f]
<1>1. LastSet(w, f, 1) \in 0 .. 1 - 1
  BY LastSetIs
<1>2. LastSet(w, f, 1) = 0
  BY <1>1
<1> QED
  BY <1>2 DEF CopyAt

\* The next frame sets the copy or leaves it.
LEMMA CopyNext ==
  ASSUME NEW w, NEW copies, NEW f, NEW j \in Nat \ {0}
  PROVE  CopyAt(w, copies, f, j + 1) = IF Sets(w[j], f) THEN w[j].doc ELSE CopyAt(w, copies, f, j)
<1>1. CASE Sets(w[j], f)
  <2>1. LastSet(w, f, j + 1) = j
    <3>1. j \in 0 .. (j + 1) - 1 /\ j + 1 \in Nat \ {0}
      OBVIOUS
    <3>2. \A k \in j + 1 .. (j + 1) - 1 : ~Sets(w[k], f)
      OBVIOUS
    <3> QED
      BY <1>1, <3>1, <3>2, LastSetUnique
  <2> QED
    BY <1>1, <2>1 DEF CopyAt
<1>2. CASE ~Sets(w[j], f)
  <2> DEFINE i == LastSet(w, f, j)
  <2>1. i \in 0 .. j - 1 /\ (i = 0 \/ Sets(w[i], f)) /\ \A k \in i + 1 .. j - 1 : ~Sets(w[k], f)
    BY LastSetIs
  <2> HIDE DEF i
  <2>2. i \in 0 .. (j + 1) - 1 /\ j + 1 \in Nat \ {0}
    BY <2>1
  <2>3. \A k \in i + 1 .. (j + 1) - 1 : ~Sets(w[k], f)
    BY <1>2, <2>1
  <2>4. LastSet(w, f, j + 1) = i
    BY <2>1, <2>2, <2>3, LastSetUnique
  <2> QED
    BY <1>2, <2>4 DEF CopyAt, i
<1> QED
  BY <1>1, <1>2

\* A frame that is sent changes nothing for those before it ...
LEMMA CopyKept ==
  ASSUME NEW w \in Seq(Frames), NEW m \in Frames, NEW copies, NEW f, NEW j \in 1 .. Len(w) + 1
  PROVE  CopyAt(Append(w, m), copies, f, j) = CopyAt(w, copies, f, j)
<1> DEFINE v == Append(w, m)
<1>1. Len(w) \in Nat /\ \A k \in 1 .. Len(w) : v[k] = w[k]
  BY AppendProperties, LenProperties
<1> HIDE DEF v
<1>2. j \in Nat \ {0} /\ \A k \in 1 .. j - 1 : v[k] = w[k]
  BY <1>1
<1>3. CopyAt(v, copies, f, j) = CopyAt(w, copies, f, j)
  BY <1>2, CopySame
<1> QED
  BY <1>3 DEF v

\* ... and may set the last copy.
LEMMA CopyAppend ==
  ASSUME NEW w \in Seq(Frames), NEW m \in Frames, NEW copies, NEW f
  PROVE  CopyAt(Append(w, m), copies, f, Len(Append(w, m)) + 1) =
           IF Sets(m, f) THEN m.doc ELSE CopyAt(w, copies, f, Len(w) + 1)
<1> DEFINE v == Append(w, m)
<1>1. /\ Len(w) \in Nat /\ Len(v) = Len(w) + 1
      /\ v[Len(w) + 1] = m
  BY AppendProperties, LenProperties
<1>2. Len(w) + 1 \in 1 .. Len(w) + 1 /\ Len(w) + 1 \in Nat \ {0}
  BY <1>1
<1>3. CopyAt(v, copies, f, Len(w) + 1) = CopyAt(w, copies, f, Len(w) + 1)
  BY <1>2, CopyKept
<1> HIDE DEF v
<1>4. CopyAt(v, copies, f, (Len(w) + 1) + 1) =
        IF Sets(v[Len(w) + 1], f) THEN v[Len(w) + 1].doc ELSE CopyAt(v, copies, f, Len(w) + 1)
  BY <1>2, CopyNext
<1> QED
  BY <1>1, <1>3, <1>4 DEF v

\* Handling the first frame changes no later copy.
LEMMA CopyTail ==
  ASSUME NEW w \in Seq(Frames), w # <<>>, NEW copies \in [Files -> Docs], NEW f \in Files,
         NEW j \in 1 .. Len(w)
  PROVE  CopyAt(Tail(w), Handled(copies, Head(w)), f, j) = CopyAt(w, copies, f, j + 1)
<1> DEFINE v == Tail(w)
<1> DEFINE i == LastSet(w, f, j + 1)
<1>1. /\ Len(w) \in Nat \ {0} /\ Len(v) = Len(w) - 1
      /\ \A k \in 1 .. Len(w) - 1 : v[k] = w[k + 1]
      /\ Head(w) = w[1] /\ w[1] \in Frames
  BY HeadTailProperties, LenProperties
<1>2. /\ i \in 0 .. (j + 1) - 1 /\ (i = 0 \/ Sets(w[i], f))
      /\ \A k \in i + 1 .. (j + 1) - 1 : ~Sets(w[k], f)
  <2>1. j + 1 \in Nat \ {0}
    OBVIOUS
  <2> QED
    BY <2>1, LastSetIs
<1> HIDE DEF v, i
<1>3. ASSUME i = 0
      PROVE  LastSet(v, f, j) = 0 /\ ~Sets(w[1], f)
  <2>1. \A k \in 0 + 1 .. j - 1 : ~Sets(v[k], f)
    BY <1>1, <1>2, <1>3
  <2>2. LastSet(v, f, j) = 0
    BY <2>1, LastSetUnique
  <2> QED
    BY <1>2, <1>3, <2>2
<1>4. ASSUME i # 0
      PROVE  LastSet(v, f, j) = i - 1
  <2>1. i - 1 \in 0 .. j - 1 /\ (i - 1 = 0 \/ Sets(v[i - 1], f))
    BY <1>1, <1>2, <1>4
  <2>2. \A k \in (i - 1) + 1 .. j - 1 : ~Sets(v[k], f)
    BY <1>1, <1>2, <1>4
  <2> QED
    BY <2>1, <2>2, LastSetUnique
<1>5. Handled(copies, Head(w))[f] = IF Sets(w[1], f) THEN w[1].doc ELSE copies[f]
  BY <1>1 DEF Handled, Sets, Frames
<1>6. CASE i = 0
  <2>1. CopyAt(v, Handled(copies, Head(w)), f, j) = Handled(copies, Head(w))[f]
    BY <1>3, <1>6 DEF CopyAt
  <2>2. CopyAt(w, copies, f, j + 1) = copies[f]
    BY <1>6 DEF CopyAt, i
  <2> QED
    BY <1>3, <1>5, <1>6, <2>1, <2>2 DEF v
<1>7. CASE i = 1
  <2>1. CopyAt(v, Handled(copies, Head(w)), f, j) = Handled(copies, Head(w))[f]
    BY <1>4, <1>7 DEF CopyAt
  <2>2. CopyAt(w, copies, f, j + 1) = w[1].doc
    BY <1>7 DEF CopyAt, i
  <2> QED
    BY <1>2, <1>5, <1>7, <2>1, <2>2 DEF v
<1>8. CASE i > 1
  <2>1. i - 1 # 0 /\ v[i - 1] = w[i]
    BY <1>1, <1>2, <1>8
  <2>2. CopyAt(v, Handled(copies, Head(w)), f, j) = v[i - 1].doc
    BY <1>2, <1>4, <1>8, <2>1 DEF CopyAt
  <2>3. CopyAt(w, copies, f, j + 1) = w[i].doc
    BY <1>2, <1>8 DEF CopyAt, i
  <2> QED
    BY <2>1, <2>2, <2>3 DEF v
<1> QED
  BY <1>2, <1>6, <1>7, <1>8

-----------------------------------------------------------------------------
(* The order of use. *)

\* Removing a document keeps the others, each once.
LEMMA RemovedOrder ==
  ASSUME NEW s \in Seq(Files), IsInjective(s), NEW f
  PROVE  LET r == RemoveFirst(s, f)
         IN  /\ r \in Seq(Files) /\ IsInjective(r)
             /\ ToSet(r) = ToSet(s) \ {f}
             /\ Len(r) <= Len(s) /\ (f \in ToSet(s) => Len(r) = Len(s) - 1)
<1> DEFINE n == Len(s)
<1>1. n \in Nat /\ DOMAIN s = 1 .. n /\ \A k \in 1 .. n : s[k] \in Files
  BY LenProperties
<1>2. CASE \A i \in 1 .. Len(s) : s[i] # f
  <2>1. RemoveFirst(s, f) = s
    BY <1>2, Zenon DEF RemoveFirst
  <2>2. f \notin ToSet(s)
    BY <1>1, <1>2 DEF ToSet
  <2>3. ToSet(s) = ToSet(s) \ {f}
    BY <2>2
  <2> DEFINE r == RemoveFirst(s, f)
  <2>4. /\ r \in Seq(Files) /\ IsInjective(r)
        /\ ToSet(r) = ToSet(s) \ {f} /\ Len(r) <= Len(s)
    BY <1>1, <2>1, <2>3
  <2> QED
    BY <2>2, <2>4
<1>3. CASE \E i \in 1 .. Len(s) : s[i] = f
  <2>1. PICK i \in 1 .. n : s[i] = f
    BY <1>3
  <2>2. {k \in 1 .. Len(s) : s[k] = f} = {i}
    BY <1>1, <2>1 DEF IsInjective
  <2>3. Min({i}) = i
    BY <2>1 DEF Min
  <2>4. RemoveFirst(s, f) = SubSeq(s, 1, i - 1) \o SubSeq(s, i + 1, n)
    BY <1>3, <2>2, <2>3 DEF RemoveFirst, SelectInSeq, RemoveAt
  <2> DEFINE a == SubSeq(s, 1, i - 1)
  <2> DEFINE b == SubSeq(s, i + 1, n)
  <2> DEFINE r == RemoveFirst(s, f)
  <2>5. /\ a \in Seq(Files) /\ Len(a) = i - 1
        /\ \A k \in 1 .. i - 1 : a[k] = s[k]
    <3>1. 1 \in Int /\ i - 1 \in Int /\ \A k \in 1 .. i - 1 : s[k] \in Files
      BY <1>1
    <3>2. /\ a \in Seq(Files)
          /\ Len(a) = IF 1 <= i - 1 THEN i - 1 - 1 + 1 ELSE 0
          /\ \A k \in 1 .. i - 1 - 1 + 1 : a[k] = s[1 + k - 1]
      BY <3>1, SubSeqProperties
    <3> HIDE DEF a
    <3> QED
      BY <3>2
  <2>6. /\ b \in Seq(Files) /\ Len(b) = n - i
        /\ \A k \in 1 .. n - i : b[k] = s[i + k]
    <3>1. i + 1 \in Int /\ n \in Int /\ \A k \in i + 1 .. n : s[k] \in Files
      BY <1>1
    <3>2. /\ b \in Seq(Files)
          /\ Len(b) = IF i + 1 <= n THEN n - (i + 1) + 1 ELSE 0
          /\ \A k \in 1 .. n - (i + 1) + 1 : b[k] = s[(i + 1) + k - 1]
      BY <3>1, SubSeqProperties
    <3> HIDE DEF b
    <3> HIDE DEF n
    <3>3. Len(b) = n - i
      <4>1. i + 1 <= n => n - (i + 1) + 1 = n - i
        BY <1>1
      <4>2. ~(i + 1 <= n) => n - i = 0
        BY <1>1
      <4> QED
        BY <3>2, <4>1, <4>2
    <3>4. ASSUME NEW k \in 1 .. n - i
          PROVE  b[k] = s[i + k]
      <4>1. k \in 1 .. n - (i + 1) + 1 /\ (i + 1) + k - 1 = i + k
        BY <1>1
      <4> QED
        BY <3>2, <4>1
    <3> QED
      BY <3>2, <3>3, <3>4
  <2> HIDE DEF a, b
  <2>7. /\ a \o b \in Seq(Files) /\ Len(a \o b) = Len(a) + Len(b)
        /\ \A k \in 1 .. Len(a) + Len(b) : (a \o b)[k] = IF k <= Len(a) THEN a[k] ELSE b[k - Len(a)]
    BY <2>5, <2>6, ConcatProperties
  <2>8. r = a \o b
    BY <2>4 DEF a, b
  <2> HIDE DEF r
  <2>9. /\ r \in Seq(Files) /\ Len(r) = n - 1
        /\ \A k \in 1 .. n - 1 : r[k] = IF k < i THEN s[k] ELSE s[k + 1]
    <3> HIDE DEF n
    <3>1. r \in Seq(Files) /\ Len(r) = n - 1
      <4>1. (i - 1) + (n - i) = n - 1
        BY <1>1
      <4> QED
        BY <2>5, <2>6, <2>7, <2>8, <4>1
    <3>2. ASSUME NEW k \in 1 .. n - 1
          PROVE  r[k] = IF k < i THEN s[k] ELSE s[k + 1]
      <4>1. r[k] = IF k <= i - 1 THEN a[k] ELSE b[k - (i - 1)]
        <5>1. (i - 1) + (n - i) = n - 1
          BY <1>1
        <5> QED
          BY <2>5, <2>6, <2>7, <2>8, <5>1
      <4>2. CASE k < i
        BY <1>1, <2>5, <4>1, <4>2
      <4>3. CASE ~(k < i)
        <5>1. k - (i - 1) \in 1 .. n - i /\ i + (k - (i - 1)) = k + 1
          BY <1>1, <4>3
        <5>2. b[k - (i - 1)] = s[k + 1]
          BY <2>6, <5>1
        <5> QED
          BY <1>1, <4>1, <4>3, <5>2
      <4> QED
        BY <4>2, <4>3
    <3> QED
      BY <3>1, <3>2
  <2>10. DOMAIN r = 1 .. n - 1
    BY <2>9, LenProperties
  <2>11. IsInjective(r)
    BY <1>1, <2>9, <2>10 DEF IsInjective
  <2>12. ToSet(r) = ToSet(s) \ {f}
    <3>1. ASSUME NEW x \in ToSet(r)
          PROVE  x \in ToSet(s) \ {f}
      <4>1. PICK k \in 1 .. n - 1 : r[k] = x
        BY <2>10 DEF ToSet
      <4>2. CASE k < i
        <5>1. k \in 1 .. n /\ s[k] = x /\ k # i
          BY <1>1, <2>9, <4>1, <4>2
        <5> QED
          BY <1>1, <2>1, <5>1 DEF ToSet, IsInjective
      <4>3. CASE ~(k < i)
        <5>1. k + 1 \in 1 .. n /\ s[k + 1] = x /\ k + 1 # i
          BY <1>1, <2>9, <4>1, <4>3
        <5> QED
          BY <1>1, <2>1, <5>1 DEF ToSet, IsInjective
      <4> QED
        BY <4>2, <4>3
    <3>2. ASSUME NEW x \in ToSet(s), x # f
          PROVE  x \in ToSet(r)
      <4>1. PICK k \in 1 .. n : s[k] = x
        BY <1>1 DEF ToSet
      <4>2. CASE k < i
        BY <4>1, <4>2, <2>9, <2>10, <1>1 DEF ToSet
      <4>3. CASE k > i
        <5>1. k - 1 \in 1 .. n - 1 /\ r[k - 1] = x
          BY <4>1, <4>3, <2>9, <1>1
        <5> QED
          BY <5>1, <2>10 DEF ToSet
      <4> QED
        BY <2>1, <3>2, <4>1, <4>2, <4>3, <1>1
    <3> QED
      BY <3>1, <3>2
  <2> QED
    BY <1>1, <2>9, <2>11, <2>12 DEF r
<1> QED
  BY <1>2, <1>3

\* Another document becomes the last used.
LEMMA AppendedOrder ==
  ASSUME NEW s \in Seq(Files), IsInjective(s), NEW f \in Files, f \notin ToSet(s)
  PROVE  /\ Append(s, f) \in Seq(Files) /\ IsInjective(Append(s, f))
         /\ ToSet(Append(s, f)) = ToSet(s) \cup {f}
         /\ Len(Append(s, f)) = Len(s) + 1
<1> DEFINE r == Append(s, f)
<1>1. /\ r \in Seq(Files) /\ Len(r) = Len(s) + 1 /\ Len(s) \in Nat
      /\ \A k \in 1 .. Len(s) : r[k] = s[k]
      /\ r[Len(s) + 1] = f
      /\ DOMAIN s = 1 .. Len(s) /\ DOMAIN r = 1 .. Len(s) + 1
  BY AppendProperties, LenProperties
<1> HIDE DEF r
<1>2. IsInjective(r)
  BY <1>1 DEF IsInjective, ToSet
<1>3. ToSet(r) = ToSet(s) \cup {f}
  BY <1>1 DEF ToSet
<1> QED
  BY <1>1, <1>2, <1>3 DEF r

\* Evicting the first keeps the others.
LEMMA TailOrder ==
  ASSUME NEW s \in Seq(Files), IsInjective(s), s # <<>>
  PROVE  /\ Head(s) \in ToSet(s)
         /\ Tail(s) \in Seq(Files) /\ IsInjective(Tail(s))
         /\ ToSet(Tail(s)) = ToSet(s) \ {Head(s)}
         /\ Len(Tail(s)) = Len(s) - 1
<1> DEFINE r == Tail(s)
<1>1. /\ r \in Seq(Files) /\ Len(r) = Len(s) - 1 /\ Len(s) \in Nat \ {0}
      /\ \A k \in 1 .. Len(s) - 1 : r[k] = s[k + 1]
      /\ Head(s) = s[1]
      /\ DOMAIN s = 1 .. Len(s) /\ DOMAIN r = 1 .. Len(s) - 1
  BY HeadTailProperties, LenProperties
<1> HIDE DEF r
<1>2. IsInjective(r)
  BY <1>1 DEF IsInjective
<1>3. ToSet(r) = ToSet(s) \ {s[1]}
  <2>1. ToSet(r) \subseteq ToSet(s) \ {s[1]}
    BY <1>1 DEF IsInjective, ToSet
  <2>2. ASSUME NEW x \in ToSet(s), x # s[1]
        PROVE  x \in ToSet(r)
    <3>1. PICK k \in 1 .. Len(s) : s[k] = x
      BY <1>1 DEF ToSet
    <3>2. k - 1 \in 1 .. Len(s) - 1 /\ r[k - 1] = x
      BY <1>1, <2>2, <3>1
    <3> QED
      BY <1>1, <3>2 DEF ToSet
  <2> QED
    BY <2>1, <2>2
<1> QED
  <2>1. s[1] \in ToSet(s)
    BY <1>1 DEF ToSet
  <2> QED
    BY <1>1, <1>2, <1>3, <2>1 DEF r

-----------------------------------------------------------------------------
(* Sending. *)

\* The last copy of f after the frames w.
LastOf(w, f) == CopyAt(w, buffers, f, Len(w) + 1)

\* The queries among the frames v are those among w, and find the same copies.
SameAsks(v, w) ==
    \A j \in DOMAIN v : \A t \in v[j].who :
      /\ j \in DOMAIN w /\ v[j] = w[j]
      /\ CopyAt(v, buffers, v[j].file, j) = CopyAt(w, buffers, w[j].file, j)

\* A frame with a document.
LEMMA SendDoc ==
  ASSUME NEW w \in Seq(Frames), NEW m \in Frames, m.op # "ask", m.who = {}
  PROVE  LET v == Append(w, m)
         IN  /\ v \in Seq(Frames)
             /\ AsksOnce(w) => AsksOnce(v)
             /\ InStep(w) /\ Fits(m, LastOf(w, m.file)) => InStep(v)
             /\ LastOf(v, m.file) = m.doc
             /\ \A g : g # m.file => LastOf(v, g) = LastOf(w, g)
             /\ SameAsks(v, w)
<1> DEFINE v == Append(w, m)
<1>1. /\ v \in Seq(Frames) /\ Len(w) \in Nat /\ Len(v) = Len(w) + 1
      /\ \A k \in 1 .. Len(w) : v[k] = w[k]
      /\ v[Len(w) + 1] = m
      /\ DOMAIN w = 1 .. Len(w) /\ DOMAIN v = 1 .. Len(w) + 1
  BY AppendProperties, LenProperties
<1>2. ASSUME NEW f, NEW j \in 1 .. Len(w) + 1
      PROVE  CopyAt(v, buffers, f, j) = CopyAt(w, buffers, f, j)
  BY CopyKept
<1>3. \A f : LastOf(v, f) = IF Sets(m, f) THEN m.doc ELSE LastOf(w, f)
  <2>1. \A f : CopyAt(v, buffers, f, Len(v) + 1) =
               IF Sets(m, f) THEN m.doc ELSE CopyAt(w, buffers, f, Len(w) + 1)
    <3> SUFFICES ASSUME NEW f
                 PROVE  CopyAt(v, buffers, f, Len(v) + 1) =
                          IF Sets(m, f) THEN m.doc ELSE CopyAt(w, buffers, f, Len(w) + 1)
      OBVIOUS
    <3> QED
      BY CopyAppend
  <2> QED
    BY <2>1 DEF LastOf
<1> HIDE DEF v
<1>4. ASSUME AsksOnce(w)
      PROVE  AsksOnce(v)
  BY <1>1, <1>4 DEF AsksOnce
<1>5. ASSUME InStep(w), Fits(m, LastOf(w, m.file))
      PROVE  InStep(v)
  <2> SUFFICES ASSUME NEW j \in DOMAIN v
               PROVE  Fits(v[j], CopyAt(v, buffers, v[j].file, j))
    BY DEF InStep
  <2>1. CASE j \in DOMAIN w
    BY <1>1, <1>2, <1>5, <2>1 DEF InStep
  <2>2. CASE j = Len(w) + 1
    BY <1>1, <1>2, <1>5, <2>2 DEF LastOf
  <2> QED
    BY <1>1, <2>1, <2>2
<1>6. LastOf(v, m.file) = m.doc /\ \A g : g # m.file => LastOf(v, g) = LastOf(w, g)
  BY <1>3 DEF Sets
<1>7. SameAsks(v, w)
  <2> SUFFICES ASSUME NEW j \in DOMAIN v, NEW t \in v[j].who
               PROVE  /\ j \in DOMAIN w /\ v[j] = w[j]
                      /\ CopyAt(v, buffers, v[j].file, j) = CopyAt(w, buffers, w[j].file, j)
    BY DEF SameAsks
  <2>1. j # Len(w) + 1
    BY <1>1
  <2> QED
    BY <1>1, <1>2, <2>1
<1> QED
  BY <1>1, <1>4, <1>5, <1>6, <1>7 DEF v

\* Two frames sent under one lock are sent one after the other.
LEMMA SendTwo ==
  ASSUME NEW w \in Seq(Frames), NEW m \in Frames, NEW n \in Frames
  PROVE  w \o <<m, n>> = Append(Append(w, m), n)
<1>1. /\ <<m, n>> \in Seq(Frames) /\ Len(<<m, n>>) = 2
  OBVIOUS
<1> DEFINE s == w \o <<m, n>>
<1> DEFINE t == Append(Append(w, m), n)
<1>2. /\ s \in Seq(Frames) /\ Len(s) = Len(w) + 2
      /\ \A k \in 1 .. Len(w) + 2 : s[k] = IF k <= Len(w) THEN w[k] ELSE <<m, n>>[k - Len(w)]
  BY <1>1, ConcatProperties
<1>3. /\ t \in Seq(Frames) /\ Len(t) = Len(w) + 2 /\ Len(w) \in Nat
      /\ \A k \in 1 .. Len(w) : t[k] = w[k]
      /\ t[Len(w) + 1] = m /\ t[Len(w) + 2] = n
  BY AppendProperties, LenProperties
<1> HIDE DEF s, t
<1>4. \A k \in 1 .. Len(s) : s[k] = t[k]
  <2> SUFFICES ASSUME NEW k \in 1 .. Len(s)
               PROVE  s[k] = t[k]
    OBVIOUS
  <2>1. CASE k = Len(w) + 1
    BY <1>2, <1>3, <2>1
  <2>2. CASE k = Len(w) + 2
    BY <1>2, <1>3, <2>2
  <2>3. CASE k <= Len(w)
    BY <1>2, <1>3, <2>3
  <2> QED
    BY <1>2, <1>3, <2>1, <2>2, <2>3
<1>5. s = t
  BY <1>2, <1>3, <1>4, SeqEqual
<1> QED
  BY <1>5 DEF s, t

-----------------------------------------------------------------------------
(* ensure_open. *)

\* The frames the session builds are frames.
LEMMA FramesAre ==
  ASSUME NEW f \in Files
  PROVE  /\ \A d \in Docs : Frame("change", f, d) \in Frames
         /\ \A x \in Nat : Doc(1, x) \in Docs /\ DidOpen(f, x) \in Frames
         /\ DidClose(f) \in Frames /\ Closed \in Docs
         /\ \A t \in Queries : [Frame("ask", f, Closed) EXCEPT !.who = {t}] \in Frames
<1> USE DEF Frames, Docs, Doc, Frame, DidOpen, DidClose, Closed
<1>1. Closed \in Docs /\ \A x \in Nat : Doc(1, x) \in Docs
  OBVIOUS
<1>2. DidClose(f) \in Frames /\ \A x \in Nat : DidOpen(f, x) \in Frames
  OBVIOUS
<1> QED
  BY <1>1, <1>2

\* What the session forgets, and what it opens in its place.
EnsureTypes(f) ==
    /\ opened' \in [Files -> Docs] /\ order' \in Seq(Files)
    /\ ToSet(order') = {g \in Files : opened'[g] # Closed}
    /\ IsInjective(order') /\ Len(order') <= MaxOpen
    /\ wire' \in Seq(Frames) /\ since' \in [Queries -> Nat]
    /\ AsksOnce(wire')
    /\ \A t \in Queries : since'[t] = since[t] \/ since'[t] = 0

\* ensure_open keeps the types, and all documents of the order open.
LEMMA EnsureOpenTypes ==
  ASSUME DocsTypeOK, AsksOnce(wire), NEW f \in Files, EnsureOpen(f)
  PROVE  EnsureTypes(f)
<1> USE OpenDocsAssumption
<1>1. /\ opened \in [Files -> Docs] /\ order \in Seq(Files)
      /\ ToSet(order) = {g \in Files : opened[g] # Closed}
      /\ IsInjective(order) /\ Len(order) <= MaxOpen /\ Len(order) \in Nat
      /\ wire \in Seq(Frames) /\ since \in [Queries -> Nat]
      /\ disk \in [Files -> Nat]
  BY LenProperties DEF DocsTypeOK, Open
<1> DEFINE r == RemoveFirst(order, f)
<1>2. /\ r \in Seq(Files) /\ IsInjective(r) /\ ToSet(r) = ToSet(order) \ {f}
      /\ Len(r) <= Len(order) /\ (f \in ToSet(order) => Len(r) = Len(order) - 1)
  BY <1>1, RemovedOrder
<1>3. \A x \in Nat : Doc(1, x) \in Docs /\ Doc(1, x) # Closed
  BY DEF Doc, Docs, Closed
<1>4. CASE EnsureGone(f)
  <2>1. opened' = [opened EXCEPT ![f] = Closed] /\ order' = r /\ since' = since
    BY <1>4 DEF EnsureGone
  <2>2. wire' \in Seq(Frames) /\ AsksOnce(wire')
    <3>1. DidClose(f) \in Frames /\ DidClose(f).op # "ask" /\ DidClose(f).who = {}
      BY FramesAre DEF DidClose, Frame
    <3>2. Append(wire, DidClose(f)) \in Seq(Frames) /\ AsksOnce(Append(wire, DidClose(f)))
      BY <1>1, <3>1, SendDoc
    <3> QED
      BY <1>1, <1>4, <3>2 DEF EnsureGone
  <2>3. opened' \in [Files -> Docs] /\ ToSet(order') = {g \in Files : opened'[g] # Closed}
    BY <1>1, <1>2, <2>1, FramesAre
  <2> QED
    BY <1>1, <1>2, <2>1, <2>2, <2>3 DEF EnsureTypes
<1>5. CASE EnsureChanged(f)
  <2> DEFINE doc == Doc(opened[f].version + 1, disk[f])
  <2>1. doc \in Docs /\ doc # Closed
    BY <1>1 DEF Doc, Docs, Closed
  <2> HIDE DEF doc
  <2>2. /\ order' = Append(r, f) /\ since' = since /\ f \in ToSet(order)
        /\ \/ opened' = opened /\ wire' = wire
           \/ opened' = [opened EXCEPT ![f] = doc] /\ wire' = Append(wire, Frame("change", f, doc))
    BY <1>1, <1>5 DEF EnsureChanged, Open, doc
  <2>3. wire' \in Seq(Frames) /\ AsksOnce(wire')
    <3> DEFINE m == Frame("change", f, doc)
    <3>1. m \in Frames /\ m.op # "ask" /\ m.who = {}
      BY <2>1, FramesAre DEF Frame
    <3>2. Append(wire, m) \in Seq(Frames) /\ AsksOnce(Append(wire, m))
      <4> HIDE DEF m
      <4> QED
        BY <1>1, <3>1, SendDoc
    <3> QED
      BY <1>1, <2>2, <3>2
  <2>4. /\ order' \in Seq(Files) /\ IsInjective(order')
        /\ ToSet(order') = ToSet(order) /\ Len(order') = Len(r) + 1
    <3> HIDE DEF r
    <3>1. f \notin ToSet(r)
      BY <1>2
    <3>2. /\ Append(r, f) \in Seq(Files) /\ IsInjective(Append(r, f))
          /\ ToSet(Append(r, f)) = ToSet(r) \cup {f} /\ Len(Append(r, f)) = Len(r) + 1
      BY <1>2, <3>1, AppendedOrder
    <3> QED
      BY <1>2, <2>2, <3>2
  <2>5. Len(order') <= MaxOpen
    BY <1>1, <1>2, <2>2, <2>4
  <2>6. opened' \in [Files -> Docs] /\ ToSet(order') = {g \in Files : opened'[g] # Closed}
    BY <1>1, <2>1, <2>2, <2>4
  <2> QED
    BY <1>1, <2>2, <2>3, <2>4, <2>5, <2>6 DEF EnsureTypes
<1>6. CASE EnsureOpened(f)
  <2> DEFINE old == Head(order)
  <2> DEFINE m == DidOpen(f, disk[f])
  <2>1. /\ f \notin ToSet(order) /\ Doc(1, disk[f]) \in Docs /\ Doc(1, disk[f]) # Closed
        /\ m \in Frames /\ m.op # "ask" /\ m.who = {}
    BY <1>1, <1>3, <1>6, FramesAre DEF EnsureOpened, Open, DidOpen, Frame
  <2>2. CASE Len(order) >= MaxOpen
    <3>1. /\ opened' = [opened EXCEPT ![f] = Doc(1, disk[f]), ![old] = Closed]
          /\ order' = Append(Tail(order), f)
          /\ wire' = wire \o <<DidClose(old), m>>
          /\ since' = [t \in Queries |-> IF file[t] = old THEN 0 ELSE since[t]]
      BY <1>6, <2>2 DEF EnsureOpened
    <3>2. order # <<>>
      BY <1>1, <2>2
    <3>3. /\ old \in ToSet(order) /\ old \in Files /\ old # f
          /\ Tail(order) \in Seq(Files) /\ IsInjective(Tail(order))
          /\ ToSet(Tail(order)) = ToSet(order) \ {old} /\ Len(Tail(order)) = Len(order) - 1
      BY <1>1, <2>1, <3>2, TailOrder
    <3>4. /\ DidClose(old) \in Frames /\ DidClose(old).op # "ask" /\ DidClose(old).who = {}
      BY <3>3, FramesAre DEF DidClose, Frame
    <3> HIDE DEF old, m
    <3> DEFINE v == Append(wire, DidClose(old))
    <3>5. v \in Seq(Frames) /\ AsksOnce(v)
      BY <1>1, <3>4, SendDoc
    <3> HIDE DEF v
    <3>6. Append(v, m) \in Seq(Frames) /\ AsksOnce(Append(v, m))
      BY <2>1, <3>5, SendDoc
    <3>7. wire' = Append(v, m)
      BY <1>1, <2>1, <3>1, <3>4, SendTwo DEF v
    <3>8. /\ order' \in Seq(Files) /\ IsInjective(order') /\ Len(order') = Len(order)
          /\ ToSet(order') = (ToSet(order) \ {old}) \cup {f}
      <4> DEFINE rest == Tail(order)
      <4>1. f \notin ToSet(rest)
        BY <2>1, <3>3
      <4>2. /\ Append(rest, f) \in Seq(Files) /\ IsInjective(Append(rest, f))
            /\ ToSet(Append(rest, f)) = ToSet(rest) \cup {f}
            /\ Len(Append(rest, f)) = Len(rest) + 1
        <5> HIDE DEF rest
        <5>1. rest \in Seq(Files) /\ IsInjective(rest)
          BY <3>3 DEF rest
        <5> QED
          BY <4>1, <5>1, AppendedOrder
      <4> QED
        BY <1>1, <3>1, <3>3, <4>2
    <3>9. opened' \in [Files -> Docs] /\ ToSet(order') = {g \in Files : opened'[g] # Closed}
      BY <1>1, <2>1, <3>1, <3>3, <3>8, FramesAre
    <3>10. since' \in [Queries -> Nat] /\ \A t \in Queries : since'[t] = since[t] \/ since'[t] = 0
      BY <1>1, <3>1
    <3> QED
      BY <1>1, <3>6, <3>7, <3>8, <3>9, <3>10 DEF EnsureTypes
  <2>3. CASE ~(Len(order) >= MaxOpen)
    <3>1. /\ opened' = [opened EXCEPT ![f] = Doc(1, disk[f])]
          /\ order' = Append(order, f)
          /\ wire' = Append(wire, m) /\ since' = since
      BY <1>6, <2>3 DEF EnsureOpened
    <3>2. wire' \in Seq(Frames) /\ AsksOnce(wire')
      <4> HIDE DEF m
      <4> QED
        BY <1>1, <2>1, <3>1, SendDoc
    <3>3. /\ order' \in Seq(Files) /\ IsInjective(order') /\ Len(order') = Len(order) + 1
          /\ ToSet(order') = ToSet(order) \cup {f}
      BY <1>1, <2>1, <3>1, AppendedOrder
    <3>4. opened' \in [Files -> Docs] /\ ToSet(order') = {g \in Files : opened'[g] # Closed}
      BY <1>1, <2>1, <3>1, <3>3
    <3>5. Len(order') <= MaxOpen
      BY <1>1, <2>3, <3>3
    <3> QED
      BY <1>1, <3>1, <3>2, <3>3, <3>4, <3>5 DEF EnsureTypes
  <2> QED
    BY <2>2, <2>3
<1> QED
  BY <1>4, <1>5, <1>6 DEF EnsureOpen

\* What holds between the session and the server, and what a query may find.
SessionAfter(w, copies) ==
    \A g \in Files :
      IF step = "close" /\ change.file = g
      THEN copies[g] = Closed /\ LastOf(w, g) # Closed
      ELSE LastOf(w, g) = copies[g]

EnsureCopies(f) ==
    /\ InStep(wire') /\ SessionAfter(wire', opened')
    /\ SameAsks(wire', wire)
    /\ disk[f] # 0 => LastOf(wire', f).text = disk[f]
    /\ \A g \in Files :
         \/ LastOf(wire', g) = LastOf(wire, g)
         \/ LastOf(wire', g) = Closed
         \/ g = f /\ LastOf(wire', g).text = disk[f] /\ disk[f] # 0

\* SameAsks is transitive.
LEMMA SameAsksAgain ==
  ASSUME NEW u, NEW v, NEW w, SameAsks(u, v), SameAsks(v, w)
  PROVE  SameAsks(u, w)
<1> SUFFICES ASSUME NEW j \in DOMAIN u, NEW t \in u[j].who
             PROVE  /\ j \in DOMAIN w /\ u[j] = w[j]
                    /\ CopyAt(u, buffers, u[j].file, j) = CopyAt(w, buffers, w[j].file, j)
  BY DEF SameAsks
<1>1. /\ j \in DOMAIN v /\ u[j] = v[j]
      /\ CopyAt(u, buffers, u[j].file, j) = CopyAt(v, buffers, v[j].file, j)
  BY DEF SameAsks
<1>2. t \in v[j].who
  BY <1>1
<1> QED
  BY <1>1, <1>2 DEF SameAsks

\* ensure_open brings the last copy of its file up to date, unless the file has a didClose to come.
LEMMA EnsureOpenCopies ==
  ASSUME DocsTypeOK, InStep(wire), Session, NEW f \in Files, EnsureOpen(f),
         step = "close" /\ change.file = f => disk[f] = 0
  PROVE  EnsureCopies(f)
<1>1. /\ opened \in [Files -> Docs] /\ order \in Seq(Files)
      /\ ToSet(order) = {g \in Files : opened[g] # Closed}
      /\ IsInjective(order) /\ Len(order) \in Nat
      /\ wire \in Seq(Frames) /\ disk \in [Files -> Nat] /\ disk[f] \in Nat
  BY LenProperties DEF DocsTypeOK, Open
<1>2. \A g \in Files : IF step = "close" /\ change.file = g
                        THEN opened[g] = Closed /\ LastOf(wire, g) # Closed
                        ELSE LastOf(wire, g) = opened[g]
  BY DEF Session, LastCopy, LastOf
<1>3. SameAsks(wire, wire)
  BY DEF SameAsks
<1>4. CASE wire' = wire /\ opened' = opened /\ (disk[f] # 0 => LastOf(wire, f).text = disk[f])
  BY <1>2, <1>3, <1>4 DEF EnsureCopies, SessionAfter
<1>5. CASE EnsureGone(f)
  <2> DEFINE m == DidClose(f)
  <2>1. /\ m \in Frames /\ m.op = "close" /\ m.op # "ask" /\ m.who = {} /\ m.file = f /\ m.doc = Closed
    BY FramesAre DEF DidClose, Frame
  <2> HIDE DEF m
  <2>2. CASE Open(f)
    <3>1. /\ disk[f] = 0 /\ opened' = [opened EXCEPT ![f] = Closed] /\ wire' = Append(wire, m)
          /\ opened[f] # Closed
      BY <1>5, <2>2 DEF EnsureGone, Open, m
    <3>2. ~(step = "close" /\ change.file = f) /\ LastOf(wire, f) = opened[f]
      BY <1>2, <3>1
    <3>3. Fits(m, LastOf(wire, m.file))
      BY <2>1, <3>1, <3>2 DEF Fits
    <3>4. /\ InStep(wire') /\ LastOf(wire', f) = Closed /\ SameAsks(wire', wire)
          /\ \A g : g # f => LastOf(wire', g) = LastOf(wire, g)
      BY <1>1, <2>1, <3>1, <3>3, SendDoc
    <3>5. SessionAfter(wire', opened')
      BY <1>1, <1>2, <3>1, <3>2, <3>4 DEF SessionAfter
    <3> QED
      BY <3>1, <3>4, <3>5 DEF EnsureCopies
  <2>3. CASE ~Open(f)
    <3>1. wire' = wire /\ opened' = opened /\ disk[f] = 0
      BY <1>1, <1>5, <2>3 DEF EnsureGone, Open
    <3> QED
      BY <1>4, <3>1
  <2> QED
    BY <2>2, <2>3
<1>6. CASE EnsureChanged(f)
  <2>1. /\ disk[f] # 0 /\ opened[f] # Closed /\ ~(step = "close" /\ change.file = f)
        /\ LastOf(wire, f) = opened[f]
    BY <1>2, <1>6 DEF EnsureChanged, Open
  <2> DEFINE doc == Doc(opened[f].version + 1, disk[f])
  <2>2. CASE opened[f].text = disk[f] /\ UNCHANGED <<opened, wire>>
    BY <1>4, <2>1, <2>2
  <2>3. CASE opened' = [opened EXCEPT ![f] = doc] /\ wire' = Append(wire, Frame("change", f, doc))
    <3> DEFINE m == Frame("change", f, doc)
    <3>1. doc \in Docs /\ doc # Closed /\ doc.version > opened[f].version /\ doc.text = disk[f]
      BY <1>1 DEF Doc, Docs, Closed
    <3> HIDE DEF doc
    <3>2. m \in Frames /\ m.op = "change" /\ m.op # "ask" /\ m.who = {} /\ m.file = f /\ m.doc = doc
      BY <3>1, FramesAre DEF Frame
    <3> HIDE DEF m
    <3>3. Fits(m, LastOf(wire, m.file))
      BY <2>1, <3>1, <3>2 DEF Fits
    <3>4. wire' = Append(wire, m)
      BY <2>3 DEF m
    <3>5. /\ InStep(wire') /\ LastOf(wire', f) = doc /\ SameAsks(wire', wire)
          /\ \A g : g # f => LastOf(wire', g) = LastOf(wire, g)
      BY <1>1, <3>2, <3>3, <3>4, SendDoc
    <3>6. SessionAfter(wire', opened')
      BY <1>1, <1>2, <2>1, <2>3, <3>5 DEF SessionAfter
    <3> QED
      BY <2>1, <3>1, <3>5, <3>6 DEF EnsureCopies
  <2> QED
    BY <1>6, <2>2, <2>3 DEF EnsureChanged
<1>7. CASE EnsureOpened(f)
  <2> DEFINE old == Head(order)
  <2> DEFINE m == DidOpen(f, disk[f])
  <2> DEFINE doc == Doc(1, disk[f])
  <2>1. /\ disk[f] # 0 /\ opened[f] = Closed /\ f \notin ToSet(order)
        /\ ~(step = "close" /\ change.file = f) /\ LastOf(wire, f) = Closed
    BY <1>1, <1>2, <1>7 DEF EnsureOpened, Open
  <2>2. /\ doc \in Docs /\ doc.text = disk[f]
        /\ m \in Frames /\ m.op = "open" /\ m.op # "ask" /\ m.who = {} /\ m.file = f /\ m.doc = doc
    BY <1>1, FramesAre DEF DidOpen, Frame, Doc
  <2>3. CASE Len(order) >= MaxOpen
    <3>1. /\ opened' = [opened EXCEPT ![f] = doc, ![old] = Closed]
          /\ wire' = wire \o <<DidClose(old), m>>
      BY <1>7, <2>3 DEF EnsureOpened
    <3>2. old \in Files /\ old # f /\ opened[old] # Closed
      <4>1. order # <<>>
        BY <1>1, <2>3, OpenDocsAssumption
      <4>2. old \in ToSet(order)
        BY <1>1, <4>1, TailOrder
      <4> HIDE DEF old
      <4> QED
        BY <1>1, <2>1, <4>2
    <3> DEFINE n == DidClose(old)
    <3>3. n \in Frames /\ n.op = "close" /\ n.op # "ask" /\ n.who = {} /\ n.file = old /\ n.doc = Closed
      BY <3>2, FramesAre DEF DidClose, Frame
    <3> HIDE DEF m, doc
    <3>4. wire' = Append(Append(wire, n), m)
      BY <1>1, <2>2, <3>1, <3>3, SendTwo
    <3> HIDE DEF n, old
    <3> DEFINE v == Append(wire, n)
    <3>5. ~(step = "close" /\ change.file = old) /\ LastOf(wire, old) = opened[old]
      BY <1>2, <3>2
    <3>6. Fits(n, LastOf(wire, n.file))
      BY <3>2, <3>3, <3>5 DEF Fits
    <3>7. /\ v \in Seq(Frames) /\ InStep(v) /\ LastOf(v, old) = Closed /\ SameAsks(v, wire)
          /\ \A g : g # old => LastOf(v, g) = LastOf(wire, g)
      BY <1>1, <3>3, <3>6, SendDoc
    <3> HIDE DEF v
    <3>8. Fits(m, LastOf(v, m.file))
      BY <2>1, <2>2, <3>2, <3>7 DEF Fits
    <3>9. wire' = Append(v, m)
      BY <3>4 DEF v
    <3>10. /\ InStep(wire') /\ LastOf(wire', f) = doc /\ SameAsks(wire', v)
           /\ \A g : g # f => LastOf(wire', g) = LastOf(v, g)
      BY <2>2, <3>7, <3>8, <3>9, SendDoc
    <3>11. SameAsks(wire', wire)
      BY <3>7, <3>10, SameAsksAgain
    <3>12. SessionAfter(wire', opened')
      <4> SUFFICES ASSUME NEW g \in Files
                   PROVE  IF step = "close" /\ change.file = g
                          THEN opened'[g] = Closed /\ LastOf(wire', g) # Closed
                          ELSE LastOf(wire', g) = opened'[g]
        BY DEF SessionAfter
      <4>1. CASE g = f
        BY <1>1, <2>1, <3>1, <3>2, <3>10, <4>1
      <4>2. CASE g = old
        BY <1>1, <3>1, <3>2, <3>5, <3>7, <3>10, <4>2
      <4>3. CASE g # f /\ g # old
        BY <1>1, <1>2, <3>1, <3>7, <3>10, <4>3
      <4> QED
        BY <4>1, <4>2, <4>3
    <3>13. \A g \in Files : g = f \/ LastOf(wire', g) = LastOf(wire, g) \/ LastOf(wire', g) = Closed
      BY <3>7, <3>10
    <3> QED
      BY <2>1, <2>2, <3>10, <3>11, <3>12, <3>13 DEF EnsureCopies
  <2>4. CASE ~(Len(order) >= MaxOpen)
    <3>1. opened' = [opened EXCEPT ![f] = doc] /\ wire' = Append(wire, m)
      BY <1>7, <2>4 DEF EnsureOpened
    <3> HIDE DEF m, doc
    <3>2. Fits(m, LastOf(wire, m.file))
      BY <2>1, <2>2 DEF Fits
    <3>3. /\ InStep(wire') /\ LastOf(wire', f) = doc /\ SameAsks(wire', wire)
          /\ \A g : g # f => LastOf(wire', g) = LastOf(wire, g)
      BY <1>1, <2>2, <3>1, <3>2, SendDoc
    <3>4. SessionAfter(wire', opened')
      BY <1>1, <1>2, <2>1, <3>1, <3>3 DEF SessionAfter
    <3> QED
      BY <2>1, <2>2, <3>3, <3>4 DEF EnsureCopies
  <2> QED
    BY <2>3, <2>4
<1> QED
  BY <1>5, <1>6, <1>7 DEF EnsureOpen

-----------------------------------------------------------------------------
(* Types, texts and queries on their way, in every step. *)

\* What a change, a query and the reindex thread can be.
Kinds == {"none", "created", "changed", "deleted"}
Stages == {"idle", "sync", "ask", "wait", "answered"}

\* What the session and the queue have to satisfy of Shape.
DocsShape ==
    /\ opened \in [Files -> Docs] /\ order \in Seq(Files)
    /\ ToSet(order) = {f \in Files : opened[f] # Closed}
    /\ IsInjective(order) /\ Len(order) <= MaxOpen
    /\ wire \in Seq(Frames) /\ buffers \in [Files -> Docs]
    /\ AsksOnce(wire)

\* The rest of it.
RestShape ==
    /\ disk \in [Files -> Nat] /\ clock \in Nat
    /\ due \in [Files -> {"none", "created", "changed", "deleted"}]
    /\ batch \in [Files -> {"none", "created", "changed", "deleted"}]
    /\ stage \in [Queries -> {"idle", "sync", "ask", "wait", "answered"}]
    /\ file \in [Queries -> Files \cup {NoFile}]
    /\ since \in [Queries -> Nat] /\ answer \in [Queries -> Nat]
    /\ step \in {"idle", "remove", "close", "check", "sync", "read", "announce"}
    /\ change.file \in Files \/ (change.file = NoFile /\ step = "idle")
    /\ read \in Nat /\ crossed \in BOOLEAN
    /\ TextsInOrder

Shape == DocsShape /\ RestShape

\* The parts make the whole.
LEMMA ShapeHasTypes == Shape => DocsTypeOK /\ TextsInOrder /\ AsksOnce(wire)
<1> SUFFICES ASSUME DocsShape, RestShape
             PROVE  DocsTypeOK /\ TextsInOrder /\ AsksOnce(wire)
  BY DEF Shape
<1>1. {due, batch} \subseteq [Files -> {"none", "created", "changed", "deleted"}]
  BY DEF RestShape
<1> QED
  BY <1>1 DEF DocsShape, RestShape, DocsTypeOK, Open

\* A step that leaves the session, the queue and who waits in it alone.
LEMMA DocsShapeQuiet ==
  ASSUME DocsShape, UNCHANGED <<opened, order, wire, buffers>>,
         \A t \in Queries : stage[t] = "wait" => stage'[t] = "wait" /\ file'[t] = file[t],
         wire \in Seq(Frames)
  PROVE  DocsShape'
<1>1. \A j \in DOMAIN wire : wire[j].who \subseteq Queries
  <2>1. \A j \in 1 .. Len(wire) : wire[j] \in Frames
    OBVIOUS
  <2> QED
    BY <2>1, LenProperties DEF Frames
<1>2. AsksOnce(wire)'
  BY <1>1 DEF DocsShape, AsksOnce
<1> QED
  BY <1>2 DEF DocsShape

\* At first nothing is open.
LEMMA ShapeInit == DocsInit => Shape
<1> SUFFICES ASSUME DocsInit
             PROVE  Shape
  OBVIOUS
<1>1. Closed \in Docs
  BY DEF Closed, Doc, Docs
<1>2. /\ opened \in [Files -> Docs] /\ buffers \in [Files -> Docs]
      /\ \A f \in Files : opened[f] = Closed
      /\ order = <<>> /\ wire = <<>>
  BY <1>1 DEF DocsInit
<1>3. /\ order \in Seq(Files) /\ wire \in Seq(Frames) /\ Len(order) = 0
      /\ DOMAIN order = {} /\ DOMAIN wire = {}
  BY <1>2
<1>4. ToSet(order) = {f \in Files : opened[f] # Closed} /\ IsInjective(order)
  BY <1>2, <1>3 DEF ToSet, IsInjective
<1>5. DocsShape
  BY <1>2, <1>3, <1>4, OpenDocsAssumption DEF DocsShape, AsksOnce
<1>6. TextsInOrder
  BY DEF DocsInit, TextsInOrder
<1>7. disk \in [Files -> Nat] /\ due \in [Files -> Kinds] /\ batch \in [Files -> Kinds]
  BY DEF DocsInit, Kinds
<1>8. RestShape
  BY <1>6, <1>7 DEF DocsInit, RestShape, Kinds
<1> QED
  BY <1>5, <1>8 DEF Shape

\* The first frame is handled.
LEMMA ServeShape ==
  ASSUME DocsShape, RestShape, Serve
  PROVE  DocsShape' /\ RestShape'
<1> DEFINE m == Head(wire)
<1>1. /\ wire \in Seq(Frames) /\ wire # <<>> /\ wire' = Tail(wire)
      /\ wire' \in Seq(Frames) /\ Len(wire') = Len(wire) - 1 /\ Len(wire) \in Nat \ {0}
      /\ \A k \in 1 .. Len(wire) - 1 : wire'[k] = wire[k + 1]
      /\ m = wire[1] /\ m \in Frames
      /\ DOMAIN wire = 1 .. Len(wire) /\ DOMAIN wire' = 1 .. Len(wire) - 1
  BY HeadTailProperties, LenProperties DEF DocsShape, Serve
<1>2. /\ UNCHANGED <<diskVars, due, openVars, file, since, indexVars, crossed>>
      /\ buffers' = Handled(buffers, m)
      /\ stage' = [t \in Queries |-> IF t \in m.who THEN "answered" ELSE stage[t]]
      /\ \E x \in Nat : answer' = [t \in Queries |-> IF t \in m.who THEN x ELSE answer[t]]
  <2>1. clock \in Nat /\ \A f \in Files : buffers[f].text \in Nat
    BY DEF DocsShape, RestShape, Docs
  <2>2. m.file \in Files
    BY <1>1 DEF Frames
  <2> QED
    BY <2>1, <2>2 DEF Serve
<1> HIDE DEF m
<1>3. buffers' \in [Files -> Docs]
  BY <1>1, <1>2 DEF DocsShape, Handled, Frames
<1>4. AsksOnce(wire)'
  <2> SUFFICES ASSUME NEW j \in DOMAIN wire', NEW t \in wire'[j].who
               PROVE  /\ wire'[j].op = "ask" /\ stage'[t] = "wait" /\ file'[t] = wire'[j].file
                      /\ \A k \in DOMAIN wire' : t \in wire'[k].who => k = j
    BY DEF AsksOnce
  <2>1. j + 1 \in DOMAIN wire /\ wire'[j] = wire[j + 1] /\ 1 \in DOMAIN wire /\ j + 1 # 1
    BY <1>1
  <2>2. /\ wire[j + 1].op = "ask" /\ stage[t] = "wait" /\ file[t] = wire[j + 1].file
        /\ \A k \in DOMAIN wire : t \in wire[k].who => k = j + 1
    BY <2>1 DEF DocsShape, AsksOnce
  <2>3. t \notin m.who
    BY <1>1, <2>1, <2>2
  <2>4. wire[j + 1] \in Frames
    BY <1>1, <2>1
  <2>5. t \in Queries
    BY <2>1, <2>4 DEF Frames
  <2>6. ASSUME NEW k \in DOMAIN wire', t \in wire'[k].who
        PROVE  k = j
    <3>1. k + 1 \in DOMAIN wire /\ wire'[k] = wire[k + 1]
      BY <1>1
    <3>2. k + 1 = j + 1
      BY <2>2, <2>6, <3>1
    <3> QED
      BY <1>1, <3>2
  <2> QED
    BY <1>2, <2>1, <2>2, <2>3, <2>5, <2>6
<1>5. DocsShape'
  BY <1>1, <1>2, <1>3, <1>4 DEF DocsShape, openVars
<1>6. stage' \in [Queries -> Stages] /\ answer' \in [Queries -> Nat]
  BY <1>2 DEF RestShape, Stages
<1>7. TextsInOrder'
  BY <1>2 DEF RestShape, TextsInOrder, diskVars
<1>8. RestShape'
  BY <1>2, <1>6, <1>7 DEF RestShape, diskVars, indexVars, Stages
<1> QED
  BY <1>5, <1>8

\* The query goes on its way.
LEMMA SendShape ==
  ASSUME DocsShape, RestShape, NEW t \in Queries, Send(t)
  PROVE  DocsShape' /\ RestShape'
<1> DEFINE m == [Frame("ask", file[t], Closed) EXCEPT !.who = {t}]
<1>1. /\ stage[t] = "ask" /\ stage' = [stage EXCEPT ![t] = "wait"] /\ wire' = Append(wire, m)
      /\ UNCHANGED <<diskVars, due, openVars, buffers, file, since, answer, indexVars, crossed>>
      /\ stage \in [Queries -> Stages]
  BY DEF Send, RestShape, Stages
<1>2. file[t] \in Files
  BY <1>1 DEF RestShape, TextsInOrder
<1>3. m \in Frames /\ m.op = "ask" /\ m.file = file[t] /\ m.who = {t}
  BY <1>2, FramesAre DEF Frame
<1> HIDE DEF m
<1>4. /\ wire \in Seq(Frames) /\ wire' \in Seq(Frames) /\ Len(wire') = Len(wire) + 1 /\ Len(wire) \in Nat
      /\ \A k \in 1 .. Len(wire) : wire'[k] = wire[k] /\ wire[k] \in Frames
      /\ wire'[Len(wire) + 1] = m
      /\ DOMAIN wire = 1 .. Len(wire) /\ DOMAIN wire' = 1 .. Len(wire) + 1
  BY <1>1, <1>3, AppendProperties, LenProperties DEF DocsShape
<1>5. \A k \in DOMAIN wire : t \notin wire[k].who
  BY <1>1 DEF DocsShape, AsksOnce
<1>6. AsksOnce(wire)'
  <2> SUFFICES ASSUME NEW j \in DOMAIN wire', NEW u \in wire'[j].who
               PROVE  /\ wire'[j].op = "ask" /\ stage'[u] = "wait" /\ file'[u] = wire'[j].file
                      /\ \A k \in DOMAIN wire' : u \in wire'[k].who => k = j
    BY DEF AsksOnce
  <2>1. CASE j \in DOMAIN wire
    <3>1. /\ wire[j].op = "ask" /\ stage[u] = "wait" /\ file[u] = wire[j].file /\ u \in Queries
          /\ \A k \in DOMAIN wire : u \in wire[k].who => k = j
      BY <1>4, <2>1 DEF DocsShape, AsksOnce, Frames
    <3>2. u # t
      BY <1>1, <3>1
    <3> QED
      BY <1>1, <1>3, <1>4, <2>1, <3>1, <3>2
  <2>2. CASE j = Len(wire) + 1
    <3>1. u = t /\ wire'[j] = m
      BY <1>3, <1>4, <2>2
    <3>2. \A k \in DOMAIN wire' : u \in wire'[k].who => k = j
      BY <1>4, <1>5, <2>2, <3>1
    <3> QED
      BY <1>1, <1>3, <3>1, <3>2
  <2> QED
    BY <1>4, <2>1, <2>2
<1>7. DocsShape'
  BY <1>1, <1>4, <1>6 DEF DocsShape, openVars
<1>8. TextsInOrder'
  BY <1>1 DEF RestShape, TextsInOrder, diskVars, Stages
<1>9. RestShape'
  BY <1>1, <1>8 DEF RestShape, diskVars, indexVars, Stages
<1> QED
  BY <1>7, <1>9

\* The disk and the steps of a query that send nothing.
LEMMA QueryShape ==
  ASSUME DocsShape, RestShape,
         \/ \E f \in Files : Edit(f) \/ \E t \in Queries : Ask(t, f)
         \/ \E t \in Queries : TakeAnswer(t)
  PROVE  DocsShape' /\ RestShape'
<1>0. wire \in Seq(Frames)
  BY DEF DocsShape
<1>1. ASSUME NEW f \in Files, Edit(f)
      PROVE  DocsShape' /\ RestShape'
  <2>1. PICK text \in {0, clock'} \ {disk[f]} :
          /\ clock' = clock + 1 /\ disk' = [disk EXCEPT ![f] = text]
          /\ due' = [due EXCEPT ![f] =
                       Coalesced(@, IF text = 0 THEN "deleted"
                                    ELSE IF disk[f] = 0 THEN "created" ELSE "changed")]
    BY <1>1 DEF Edit
  <2>2. UNCHANGED <<openVars, wire, buffers, queryVars, indexVars, crossed>>
    BY <1>1 DEF Edit
  <2>3. DocsShape'
    BY <1>0, <2>2, DocsShapeQuiet DEF openVars, queryVars
  <2>4. due' \in [Files -> Kinds]
    BY <2>1 DEF RestShape, Coalesced, Kinds
  <2>5. clock \in Nat /\ clock' \in Nat /\ disk' \in [Files -> Nat]
    BY <2>1 DEF RestShape
  <2>6. \A g \in Files : disk'[g] <= clock' /\ (disk'[g] = disk[g] \/ disk'[g] = 0 \/ disk'[g] = clock')
    BY <2>1, <2>5 DEF RestShape, TextsInOrder
  <2>7. TextsInOrder'
    BY <2>1, <2>2, <2>5, <2>6 DEF RestShape, TextsInOrder, queryVars
  <2>8. RestShape'
    BY <2>2, <2>4, <2>5, <2>7 DEF RestShape, queryVars, indexVars, Kinds
  <2> QED
    BY <2>3, <2>8
<1>2. ASSUME NEW f \in Files, NEW t \in Queries, Ask(t, f)
      PROVE  DocsShape' /\ RestShape'
  <2>1. DocsShape'
    BY <1>0, <1>2, DocsShapeQuiet DEF Ask, openVars, RestShape
  <2>2. TextsInOrder'
    BY <1>2 DEF Ask, RestShape, TextsInOrder, diskVars
  <2>3. /\ stage' \in [Queries -> Stages] /\ file' \in [Queries -> Files \cup {NoFile}]
        /\ since' \in [Queries -> Nat]
    BY <1>2 DEF Ask, RestShape, Stages
  <2> QED
    BY <1>2, <2>1, <2>2, <2>3 DEF Ask, RestShape, diskVars, indexVars, Stages
<1>3. ASSUME NEW t \in Queries, TakeAnswer(t)
      PROVE  DocsShape' /\ RestShape'
  <2>1. DocsShape'
    BY <1>0, <1>3, DocsShapeQuiet DEF TakeAnswer, openVars, RestShape
  <2>2. TextsInOrder'
    BY <1>3 DEF TakeAnswer, RestShape, TextsInOrder, diskVars
  <2>3. /\ stage' \in [Queries -> Stages] /\ file' \in [Queries -> Files \cup {NoFile}]
        /\ since' \in [Queries -> Nat] /\ answer' \in [Queries -> Nat]
    BY <1>3 DEF TakeAnswer, RestShape, Stages
  <2> QED
    BY <1>3, <2>1, <2>2, <2>3 DEF TakeAnswer, RestShape, diskVars, indexVars, Stages
<1> QED
  BY <1>1, <1>2, <1>3

\* A step in which ensure_open is called for f.
LEMMA EnsureShape ==
  ASSUME DocsShape, RestShape, NEW f \in Files, EnsureOpen(f),
         UNCHANGED <<diskVars, due, buffers, file, answer>>,
         \/ stage' = stage
         \/ /\ stage' \in [Queries -> {"idle", "sync", "ask", "wait", "answered"}]
            /\ \A t \in Queries : stage'[t] # stage[t] => stage[t] = "sync" /\ stage'[t] \in {"idle", "ask"},
         batch' = batch /\ read' = read /\ change' = change,
         step' = step \/ (step' = "idle" /\ step = "sync"),
         crossed' \in BOOLEAN
  PROVE  DocsShape' /\ RestShape'
<1>1. DocsTypeOK /\ AsksOnce(wire)
  BY ShapeHasTypes DEF Shape
<1>2. EnsureTypes(f)
  BY <1>1, EnsureOpenTypes
<1>3. \A j \in DOMAIN wire' : wire'[j].who \subseteq Queries
  <2>1. \A j \in 1 .. Len(wire') : wire'[j] \in Frames
    BY <1>2 DEF EnsureTypes
  <2>2. DOMAIN wire' = 1 .. Len(wire')
    BY <1>2, LenProperties DEF EnsureTypes
  <2> QED
    BY <2>1, <2>2 DEF Frames
<1>4. AsksOnce(wire)'
  <2>1. \A t \in Queries : stage[t] = "wait" => stage'[t] = "wait"
    OBVIOUS
  <2> QED
    BY <1>2, <1>3, <2>1 DEF EnsureTypes, AsksOnce
<1>5. DocsShape'
  BY <1>2, <1>4 DEF EnsureTypes, DocsShape
<1>6. TextsInOrder'
  <2>1. \A t \in Queries : since'[t] <= since[t] /\ since'[t] \in Nat /\ since[t] \in Nat
    <3>1. \A t \in Queries : since'[t] \in Nat /\ since[t] \in Nat /\ (since'[t] = since[t] \/ since'[t] = 0)
      BY <1>2 DEF EnsureTypes, RestShape
    <3> QED
      BY <3>1
  <2>2. \A t \in Queries : stage'[t] \in {"sync", "ask", "wait"} => stage[t] \in {"sync", "ask", "wait"}
    OBVIOUS
  <2>3. \A g \in Files : disk[g] \in Nat
    BY DEF RestShape
  <2>4. disk' = disk /\ clock' = clock /\ file' = file /\ clock \in Nat
    BY DEF diskVars, RestShape
  <2>5. /\ \A g \in Files : disk[g] <= clock
        /\ \A t \in Queries : since[t] <= clock
        /\ \A t \in Queries : stage[t] \in {"sync", "ask", "wait"} =>
              file[t] \in Files /\ (disk[file[t]] = 0 \/ since[t] <= disk[file[t]])
    BY DEF RestShape, TextsInOrder
  <2>6. \A t \in Queries : since'[t] <= clock
    BY <2>1, <2>4, <2>5
  <2>7. ASSUME NEW t \in Queries, stage'[t] \in {"sync", "ask", "wait"}
        PROVE  file[t] \in Files /\ (disk[file[t]] = 0 \/ since'[t] <= disk[file[t]])
    BY <2>1, <2>2, <2>3, <2>5, <2>7
  <2> QED
    BY <2>4, <2>5, <2>6, <2>7 DEF TextsInOrder
<1>7. RestShape'
  BY <1>2, <1>6 DEF EnsureTypes, RestShape, diskVars
<1> QED
  BY <1>5, <1>7

\* The steps of files_changed.
LEMMA ChangesShape ==
  ASSUME DocsShape, RestShape, Changes
  PROVE  DocsShape' /\ RestShape'
<1>0. wire \in Seq(Frames)
  BY DEF DocsShape
<1>1. CASE Called
  <2>1. DocsShape'
    BY <1>0, <1>1, DocsShapeQuiet DEF Called, openVars, queryVars
  <2>2. TextsInOrder'
    BY <1>1 DEF Called, RestShape, TextsInOrder, diskVars, queryVars
  <2> QED
    BY <1>1, <2>1, <2>2 DEF Called, RestShape, diskVars, queryVars
<1>2. ASSUME NEW f \in Files, Take(f)
      PROVE  DocsShape' /\ RestShape'
  <2>1. DocsShape'
    BY <1>0, <1>2, DocsShapeQuiet DEF Take, openVars, queryVars
  <2>2. TextsInOrder'
    BY <1>2 DEF Take, RestShape, TextsInOrder, diskVars, queryVars
  <2>3. change'.file = f
    BY <1>2 DEF Take
  <2> QED
    BY <1>2, <2>1, <2>2, <2>3 DEF Take, RestShape, diskVars, queryVars
<1>3. CASE Release
  <2> DEFINE f == change.file
  <2> DEFINE r == RemoveFirst(order, f)
  <2>1. /\ f \in Files /\ opened' = [opened EXCEPT ![f] = Closed] /\ order' = r
        /\ UNCHANGED <<diskVars, due, wire, buffers, queryVars, batch, change, read, crossed>>
        /\ step' \in {"close", "idle"}
    BY <1>3 DEF Release, RestShape
  <2>2. /\ r \in Seq(Files) /\ IsInjective(r) /\ ToSet(r) = ToSet(order) \ {f} /\ Len(r) <= Len(order)
    BY RemovedOrder DEF DocsShape
  <2> HIDE DEF r, f
  <2>3. /\ opened' \in [Files -> Docs] /\ order' \in Seq(Files)
        /\ ToSet(order') = {g \in Files : opened'[g] # Closed}
        /\ IsInjective(order') /\ Len(order') <= MaxOpen
    <3>1. Len(order) \in Nat /\ Len(r) \in Nat
      BY <2>2, LenProperties DEF DocsShape
    <3> QED
      BY <2>1, <2>2, <3>1, FramesAre, OpenDocsAssumption DEF DocsShape
  <2>4. AsksOnce(wire)'
    BY <2>1 DEF DocsShape, AsksOnce, queryVars
  <2>5. DocsShape'
    BY <2>1, <2>3, <2>4 DEF DocsShape
  <2>6. TextsInOrder'
    BY <2>1 DEF RestShape, TextsInOrder, diskVars, queryVars
  <2> QED
    BY <2>1, <2>5, <2>6 DEF RestShape, diskVars, queryVars, f
<1>4. ASSUME NEW w, w \in Seq(Frames), AsksOnce(w), wire' = w, step' = "idle", read' \in Nat,
             UNCHANGED <<diskVars, due, openVars, buffers, queryVars, batch, change, crossed>>
      PROVE  DocsShape' /\ RestShape'
  <2>1. AsksOnce(wire)'
    BY <1>4 DEF AsksOnce, queryVars
  <2>2. DocsShape'
    BY <1>4, <2>1 DEF DocsShape, openVars
  <2>3. TextsInOrder'
    BY <1>4 DEF RestShape, TextsInOrder, diskVars, queryVars
  <2> QED
    BY <1>4, <2>2, <2>3 DEF RestShape, diskVars, queryVars
<1>5. CASE SendClose
  <2> DEFINE m == DidClose(change.file)
  <2>1. /\ wire' = Append(wire, m) /\ step' = "idle" /\ change.file \in Files
        /\ UNCHANGED <<diskVars, due, openVars, buffers, queryVars, batch, change, read, crossed>>
    BY <1>5 DEF SendClose, RestShape
  <2>2. m \in Frames /\ m.op # "ask" /\ m.who = {}
    BY <2>1, FramesAre DEF DidClose, Frame
  <2> HIDE DEF m
  <2>3. wire' \in Seq(Frames) /\ AsksOnce(wire')
    BY <2>1, <2>2, SendDoc DEF DocsShape
  <2> QED
    BY <1>4, <2>1, <2>3 DEF RestShape
<1>6. CASE Check \/ Read
  <2>1. DocsShape'
    BY <1>0, <1>6, DocsShapeQuiet DEF Check, Read, openVars, queryVars
  <2>2. TextsInOrder'
    BY <1>6 DEF Check, Read, RestShape, TextsInOrder, diskVars, queryVars
  <2>3. read' \in Nat
    BY <1>6 DEF Check, Read, RestShape
  <2>4. change' = change /\ step' \in {"idle", "sync", "read", "announce"} /\ change.file \in Files
    BY <1>6 DEF Check, Read, RestShape
  <2>5. UNCHANGED <<disk, clock, due, batch, stage, file, since, answer, crossed>>
    BY <1>6 DEF Check, Read, diskVars, queryVars
  <2> QED
    BY <2>1, <2>2, <2>3, <2>4, <2>5 DEF RestShape
<1>7. CASE SyncChanged
  <2>1. change.file \in Files
    BY <1>7 DEF SyncChanged, RestShape
  <2>2. /\ EnsureOpen(change.file) /\ step = "sync" /\ step' = "idle"
        /\ UNCHANGED <<diskVars, due, buffers, stage, file, answer, batch, change, read, crossed>>
    BY <1>7 DEF SyncChanged
  <2>3. crossed' \in BOOLEAN
    BY <2>2 DEF RestShape
  <2> QED
    BY <2>1, <2>2, <2>3, EnsureShape
<1>8. CASE Announce
  <2> DEFINE m == DidOpen(change.file, read)
  <2> DEFINE n == DidClose(change.file)
  <2>1. /\ change.file \in Files /\ step' = "idle" /\ read' = 0
        /\ wire' = wire \/ wire' = wire \o <<m, n>>
        /\ UNCHANGED <<diskVars, due, openVars, buffers, queryVars, batch, change, crossed>>
    BY <1>8 DEF Announce, RestShape
  <2>2. /\ m \in Frames /\ m.op # "ask" /\ m.who = {}
        /\ n \in Frames /\ n.op # "ask" /\ n.who = {}
    BY <2>1, FramesAre DEF DidClose, DidOpen, Frame, RestShape
  <2> HIDE DEF m, n
  <2>3. wire \o <<m, n>> = Append(Append(wire, m), n)
    BY <1>0, <2>2, SendTwo
  <2> DEFINE v == Append(wire, m)
  <2>4. v \in Seq(Frames) /\ AsksOnce(v)
    BY <2>2, SendDoc DEF DocsShape
  <2> HIDE DEF v
  <2>5. Append(v, n) \in Seq(Frames) /\ AsksOnce(Append(v, n))
    BY <2>2, <2>4, SendDoc
  <2>6. wire' \in Seq(Frames) /\ AsksOnce(wire')
    BY <2>1, <2>3, <2>5 DEF DocsShape, v
  <2> QED
    BY <1>4, <2>1, <2>6
<1> QED
  BY <1>1, <1>2, <1>3, <1>5, <1>6, <1>7, <1>8 DEF Changes

\* Every step keeps the shape.
LEMMA ShapeStep ==
  ASSUME Shape, [DocsNext]_docsVars
  PROVE  Shape'
<1>0. DocsShape /\ RestShape
  BY DEF Shape
<1>1. CASE UNCHANGED docsVars
  BY <1>1 DEF docsVars, diskVars, openVars, queryVars, indexVars, Shape, DocsShape, RestShape,
     TextsInOrder, AsksOnce
<1>2. CASE \E f \in Files : Edit(f) \/ (\E t \in Queries : Ask(t, f))
  BY <1>0, <1>2, QueryShape DEF Shape
<1>3. ASSUME NEW t \in Queries, Query(t)
      PROVE  Shape'
  <2>1. CASE Sync(t)
    <3>1. /\ stage[t] = "sync" /\ EnsureOpen(file[t])
          /\ stage' = [stage EXCEPT ![t] = IF disk[file[t]] = 0 THEN "idle" ELSE "ask"]
          /\ crossed' = (crossed \/ (step = "close" /\ change.file = file[t] /\ disk[file[t]] # 0))
          /\ UNCHANGED <<diskVars, due, buffers, file, answer, indexVars>>
      BY <2>1 DEF Sync
    <3>2. file[t] \in Files
      BY <1>0, <3>1 DEF RestShape, TextsInOrder
    <3>3. /\ stage' \in [Queries -> {"idle", "sync", "ask", "wait", "answered"}]
          /\ \A u \in Queries : stage'[u] # stage[u] => stage[u] = "sync" /\ stage'[u] \in {"idle", "ask"}
      BY <1>0, <3>1 DEF RestShape
    <3>4. crossed' \in BOOLEAN
      BY <3>1
    <3>5. batch' = batch /\ read' = read /\ change' = change /\ step' = step
      BY <3>1 DEF indexVars
    <3>6. UNCHANGED <<diskVars, due, buffers, file, answer>>
      BY <3>1
    <3> QED
      BY <1>0, <3>1, <3>2, <3>3, <3>4, <3>5, <3>6, EnsureShape DEF Shape
  <2>2. CASE Send(t)
    BY <1>0, <2>2, SendShape DEF Shape
  <2>3. CASE TakeAnswer(t)
    BY <1>0, <2>3, QueryShape DEF Shape
  <2> QED
    BY <1>3, <2>1, <2>2, <2>3 DEF Query
<1>4. CASE Changes
  BY <1>0, <1>4, ChangesShape DEF Shape
<1>5. CASE Serve
  BY <1>0, <1>5, ServeShape DEF Shape
<1> QED
  BY <1>1, <1>2, <1>3, <1>4, <1>5 DEF DocsNext

-----------------------------------------------------------------------------
(* What the server makes of the frames, in every step. *)

Synced == InStep(wire) /\ Session /\ Fresh

\* At first the server has no copy, and the session knows of none.
LEMMA SyncedInit == DocsInit => Synced
<1> SUFFICES ASSUME DocsInit
             PROVE  Synced
  OBVIOUS
<1>1. wire = <<>> /\ Len(wire) = 0 /\ DOMAIN wire = {} /\ step = "idle"
  BY DEF DocsInit
<1>2. \A f \in Files : opened[f] = Closed /\ LastCopy(f) = Closed
  BY <1>1, CopyFirst DEF DocsInit, LastCopy
<1>3. Fresh /\ Session /\ InStep(wire)
  BY <1>1, <1>2 DEF DocsInit, Fresh, Session, InStep
<1> QED
  BY <1>3 DEF Synced

\* Frames are typed.
LEMMA FrameTypes ==
  ASSUME DocsShape
  PROVE  /\ DOMAIN wire = 1 .. Len(wire) /\ Len(wire) \in Nat
         /\ \A j \in DOMAIN wire : wire[j] \in Frames /\ wire[j].file \in Files /\ wire[j].who \subseteq Queries
<1>1. wire \in Seq(Frames)
  BY DEF DocsShape
<1>2. DOMAIN wire = 1 .. Len(wire) /\ Len(wire) \in Nat /\ \A j \in 1 .. Len(wire) : wire[j] \in Frames
  BY <1>1, LenProperties
<1> QED
  BY <1>2 DEF Frames

\* An older query is content with what a newer one is.
LEMMA OlderContent ==
  ASSUME NEW copy, NEW x, NEW y, NotOlder(copy, x), x \in Nat, y = x \/ y = 0,
         copy = Closed \/ copy \in Docs
  PROVE  NotOlder(copy, y)
  BY DEF NotOlder, Docs

\* The copies are documents.
LEMMA CopyTypes ==
  ASSUME DocsShape, NEW f \in Files, NEW j \in 1 .. Len(wire) + 1
  PROVE  CopyAt(wire, buffers, f, j) \in Docs
<1>1. LastSet(wire, f, j) \in 0 .. j - 1
  <2>1. j \in Nat \ {0}
    BY FrameTypes
  <2> QED
    BY <2>1, LastSetIs
<1>2. CASE LastSet(wire, f, j) = 0
  BY <1>2 DEF CopyAt, DocsShape
<1>3. CASE LastSet(wire, f, j) # 0
  <2>1. LastSet(wire, f, j) \in DOMAIN wire
    BY <1>1, <1>3, FrameTypes
  <2> QED
    BY <1>3, <2>1, FrameTypes DEF CopyAt, Frames
<1> QED
  BY <1>2, <1>3

\* Queries keep finding what they would have found.
LEMMA FreshAsks ==
  ASSUME DocsShape, Fresh, buffers' = buffers, SameAsks(wire', wire), since \in [Queries -> Nat],
         \A t \in Queries : since'[t] = since[t] \/ since'[t] = 0 \/ stage[t] # "wait"
  PROVE  \A j \in DOMAIN wire' : \A t \in wire'[j].who :
           NotOlder(CopyAt(wire', buffers', wire'[j].file, j), since'[t])
<1> SUFFICES ASSUME NEW j \in DOMAIN wire', NEW t \in wire'[j].who
             PROVE  NotOlder(CopyAt(wire', buffers, wire'[j].file, j), since'[t])
  OBVIOUS
<1>1. /\ j \in DOMAIN wire /\ wire'[j] = wire[j]
      /\ CopyAt(wire', buffers, wire'[j].file, j) = CopyAt(wire, buffers, wire[j].file, j)
  BY DEF SameAsks
<1>2. t \in wire[j].who /\ t \in Queries /\ wire[j].file \in Files /\ j \in 1 .. Len(wire) + 1
  BY <1>1, FrameTypes
<1>3. stage[t] = "wait"
  BY <1>1, <1>2 DEF DocsShape, AsksOnce
<1>4. NotOlder(CopyAt(wire, buffers, wire[j].file, j), since[t])
  BY <1>1, <1>2 DEF Fresh
<1>5. CopyAt(wire, buffers, wire[j].file, j) \in Docs
  BY <1>2, CopyTypes
<1> QED
  BY <1>1, <1>2, <1>3, <1>4, <1>5, OlderContent

\* A step that sends nothing and leaves the session alone.
LEMMA SyncedQuiet ==
  ASSUME DocsShape, RestShape, Synced, UNCHANGED <<opened, wire, buffers>>,
         \/ step' = step /\ change' = change
         \/ step # "close" /\ step' # "close",
         \A t \in Queries :
           \/ stage'[t] \in {"idle", "sync"} /\ stage[t] # "wait"
           \/ stage'[t] = stage[t] /\ since'[t] = since[t] /\ file'[t] = file[t] /\ answer'[t] = answer[t]
  PROVE  Synced'
<1>1. \A f : LastCopy(f)' = LastCopy(f)
  BY DEF LastCopy, CopyAt, LastSet
<1>2. Session'
  BY <1>1 DEF Synced, Session
<1>3. InStep(wire)'
  BY DEF Synced, InStep
<1>4. SameAsks(wire', wire)
  BY DEF SameAsks
<1>5. since \in [Queries -> Nat]
  BY DEF RestShape
<1>6. \A j \in DOMAIN wire' : \A t \in wire'[j].who :
        NotOlder(CopyAt(wire', buffers', wire'[j].file, j), since'[t])
  BY <1>4, <1>5, FreshAsks DEF Synced
<1>7. Fresh'
  BY <1>1, <1>6 DEF Synced, Fresh
<1> QED
  BY <1>2, <1>3, <1>7 DEF Synced

\* ensure_open.
LEMMA SyncedEnsure ==
  ASSUME Shape, Synced, NEW f \in Files, EnsureOpen(f),
         step = "close" /\ change.file = f => disk[f] = 0,
         UNCHANGED <<buffers, file, answer, change>>,
         step' = step \/ (step' = "idle" /\ step = "sync"),
         \A t \in Queries :
           \/ stage'[t] = stage[t]
           \/ stage'[t] = "idle"
           \/ stage'[t] = "ask" /\ stage[t] = "sync" /\ file[t] = f /\ disk[f] # 0
  PROVE  Synced'
<1>1. DocsTypeOK /\ AsksOnce(wire) /\ TextsInOrder /\ DocsShape /\ RestShape
  BY ShapeHasTypes DEF Shape
<1>2. EnsureTypes(f)
  BY <1>1, EnsureOpenTypes
<1>3. EnsureCopies(f)
  BY <1>1, EnsureOpenCopies DEF Synced
<1>4. \A g : LastCopy(g)' = LastOf(wire', g)
  BY DEF LastCopy, LastOf
<1>5. Session'
  BY <1>3, <1>4 DEF EnsureCopies, SessionAfter, Session
<1>6. InStep(wire)'
  BY <1>3 DEF EnsureCopies, InStep
<1>7. since \in [Queries -> Nat] /\ \A t \in Queries : since'[t] = since[t] \/ since'[t] = 0
  BY <1>1, <1>2 DEF EnsureTypes, RestShape
<1>8. \A j \in DOMAIN wire' : \A t \in wire'[j].who :
        NotOlder(CopyAt(wire', buffers', wire'[j].file, j), since'[t])
  BY <1>1, <1>3, <1>7, FreshAsks DEF EnsureCopies, Synced
<1>9. ASSUME NEW t \in Queries, stage'[t] = "ask"
      PROVE  NotOlder(LastCopy(file[t])', since'[t])
  <2> DEFINE g == file[t]
  <2>1. /\ stage[t] \in {"sync", "ask"} /\ g \in Files /\ (disk[g] = 0 \/ since[t] <= disk[g])
        /\ disk[g] \in Nat
    BY <1>1, <1>9 DEF TextsInOrder, RestShape
  <2>2. \/ LastOf(wire', g) = LastOf(wire, g)
        \/ LastOf(wire', g) = Closed
        \/ LastOf(wire', g).text = disk[g] /\ disk[g] # 0
    BY <1>3, <2>1 DEF EnsureCopies
  <2>3. stage[t] = "sync" => LastOf(wire', g).text = disk[g] /\ disk[g] # 0
    BY <1>3, <1>9 DEF EnsureCopies
  <2>4. CASE LastOf(wire', g).text = disk[g] /\ disk[g] # 0
    <3>1. disk[g] >= since'[t]
      BY <1>7, <2>1, <2>4
    <3> QED
      BY <1>4, <2>4, <3>1 DEF NotOlder
  <2>5. CASE LastOf(wire', g) = LastOf(wire, g) /\ stage[t] = "ask"
    <3>1. NotOlder(LastOf(wire, g), since[t])
      BY <2>5 DEF Synced, Fresh, LastCopy, LastOf
    <3>2. LastOf(wire, g) \in Docs
      <4>1. Len(wire) + 1 \in 1 .. Len(wire) + 1
        BY <1>1, FrameTypes
      <4> QED
        BY <1>1, <2>1, <4>1, CopyTypes DEF LastOf
    <3>3. NotOlder(LastOf(wire, g), since'[t])
      BY <1>7, <3>1, <3>2, OlderContent
    <3> QED
      BY <1>4, <2>5, <3>3
  <2>6. CASE LastOf(wire', g) = Closed
    BY <1>4, <2>6 DEF NotOlder
  <2> QED
    BY <2>1, <2>2, <2>3, <2>4, <2>5, <2>6
<1>10. \A t \in Queries : stage'[t] = "answered" => answer'[t] >= since'[t]
  <2> SUFFICES ASSUME NEW t \in Queries, stage'[t] = "answered"
               PROVE  answer[t] >= since'[t]
    OBVIOUS
  <2>1. answer[t] >= since[t] /\ answer[t] \in Nat /\ since[t] \in Nat
    BY <1>1 DEF Synced, Fresh, RestShape
  <2> QED
    BY <1>7, <2>1
<1>11. Fresh'
  BY <1>8, <1>9, <1>10 DEF Fresh
<1> QED
  BY <1>5, <1>6, <1>11 DEF Synced

\* The server handles a frame.
LEMMA SyncedServe ==
  ASSUME DocsShape, RestShape, Synced, Serve
  PROVE  Synced'
<1> DEFINE m == Head(wire)
<1>1. /\ wire \in Seq(Frames) /\ wire # <<>> /\ wire' = Tail(wire)
      /\ Len(wire') = Len(wire) - 1 /\ Len(wire) \in Nat \ {0}
      /\ \A k \in 1 .. Len(wire) - 1 : wire'[k] = wire[k + 1]
      /\ m = wire[1] /\ m \in Frames
      /\ DOMAIN wire = 1 .. Len(wire) /\ DOMAIN wire' = 1 .. Len(wire) - 1
      /\ buffers \in [Files -> Docs]
  BY HeadTailProperties, LenProperties DEF DocsShape, Serve
<1>2. /\ UNCHANGED <<opened, file, since, step, change>>
      /\ buffers' = Handled(buffers, m)
      /\ stage' = [t \in Queries |-> IF t \in m.who THEN "answered" ELSE stage[t]]
      /\ answer' = [t \in Queries |->
                      IF t \in m.who THEN IF buffers[m.file] = Closed THEN clock ELSE buffers[m.file].text
                                     ELSE answer[t]]
  BY DEF Serve, openVars, indexVars
<1>3. ASSUME NEW f \in Files, NEW j \in 1 .. Len(wire)
      PROVE  CopyAt(wire', buffers', f, j) = CopyAt(wire, buffers, f, j + 1)
  BY <1>1, <1>2, CopyTail
<1> HIDE DEF m
<1>4. ASSUME NEW f \in Files
      PROVE  CopyAt(wire', buffers', f, Len(wire') + 1) = LastCopy(f)
  <2>1. Len(wire') + 1 = Len(wire) /\ Len(wire) \in 1 .. Len(wire)
    BY <1>1
  <2> QED
    BY <1>3, <2>1 DEF LastCopy
<1>5. Session'
  BY <1>2, <1>4 DEF Synced, Session, LastCopy
<1>6. ASSUME NEW j \in DOMAIN wire'
      PROVE  /\ j + 1 \in DOMAIN wire /\ wire'[j] = wire[j + 1] /\ wire[j + 1].file \in Files
             /\ CopyAt(wire', buffers', wire'[j].file, j) = CopyAt(wire, buffers, wire[j + 1].file, j + 1)
  <2>1. j + 1 \in DOMAIN wire /\ wire'[j] = wire[j + 1] /\ j \in 1 .. Len(wire)
    BY <1>1
  <2>2. wire[j + 1].file \in Files
    BY <2>1, FrameTypes
  <2> QED
    BY <1>3, <2>1, <2>2
<1>7. InStep(wire)'
  BY <1>6 DEF Synced, InStep
<1>8. \A j \in DOMAIN wire' : \A t \in wire'[j].who :
        NotOlder(CopyAt(wire', buffers', wire'[j].file, j), since'[t])
  BY <1>2, <1>6 DEF Synced, Fresh
<1>9. ASSUME NEW t \in Queries, stage'[t] = "ask"
      PROVE  NotOlder(CopyAt(wire', buffers', file'[t], Len(wire') + 1), since'[t])
  <2>1. stage[t] = "ask" /\ file[t] \in Files
    BY <1>2, <1>9 DEF RestShape, TextsInOrder
  <2>2. NotOlder(LastCopy(file[t]), since[t])
    BY <2>1 DEF Synced, Fresh
  <2>3. CopyAt(wire', buffers', file[t], Len(wire') + 1) = LastCopy(file[t])
    BY <1>4, <2>1
  <2> QED
    BY <1>2, <2>2, <2>3
<1>10. \A t \in Queries : stage'[t] = "answered" => answer'[t] >= since'[t]
  <2> SUFFICES ASSUME NEW t \in Queries, stage'[t] = "answered"
               PROVE  answer'[t] >= since[t]
    BY <1>2
  <2>1. CASE t \in m.who
    <3>1. 1 \in DOMAIN wire /\ t \in wire[1].who /\ m.file \in Files
      BY <1>1, <2>1, FrameTypes
    <3>2. NotOlder(CopyAt(wire, buffers, m.file, 1), since[t])
      BY <1>1, <3>1 DEF Synced, Fresh
    <3>3. NotOlder(buffers[m.file], since[t])
      BY <3>2, CopyFirst
    <3>4. clock >= since[t]
      BY DEF RestShape, TextsInOrder
    <3> QED
      BY <1>2, <2>1, <3>3, <3>4 DEF NotOlder
  <2>2. CASE t \notin m.who
    BY <1>2, <2>2 DEF Synced, Fresh
  <2> QED
    BY <2>1, <2>2
<1>11. Fresh'
  BY <1>8, <1>9, <1>10 DEF Fresh, LastCopy
<1> QED
  BY <1>5, <1>7, <1>11 DEF Synced

\* A query goes on its way.
LEMMA SyncedSend ==
  ASSUME DocsShape, RestShape, Synced, NEW t \in Queries, Send(t)
  PROVE  Synced'
<1> DEFINE m == [Frame("ask", file[t], Closed) EXCEPT !.who = {t}]
<1>1. /\ stage[t] = "ask" /\ stage' = [stage EXCEPT ![t] = "wait"] /\ wire' = Append(wire, m)
      /\ UNCHANGED <<opened, buffers, file, since, answer, step, change>>
      /\ stage \in [Queries -> Stages]
  BY DEF Send, RestShape, Stages, openVars, indexVars
<1>2. file[t] \in Files
  BY <1>1 DEF RestShape, TextsInOrder
<1>3. m \in Frames /\ m.op = "ask" /\ m.file = file[t] /\ m.who = {t}
  BY <1>2, FramesAre DEF Frame
<1> HIDE DEF m
<1>4. /\ wire \in Seq(Frames) /\ Len(wire') = Len(wire) + 1 /\ Len(wire) \in Nat
      /\ \A k \in 1 .. Len(wire) : wire'[k] = wire[k]
      /\ wire'[Len(wire) + 1] = m
      /\ DOMAIN wire = 1 .. Len(wire) /\ DOMAIN wire' = 1 .. Len(wire) + 1
  BY <1>1, <1>3, AppendProperties, LenProperties DEF DocsShape
<1>5. ASSUME NEW f, NEW j \in 1 .. Len(wire) + 1
      PROVE  CopyAt(wire', buffers', f, j) = CopyAt(wire, buffers, f, j)
  BY <1>1, <1>3, <1>4, CopyKept
<1>6. \A f : LastCopy(f)' = LastCopy(f)
  <2> SUFFICES ASSUME NEW f
               PROVE  CopyAt(wire', buffers', f, Len(wire') + 1) = CopyAt(wire, buffers, f, Len(wire) + 1)
    BY DEF LastCopy
  <2>1. ~Sets(m, f)
    BY <1>3 DEF Sets
  <2>2. CopyAt(Append(wire, m), buffers, f, Len(Append(wire, m)) + 1) = CopyAt(wire, buffers, f, Len(wire) + 1)
    BY <1>3, <1>4, <2>1, CopyAppend
  <2> QED
    BY <1>1, <2>2
<1>7. Session'
  BY <1>1, <1>6 DEF Synced, Session
<1>8. InStep(wire)'
  <2> SUFFICES ASSUME NEW j \in DOMAIN wire'
               PROVE  Fits(wire'[j], CopyAt(wire', buffers', wire'[j].file, j))
    BY DEF InStep
  <2>1. CASE j \in DOMAIN wire
    BY <1>4, <1>5, <2>1 DEF Synced, InStep
  <2>2. CASE j = Len(wire) + 1
    BY <1>3, <1>4, <2>2 DEF Fits
  <2> QED
    BY <1>4, <2>1, <2>2
<1>9. \A j \in DOMAIN wire' : \A u \in wire'[j].who :
        NotOlder(CopyAt(wire', buffers', wire'[j].file, j), since'[u])
  <2> SUFFICES ASSUME NEW j \in DOMAIN wire', NEW u \in wire'[j].who
               PROVE  NotOlder(CopyAt(wire', buffers', wire'[j].file, j), since[u])
    BY <1>1
  <2>1. CASE j \in DOMAIN wire
    BY <1>4, <1>5, <2>1 DEF Synced, Fresh
  <2>2. CASE j = Len(wire) + 1
    <3>1. u = t /\ wire'[j].file = file[t] /\ j \in 1 .. Len(wire) + 1
      BY <1>3, <1>4, <2>2
    <3>2. CopyAt(wire', buffers', file[t], j) = LastCopy(file[t])
      BY <1>5, <2>2, <3>1 DEF LastCopy
    <3>3. NotOlder(LastCopy(file[t]), since[t])
      BY <1>1 DEF Synced, Fresh
    <3> QED
      BY <3>1, <3>2, <3>3
  <2> QED
    BY <1>4, <2>1, <2>2
<1>10. Fresh'
  BY <1>1, <1>6, <1>9 DEF Synced, Fresh, Stages
<1> QED
  BY <1>7, <1>8, <1>10 DEF Synced

\* close_if_open's removal, and its didClose.
LEMMA SyncedClose ==
  ASSUME DocsShape, RestShape, Synced, Release \/ SendClose
  PROVE  Synced'
<1> DEFINE f == change.file
<1> DEFINE m == DidClose(f)
<1>1. /\ f \in Files /\ opened \in [Files -> Docs] /\ wire \in Seq(Frames)
      /\ step \in {"remove", "close"} /\ since \in [Queries -> Nat]
  BY DEF Release, SendClose, RestShape, DocsShape
<1>2. CASE Release
  <2>1. /\ UNCHANGED <<wire, buffers, stage, file, since, answer, change>>
        /\ opened' = [opened EXCEPT ![f] = Closed] /\ step' = IF opened[f] # Closed THEN "close" ELSE "idle"
        /\ step = "remove"
    BY <1>2 DEF Release, queryVars, Open
  <2>2. \A g : LastCopy(g)' = LastCopy(g)
    BY <2>1 DEF LastCopy, CopyAt, LastSet
  <2>3. \A g \in Files : LastCopy(g) = opened[g]
    BY <2>1 DEF Synced, Session
  <2>4. Session'
    BY <1>1, <2>1, <2>2, <2>3 DEF Session
  <2>5. InStep(wire)' /\ Fresh'
    BY <2>1, <2>2 DEF Synced, InStep, Fresh
  <2> QED
    BY <2>4, <2>5 DEF Synced
<1>3. CASE SendClose
  <2>1. /\ UNCHANGED <<opened, buffers, stage, file, since, answer, change>>
        /\ wire' = Append(wire, m) /\ step = "close" /\ step' = "idle"
    BY <1>3 DEF SendClose, queryVars, openVars
  <2>2. m \in Frames /\ m.op = "close" /\ m.op # "ask" /\ m.who = {} /\ m.file = f /\ m.doc = Closed
    BY <1>1, FramesAre DEF DidClose, Frame
  <2> HIDE DEF m
  <2>3. opened[f] = Closed /\ LastOf(wire, f) # Closed
    BY <1>1, <2>1 DEF Synced, Session, LastCopy, LastOf
  <2>4. /\ InStep(wire') /\ LastOf(wire', f) = Closed /\ SameAsks(wire', wire)
        /\ \A g : g # f => LastOf(wire', g) = LastOf(wire, g)
    BY <1>1, <2>1, <2>2, <2>3, SendDoc DEF Synced, Fits
  <2>5. \A g \in Files : g # f => LastOf(wire, g) = opened[g]
    BY <2>1 DEF Synced, Session, LastCopy, LastOf
  <2>6. \A g : LastCopy(g)' = LastOf(wire', g) /\ LastCopy(g) = LastOf(wire, g)
    BY <2>1 DEF LastCopy, LastOf
  <2>7. Session'
    BY <2>1, <2>3, <2>4, <2>5, <2>6 DEF Session
  <2>8. InStep(wire)'
    BY <2>1, <2>4 DEF InStep
  <2>9. \A j \in DOMAIN wire' : \A t \in wire'[j].who :
          NotOlder(CopyAt(wire', buffers', wire'[j].file, j), since'[t])
    BY <1>1, <2>1, <2>4, FreshAsks DEF Synced
  <2>10. Fresh'
    BY <2>1, <2>4, <2>6, <2>9 DEF Synced, Fresh, NotOlder
  <2> QED
    BY <2>7, <2>8, <2>10 DEF Synced
<1> QED
  BY <1>2, <1>3

\* announce_created: the document is opened and closed at once.
LEMMA SyncedAnnounce ==
  ASSUME DocsShape, RestShape, Synced, Announce
  PROVE  Synced'
<1> DEFINE f == change.file
<1> DEFINE m == DidOpen(f, read)
<1> DEFINE n == DidClose(f)
<1>1. /\ f \in Files /\ wire \in Seq(Frames) /\ read \in Nat
      /\ step = "announce" /\ step' = "idle" /\ since \in [Queries -> Nat]
      /\ UNCHANGED <<opened, buffers, stage, file, since, answer, change>>
      /\ wire' = IF opened[f] # Closed THEN wire ELSE wire \o <<m, n>>
  BY DEF Announce, RestShape, DocsShape, queryVars, openVars, Open
<1>2. CASE opened[f] # Closed
  <2>1. \A t \in Queries :
          stage'[t] = stage[t] /\ since'[t] = since[t] /\ file'[t] = file[t] /\ answer'[t] = answer[t]
    BY <1>1
  <2>2. UNCHANGED <<opened, wire, buffers>>
    BY <1>1, <1>2
  <2>3. step # "close" /\ step' # "close"
    BY <1>1
  <2> QED
    BY <2>1, <2>2, <2>3, SyncedQuiet
<1>3. CASE opened[f] = Closed
  <2>1. /\ m \in Frames /\ m.op = "open" /\ m.op # "ask" /\ m.who = {} /\ m.file = f /\ m.doc # Closed
    <3>1. m \in Frames
      BY <1>1, FramesAre
    <3>2. m.op = "open" /\ m.who = {} /\ m.file = f /\ m.doc = Doc(1, read)
      BY DEF DidOpen, Frame
    <3>3. Doc(1, read) # Closed
      BY DEF Doc, Closed
    <3> QED
      BY <3>1, <3>2, <3>3
  <2>2. /\ n \in Frames /\ n.op = "close" /\ n.op # "ask" /\ n.who = {} /\ n.file = f /\ n.doc = Closed
    BY <1>1, FramesAre DEF DidClose, Frame
  <2> HIDE DEF m, n
  <2>3. \A g \in Files : LastOf(wire, g) = opened[g]
    BY <1>1 DEF Synced, Session, LastCopy, LastOf
  <2> DEFINE v == Append(wire, m)
  <2>4. wire' = Append(v, n)
    BY <1>1, <1>3, <2>1, <2>2, SendTwo
  <2>5. Fits(m, LastOf(wire, m.file))
    BY <1>1, <1>3, <2>1, <2>3 DEF Fits
  <2>6. /\ v \in Seq(Frames) /\ InStep(v) /\ LastOf(v, f) # Closed /\ SameAsks(v, wire)
        /\ \A g : g # f => LastOf(v, g) = LastOf(wire, g)
    BY <1>1, <2>1, <2>5, SendDoc DEF Synced
  <2> HIDE DEF v
  <2>7. Fits(n, LastOf(v, n.file))
    BY <2>2, <2>6 DEF Fits
  <2>8. /\ InStep(wire') /\ LastOf(wire', f) = Closed /\ SameAsks(wire', v)
        /\ \A g : g # f => LastOf(wire', g) = LastOf(v, g)
    BY <2>2, <2>4, <2>6, <2>7, SendDoc
  <2>9. SameAsks(wire', wire)
    BY <2>6, <2>8, SameAsksAgain
  <2>10. \A g : LastCopy(g)' = LastOf(wire', g) /\ LastCopy(g) = LastOf(wire, g)
    BY <1>1 DEF LastCopy, LastOf
  <2>11. \A g \in Files : LastOf(wire', g) = LastOf(wire, g)
    BY <1>3, <2>3, <2>6, <2>8
  <2>12. Session'
    BY <1>1, <2>3, <2>10, <2>11 DEF Session
  <2>13. InStep(wire)'
    BY <1>1, <2>8 DEF InStep
  <2>14. \A j \in DOMAIN wire' : \A t \in wire'[j].who :
          NotOlder(CopyAt(wire', buffers', wire'[j].file, j), since'[t])
    BY <1>1, <2>9, FreshAsks DEF Synced
  <2>15. \A t \in Queries : stage[t] = "ask" => file[t] \in Files
    BY DEF RestShape, TextsInOrder
  <2>16. Fresh'
    BY <1>1, <2>10, <2>11, <2>14, <2>15 DEF Synced, Fresh
  <2> QED
    BY <2>12, <2>13, <2>16 DEF Synced
<1> QED
  BY <1>2, <1>3

-----------------------------------------------------------------------------
(* The theorems. *)

\* What every step of a session keeps.
DocsKept == Shape /\ (~crossed => Synced)

\* Every step keeps the session and the server together, until a didClose is overtaken.
LEMMA DocsKeptStep ==
  ASSUME DocsKept, [DocsNext]_docsVars
  PROVE  DocsKept'
<1>1. Shape'
  BY ShapeStep DEF DocsKept
<1>2. DocsShape /\ RestShape /\ Shape
  BY DEF DocsKept, Shape
<1> SUFFICES ASSUME ~crossed'
             PROVE  Synced'
  BY <1>1 DEF DocsKept
<1>3. CASE UNCHANGED docsVars
  <2>1. Synced
    BY <1>3 DEF DocsKept, docsVars
  <2> QED
    BY <1>2, <1>3, <2>1, SyncedQuiet DEF docsVars, openVars, queryVars, indexVars
<1>4. ASSUME NEW f \in Files, Edit(f) \/ (\E t \in Queries : Ask(t, f))
      PROVE  Synced'
  <2>1. Synced
    BY <1>4 DEF DocsKept, Edit, Ask
  <2>2. CASE Edit(f)
    BY <1>2, <2>1, <2>2, SyncedQuiet DEF Edit, openVars, queryVars, indexVars
  <2>3. ASSUME NEW t \in Queries, Ask(t, f)
        PROVE  Synced'
    <3>1. UNCHANGED <<opened, wire, buffers, step, change>>
      BY <2>3 DEF Ask, openVars, indexVars
    <3>2. \A u \in Queries :
            \/ stage'[u] \in {"idle", "sync"} /\ stage[u] # "wait"
            \/ /\ stage'[u] = stage[u] /\ since'[u] = since[u]
               /\ file'[u] = file[u] /\ answer'[u] = answer[u]
      BY <1>2, <2>3 DEF Ask, RestShape
    <3> QED
      BY <1>2, <2>1, <3>1, <3>2, SyncedQuiet
  <2> QED
    BY <1>4, <2>2, <2>3
<1>5. ASSUME NEW t \in Queries, Query(t)
      PROVE  Synced'
  <2>1. CASE Sync(t)
    <3>1. /\ stage[t] = "sync" /\ EnsureOpen(file[t])
          /\ stage' = [stage EXCEPT ![t] = IF disk[file[t]] = 0 THEN "idle" ELSE "ask"]
          /\ crossed' = (crossed \/ (step = "close" /\ change.file = file[t] /\ disk[file[t]] # 0))
          /\ UNCHANGED <<buffers, file, answer, step, change>>
      BY <2>1 DEF Sync, indexVars
    <3>2. file[t] \in Files
      BY <1>2, <3>1 DEF RestShape, TextsInOrder
    <3>3. Synced /\ (step = "close" /\ change.file = file[t] => disk[file[t]] = 0)
      BY <3>1 DEF DocsKept
    <3>4. \A u \in Queries :
            \/ stage'[u] = stage[u]
            \/ stage'[u] = "idle"
            \/ stage'[u] = "ask" /\ stage[u] = "sync" /\ file[u] = file[t] /\ disk[file[t]] # 0
      BY <1>2, <3>1 DEF RestShape
    <3> QED
      BY <1>2, <3>1, <3>2, <3>3, <3>4, SyncedEnsure
  <2>2. CASE Send(t)
    <3>1. Synced
      BY <2>2 DEF DocsKept, Send
    <3> QED
      BY <1>2, <2>2, <3>1, SyncedSend
  <2>3. CASE TakeAnswer(t)
    <3>1. Synced /\ UNCHANGED <<opened, wire, buffers, step, change>>
      BY <2>3 DEF DocsKept, TakeAnswer, openVars, indexVars
    <3>2. \A u \in Queries :
            \/ stage'[u] \in {"idle", "sync"} /\ stage[u] # "wait"
            \/ /\ stage'[u] = stage[u] /\ since'[u] = since[u]
               /\ file'[u] = file[u] /\ answer'[u] = answer[u]
      BY <1>2, <2>3 DEF TakeAnswer, RestShape
    <3> QED
      BY <1>2, <3>1, <3>2, SyncedQuiet
  <2> QED
    BY <1>5, <2>1, <2>2, <2>3 DEF Query
<1>6. CASE Changes
  <2>1. Synced
    BY <1>6 DEF DocsKept, Changes, Called, Take, Release, SendClose, Check, SyncChanged, Read, Announce
  <2>2. ASSUME UNCHANGED <<opened, wire, buffers, stage, since, file, answer>>,
               step # "close", step' # "close"
        PROVE  Synced'
    BY <1>2, <2>1, <2>2, SyncedQuiet
  <2>3. CASE Called
    BY <2>2, <2>3 DEF Called, openVars, queryVars
  <2>4. ASSUME NEW f \in Files, Take(f)
        PROVE  Synced'
    BY <2>2, <2>4 DEF Take, openVars, queryVars
  <2>5. CASE Release \/ SendClose
    BY <1>2, <2>1, <2>5, SyncedClose
  <2>6. CASE Check \/ Read
    BY <2>2, <2>6 DEF Check, Read, openVars, queryVars
  <2>7. CASE SyncChanged
    <3>1. /\ step = "sync" /\ step' = "idle" /\ EnsureOpen(change.file) /\ change.file \in Files
          /\ UNCHANGED <<buffers, stage, file, answer, change>>
      BY <1>2, <2>7 DEF SyncChanged, RestShape
    <3>2. step = "close" /\ change.file = change.file => disk[change.file] = 0
      BY <3>1
    <3>3. \A u \in Queries : stage'[u] = stage[u]
      BY <3>1
    <3> QED
      BY <1>2, <2>1, <3>1, <3>2, <3>3, SyncedEnsure
  <2>8. CASE Announce
    BY <1>2, <2>1, <2>8, SyncedAnnounce
  <2> QED
    BY <1>6, <2>3, <2>4, <2>5, <2>6, <2>7, <2>8 DEF Changes
<1>7. CASE Serve
  <2>1. Synced
    BY <1>7 DEF DocsKept, Serve
  <2> QED
    BY <1>2, <1>7, <2>1, SyncedServe
<1> QED
  BY <1>3, <1>4, <1>5, <1>6, <1>7 DEF DocsNext

(* What is kept holds in every state of a session with any files, queries and
   limit, however they interleave with files_changed. *)
THEOREM DocsAreKept == DocsSpec => []DocsKept
<1>1. DocsInit => DocsKept
  BY ShapeInit, SyncedInit DEF DocsKept
<1>2. DocsKept /\ [DocsNext]_docsVars => DocsKept'
  BY DocsKeptStep
<1> QED
  BY <1>1, <1>2, PTL DEF DocsSpec

(* The session's documents are typed, their order of use lists them exactly and
   they are never more than MAX_OPEN_DOCS, for any number of files (transport.rs:1027). *)
THEOREM DocsTypeCorrect == DocsSpec => []DocsTypeOK
<1>1. DocsKept => DocsTypeOK
  BY ShapeHasTypes DEF DocsKept
<1> QED
  BY <1>1, DocsAreKept, PTL

(* Until a query overtakes the didClose of its file, every frame makes sense to
   the server when it arrives (transport.rs:1048, 1121). *)
THEOREM ServerFollows == DocsSpec => []ServerInStep
<1>1. ASSUME DocsKept
      PROVE  ServerInStep
  <2> SUFFICES ASSUME ~crossed, wire # <<>>
               PROVE  Fits(Head(wire), buffers[Head(wire).file])
    BY DEF ServerInStep
  <2>1. wire \in Seq(Frames) /\ InStep(wire)
    BY <1>1 DEF DocsKept, Shape, DocsShape, Synced
  <2>2. Head(wire) = wire[1] /\ 1 \in DOMAIN wire
    BY <2>1, HeadTailProperties, LenProperties
  <2> QED
    BY <2>1, <2>2, CopyFirst DEF InStep
<1> QED
  BY <1>1, DocsAreKept, PTL

(* Until then the server will hold, text and version, what the session believes
   it holds (transport.rs:908). *)
THEOREM BuffersFollow == DocsSpec => []BuffersReplay
<1>1. DocsKept => BuffersReplay
  BY DEF DocsKept, Synced, Session, BuffersReplay
<1> QED
  BY <1>1, DocsAreKept, PTL

(* Until then no answer is from a text older than the one on the disk when its
   query began and its document kept its place (transport.rs:1005). *)
THEOREM AnswersAreCurrent == DocsSpec => []AnswersCurrent
<1>1. DocsKept => AnswersCurrent
  BY DEF DocsKept, Synced, Fresh, AnswersCurrent
<1> QED
  BY <1>1, DocsAreKept, PTL
=============================================================================
