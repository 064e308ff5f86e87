------------------------------ MODULE OpenDocs ------------------------------
(* The open documents of one language server: LspSession of crates/
   astrolabe-core/src/lsp/transport.rs.  A server answers from its own copy of
   a document that is open, so a query first brings that copy up to date; the
   reindex thread tells the server of files that changed, and at most MaxOpen
   documents stay open.

   Texts are numbered in the order in which they are written: a greater number
   is a newer text.  A document that is not open is answered from the disk.
   That frames can be queued, and what becomes of a dead server, is Transport's
   subject; here all frames arrive, in order. *)
EXTENDS Naturals, Sequences, SequencesExt

CONSTANTS Files,
          NoFile,    \* no document
          Queries,   \* query threads
          MaxOpen,   \* MAX_OPEN_DOCS
          MaxEdits   \* bound on writes and deletions

ASSUME OpenDocsAssumption == NoFile \notin Files /\ MaxOpen \in Nat \ {0} /\ MaxEdits \in Nat

VARIABLES
    disk,      \* per file its text, or 0 without the file
    clock,     \* texts written and files deleted so far
    due,       \* per file the change that the next files_changed will be called with
    batch,     \* per file the change that this files_changed has not come to
    opened,    \* per file the OpenDoc, or Closed
    order,     \* the open documents, the least recently used first
    wire,      \* frames on their way to the server
    buffers,   \* the server's copies
    stage,     \* per query thread: "idle", "sync", "ask", "wait", "answered"
    file,      \* per query thread, the document it asks about
    since,     \* history: the text its answer must not be older than
    answer,    \* the text its answer is from
    step,      \* the reindex thread: "idle", "remove", "close", "check", "sync", "read", "announce"
    change,    \* the change it is at
    read,      \* the text it has read for an announcement
    crossed    \* history: a document was opened again before its didClose was sent

diskVars  == <<disk, clock>>
openVars   == <<opened, order>>
queryVars == <<stage, file, since, answer>>
indexVars == <<batch, step, change, read>>
docsVars == <<diskVars, due, openVars, wire, buffers, queryVars, indexVars, crossed>>

Doc(version, text) == [version |-> version, text |-> text]
Closed == Doc(0, 0)
Open(f) == opened[f] # Closed

Frame(op, f, doc) == [op |-> op, file |-> f, doc |-> doc, who |-> {}]
DidOpen(f, text) == Frame("open", f, Doc(1, text))
DidClose(f) == Frame("close", f, Closed)

DocsInit ==
    /\ disk \in [Files -> {0, 1}] /\ clock = 1
    /\ due = [f \in Files |-> "none"] /\ batch = due
    /\ opened = [f \in Files |-> Closed] /\ order = <<>>
    /\ wire = <<>> /\ buffers = [f \in Files |-> Closed]
    /\ stage = [t \in Queries |-> "idle"] /\ file = [t \in Queries |-> NoFile]
    /\ since = [t \in Queries |-> 0] /\ answer = [t \in Queries |-> 0]
    /\ step = "idle" /\ change = [file |-> NoFile, kind |-> "none"] /\ read = 0
    /\ crossed = FALSE

-----------------------------------------------------------------------------
(* The disk and the watcher. *)

\* ChangeSet::merge
Coalesced(old, new) ==
    IF old = "none" \/ new = "deleted" THEN new
    ELSE IF old = "deleted" THEN "changed" ELSE old

\* Somebody writes, creates or deletes f; the watcher will report it.
Edit(f) ==
    /\ clock <= MaxEdits
    /\ clock' = clock + 1
    /\ \E text \in {0, clock'} \ {disk[f]} :
         /\ disk' = [disk EXCEPT ![f] = text]
         /\ due' = [due EXCEPT ![f] =
                      Coalesced(@, IF text = 0 THEN "deleted"
                                   ELSE IF disk[f] = 0 THEN "created" ELSE "changed")]
    /\ UNCHANGED <<openVars, wire, buffers, queryVars, indexVars, crossed>>

-----------------------------------------------------------------------------
(* ensure_open, all of it under the lock of `opened`. *)

\* Mutant of EnsureGone: the session forgets the document and the server does not.
LeavesGhost(f) ==
    /\ disk[f] = 0
    /\ opened' = [opened EXCEPT ![f] = Closed]
    /\ order' = RemoveFirst(order, f)
    /\ UNCHANGED <<wire, since>>

\* f is not there any more.
EnsureGone(f) ==
    /\ disk[f] = 0
    /\ opened' = [opened EXCEPT ![f] = Closed]
    /\ order' = RemoveFirst(order, f)
    /\ wire' = IF Open(f) THEN Append(wire, DidClose(f)) ELSE wire
    /\ UNCHANGED since

\* f is open, with the same text or with an older one.
EnsureChanged(f) ==
    /\ disk[f] # 0 /\ Open(f)
    /\ order' = Append(RemoveFirst(order, f), f)
    /\ LET doc == Doc(opened[f].version + 1, disk[f])
       IN  \/ opened[f].text = disk[f] /\ UNCHANGED <<opened, wire>>
           \/ /\ opened[f].text # disk[f]
              /\ opened' = [opened EXCEPT ![f] = doc]
              /\ wire' = Append(wire, Frame("change", f, doc))
    /\ UNCHANGED since

\* Mutant of EnsureOpened: nothing is closed.
OpensMore(f) ==
    /\ disk[f] # 0 /\ ~Open(f)
    /\ opened' = [opened EXCEPT ![f] = Doc(1, disk[f])]
    /\ order' = Append(order, f)
    /\ wire' = Append(wire, DidOpen(f, disk[f]))
    /\ UNCHANGED since

\* f is opened, in the place of the least recently used document if need be.
EnsureOpened(f) ==
    /\ disk[f] # 0 /\ ~Open(f)
    /\ LET full == Len(order) >= MaxOpen
           old  == Head(order)
       IN  \/ /\ ~full
              /\ opened' = [opened EXCEPT ![f] = Doc(1, disk[f])]
              /\ order' = Append(order, f)
              /\ wire' = Append(wire, DidOpen(f, disk[f]))
              /\ UNCHANGED since
           \/ /\ full
              /\ opened' = [opened EXCEPT ![f] = Doc(1, disk[f]), ![old] = Closed]
              /\ order' = Append(Tail(order), f)
              /\ wire' = wire \o <<DidClose(old), DidOpen(f, disk[f])>>
              /\ since' = [t \in Queries |-> IF file[t] = old THEN 0 ELSE since[t]]

EnsureOpen(f) == EnsureGone(f) \/ EnsureChanged(f) \/ EnsureOpened(f)

-----------------------------------------------------------------------------
(* A query: references, definition, hover and prepare_rename. *)

Ask(t, f) ==
    /\ stage[t] = "idle"
    /\ stage' = [stage EXCEPT ![t] = "sync"]
    /\ file' = [file EXCEPT ![t] = f]
    /\ since' = [since EXCEPT ![t] = disk[f]]
    /\ UNCHANGED <<diskVars, due, openVars, wire, buffers, answer, indexVars, crossed>>

\* Mutant of Sync: a document that is open is left to the watcher.
SyncsOnce(t) ==
    /\ stage[t] = "sync"
    /\ \/ ~Open(file[t]) /\ EnsureOpen(file[t])
       \/ Open(file[t]) /\ UNCHANGED <<openVars, wire, since>>
    /\ stage' = [stage EXCEPT ![t] = IF disk[file[t]] = 0 THEN "idle" ELSE "ask"]
    /\ crossed' = (crossed \/ (step = "close" /\ change.file = file[t] /\ disk[file[t]] # 0))
    /\ UNCHANGED <<diskVars, due, buffers, file, answer, indexVars>>

\* Without the file the query fails.
Sync(t) ==
    /\ stage[t] = "sync"
    /\ EnsureOpen(file[t])
    /\ stage' = [stage EXCEPT ![t] = IF disk[file[t]] = 0 THEN "idle" ELSE "ask"]
    /\ crossed' = (crossed \/ (step = "close" /\ change.file = file[t] /\ disk[file[t]] # 0))
    /\ UNCHANGED <<diskVars, due, buffers, file, answer, indexVars>>

Send(t) ==
    /\ stage[t] = "ask"
    /\ stage' = [stage EXCEPT ![t] = "wait"]
    /\ wire' = Append(wire, [Frame("ask", file[t], Closed) EXCEPT !.who = {t}])
    /\ UNCHANGED <<diskVars, due, openVars, buffers, file, since, answer, indexVars, crossed>>

TakeAnswer(t) ==
    /\ stage[t] = "answered"
    /\ stage' = [stage EXCEPT ![t] = "idle"]
    /\ file' = [file EXCEPT ![t] = NoFile]
    /\ since' = [since EXCEPT ![t] = 0]
    /\ answer' = [answer EXCEPT ![t] = 0]
    /\ UNCHANGED <<diskVars, due, openVars, wire, buffers, indexVars, crossed>>

-----------------------------------------------------------------------------
(* files_changed, on the reindex thread, one change after the other. *)

Called ==
    /\ step = "idle" /\ \A f \in Files : batch[f] = "none"
    /\ \E f \in Files : due[f] # "none"
    /\ batch' = due
    /\ due' = [f \in Files |-> "none"]
    /\ UNCHANGED <<diskVars, openVars, wire, buffers, queryVars, step, change, read, crossed>>

Take(f) ==
    /\ step = "idle" /\ batch[f] # "none"
    /\ batch' = [batch EXCEPT ![f] = "none"]
    /\ change' = [file |-> f, kind |-> batch[f]]
    /\ step' = IF batch[f] = "deleted" THEN "remove" ELSE "check"
    /\ UNCHANGED <<diskVars, due, openVars, wire, buffers, queryVars, read, crossed>>

\* close_if_open, which gives the lock back ...
Release ==
    /\ step = "remove"
    /\ step' = IF Open(change.file) THEN "close" ELSE "idle"
    /\ opened' = [opened EXCEPT ![change.file] = Closed]
    /\ order' = RemoveFirst(order, change.file)
    /\ UNCHANGED <<diskVars, due, wire, buffers, queryVars, batch, change, read, crossed>>

\* ... before it sends.
SendClose ==
    /\ step = "close"
    /\ step' = "idle"
    /\ wire' = Append(wire, DidClose(change.file))
    /\ UNCHANGED <<diskVars, due, openVars, buffers, queryVars, batch, change, read, crossed>>

\* Mutant of Check: open documents wait for their next query.
IgnoresOpen ==
    /\ step = "check"
    /\ IF Open(change.file) THEN step' = "idle"
       ELSE step' \in {"idle"} \cup (IF change.kind = "created" THEN {"read"} ELSE {})
    /\ UNCHANGED <<diskVars, due, openVars, wire, buffers, queryVars, batch, change, read, crossed>>

\* Is the changed file open?  The lock is given back with the answer.  A new one is announced,
\* unless it is too large, of no language of this server or one of too many.
Check ==
    /\ step = "check"
    /\ IF Open(change.file) THEN step' = "sync"
       ELSE step' \in {"idle"} \cup (IF change.kind = "created" THEN {"read"} ELSE {})
    /\ UNCHANGED <<diskVars, due, openVars, wire, buffers, queryVars, batch, change, read, crossed>>

SyncChanged ==
    /\ step = "sync"
    /\ step' = "idle"
    /\ EnsureOpen(change.file)
    /\ UNCHANGED <<diskVars, due, buffers, stage, file, answer, batch, change, read, crossed>>

\* announce_created reads before it takes the lock.
Read ==
    /\ step = "read"
    /\ read' = disk[change.file]
    /\ step' = IF disk[change.file] = 0 THEN "idle" ELSE "announce"
    /\ UNCHANGED <<diskVars, due, openVars, wire, buffers, queryVars, batch, change, crossed>>

\* Mutant of Announce: the document may be open.
AnnouncesBlind ==
    /\ step = "announce"
    /\ step' = "idle"
    /\ wire' = wire \o <<DidOpen(change.file, read), DidClose(change.file)>>
    /\ read' = 0
    /\ UNCHANGED <<diskVars, due, openVars, buffers, queryVars, batch, change, crossed>>

Announce ==
    /\ step = "announce"
    /\ step' = "idle"
    /\ wire' = IF Open(change.file) THEN wire
               ELSE wire \o <<DidOpen(change.file, read), DidClose(change.file)>>
    /\ read' = 0
    /\ UNCHANGED <<diskVars, due, openVars, buffers, queryVars, batch, change, crossed>>

-----------------------------------------------------------------------------
(* The server handles its frames in order. *)

Handled(copies, m) == IF m.op = "ask" THEN copies ELSE [copies EXCEPT ![m.file] = m.doc]

Serve ==
    /\ wire # <<>>
    /\ wire' = Tail(wire)
    /\ LET m == Head(wire)
           from == IF buffers[m.file] = Closed THEN clock ELSE buffers[m.file].text
       IN  /\ buffers' = Handled(buffers, m)
           /\ stage' = [t \in Queries |-> IF t \in m.who THEN "answered" ELSE stage[t]]
           /\ answer' = [t \in Queries |-> IF t \in m.who THEN from ELSE answer[t]]
    /\ UNCHANGED <<diskVars, due, openVars, file, since, indexVars, crossed>>

-----------------------------------------------------------------------------

Query(t) == Sync(t) \/ Send(t) \/ TakeAnswer(t)
Changes == Called \/ (\E f \in Files : Take(f)) \/ Release \/ SendClose \/ Check \/ SyncChanged \/ Read \/ Announce

DocsNext ==
    \/ \E f \in Files : Edit(f) \/ (\E t \in Queries : Ask(t, f))
    \/ \E t \in Queries : Query(t)
    \/ Changes \/ Serve

DocsSpec == DocsInit /\ [][DocsNext]_docsVars

\* The reindex thread runs, and the server reads.
DocsFairness == WF_docsVars(Changes) /\ WF_docsVars(Serve)
DocsFairSpec == DocsSpec /\ DocsFairness

-----------------------------------------------------------------------------

Docs == [version : Nat, text : Nat]
Frames == [op : {"open", "change", "close", "ask"}, file : Files, doc : Docs, who : SUBSET Queries]

(* Every variable has its type; the order of use lists exactly the open
   documents, each once, and never more than MaxOpen (transport.rs:1027). *)
DocsTypeOK ==
    /\ disk \in [Files -> Nat] /\ clock \in Nat
    /\ {due, batch} \subseteq [Files -> {"none", "created", "changed", "deleted"}]
    /\ opened \in [Files -> Docs] /\ buffers \in [Files -> Docs]
    /\ order \in Seq(Files) /\ ToSet(order) = {f \in Files : Open(f)}
    /\ IsInjective(order) /\ Len(order) <= MaxOpen
    /\ wire \in Seq(Frames)
    /\ stage \in [Queries -> {"idle", "sync", "ask", "wait", "answered"}]
    /\ file \in [Queries -> Files \cup {NoFile}]
    /\ since \in [Queries -> Nat] /\ answer \in [Queries -> Nat]
    /\ step \in {"idle", "remove", "close", "check", "sync", "read", "announce"}
    /\ change.file \in Files \/ (change.file = NoFile /\ step = "idle")
    /\ read \in Nat /\ crossed \in BOOLEAN

\* A frame the server can make sense of when its copy is this one.
Fits(m, copy) ==
    /\ m.op = "open"   => copy = Closed
    /\ m.op = "change" => copy # Closed /\ m.doc.version > copy.version
    /\ m.op = "close"  => copy # Closed

(* The server is never sent what it cannot make sense of: a document is opened
   while it is closed, changed to a greater version and closed while it is
   open, whichever threads sent the frames (transport.rs:1048, 1121). *)
ServerInStep ==
    ~crossed /\ wire # <<>> => Fits(Head(wire), buffers[Head(wire).file])

\* Frame m sets the server's copy of f.
Sets(m, f) == m.file = f /\ m.op # "ask"

\* The last of the first j - 1 frames of w to set the copy of f, or 0.
LastSet(w, f, j) ==
    CHOOSE i \in 0 .. j - 1 :
      (i = 0 \/ Sets(w[i], f)) /\ \A k \in i + 1 .. j - 1 : ~Sets(w[k], f)

\* The copy of f a server with these copies holds when frame j of w arrives.
CopyAt(w, copies, f, j) ==
    IF LastSet(w, f, j) = 0 THEN copies[f] ELSE w[LastSet(w, f, j)].doc

\* The server's copy once the frames on their way are handled.
LastCopy(f) == CopyAt(wire, buffers, f, Len(wire) + 1)

(* Once the frames on their way are handled, the server holds what the session
   believes it holds, text and version (transport.rs:908). *)
BuffersReplay ==
    ~crossed =>
      \A f \in Files : (step = "close" /\ change.file = f) \/ LastCopy(f) = opened[f]

(* An answer is never from a text older than the one on the disk when the query
   began, unless the document lost its place to another before the query was
   sent: a text that is read before the lock is taken would break this (transport.rs:1005). *)
AnswersCurrent ==
    ~crossed => \A t \in Queries : stage[t] = "answered" => answer[t] >= since[t]

(* Once nobody writes any more, no copy the server keeps stays older than the
   disk, although no query asks for it again (transport.rs:1256). *)
BuffersSettle ==
    <>[](crossed \/ \A f \in Files : buffers[f] = Closed \/ buffers[f].text = disk[f])
=============================================================================
