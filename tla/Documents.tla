----------------------------- MODULE Documents -----------------------------
(***************************************************************************)
(* The document buffers of one language adapter and the diagnostics the    *)
(* language server pushes for them.  A single executor worker loads,       *)
(* edits and reconciles documents; the client's reader thread accepts      *)
(* publications concurrently; files change on disk under both; the server  *)
(* process can die at any moment.                                          *)
(*                                                                         *)
(* A text is the number of the write that produced it (0: no such file),   *)
(* so a larger text is a later one.  A versioned engine (pyright) puts     *)
(* document versions on its publications; an unversioned one (typescript)  *)
(* does not, and its buffers are closed and drained before every reopen.   *)
(***************************************************************************)
EXTENDS Integers, Sequences, FiniteSets, SequencesExt

CONSTANTS
    Doc,        \* the documents of the workspace
    Initial,    \* the documents that exist at the start
    Versioning, \* the values of diagnostic_publications_include_version
    MaxOpen,    \* MAX_OPEN_DOCUMENTS
    MaxWrites,  \* bound: writes to the disk
    MaxOps,     \* bound: operations submitted to the worker
    MaxQueued,  \* bound: operations waiting for the worker
    Patience,   \* whether every caller waits for the end of its operation
    MaxCrashes, \* bound: deaths of the server process
    MaxWire,    \* bound: publications in flight
    None

ASSUME DocumentsAssumption ==
    /\ IsFiniteSet(Doc) /\ Initial \subseteq Doc
    /\ Versioning \subseteq BOOLEAN /\ Patience \subseteq BOOLEAN
    /\ MaxOpen \in Nat \ {0}
    /\ {MaxWrites, MaxOps, MaxQueued, MaxCrashes, MaxWire} \subseteq Nat

VARIABLES
    disk,      \* the text of every file; 0: absent
    writes,    \* writes so far
    known,     \* the texts the last scan committed
    batch,     \* the watcher batch not yet settled (_pending_reconciles)
    counter,   \* WorkspaceRuntime._versions
    doc,       \* LspState._documents (text: what the generation stands for)
    pub,       \* LspState._publications
    target,    \* LanguageAdapter._pending_documents: who may own a publication
    cache,     \* _diagnostic_snapshots: the text last sent
    open,      \* _open_documents, least recently used first
    closes,    \* _undrained_unversioned_closes: closed, not yet drained
    process,   \* the server process and its kind, its crashes, the operations so far
    toServer,  \* messages to the server, in order
    toClient,  \* messages to the client, in order
    buffer,    \* the server's open buffers
    worker,    \* the operation the executor is running
    queue      \* the operations submitted behind it

disks == <<disk, writes, known, batch>>
state == <<doc, pub, target, cache, open, closes>>
wires == <<toServer, toClient, buffer>>
vars == <<disks, counter, state, process, wires, worker, queue>>

Texts == 0 .. MaxWrites + 1
Up == process.up
Versioned == process.versioned
Opened == ToSet(open)
Idle == [pc |-> "idle", op |-> "none", doc |-> None, version |-> 0, text |-> 0,
         left |-> <<>>, made |-> <<>>, next |-> "idle", versions |-> <<>>]

----------------------------------------------------------------------------
(* The messages of the adapter. *)

Message(kind, d, v, t) == [kind |-> kind, doc |-> d, version |-> v, text |-> t]
DidClose(d) == Message("close", d, 0, 0)
Barrier == Message("barrier", None, process.barrier + 1, 0)

\* What is written to a dead process is lost.
Send(messages) == toServer' = IF Up THEN toServer \o messages ELSE toServer

Without(f, D) == [d \in Doc |-> IF d \in D THEN None ELSE f[d]]
Dropping(D) == SelectSeq(open, LAMBDA d : d \notin D)

\* _forget_document_tracking
Disown(D) == /\ target' = Without(target, D)
             /\ cache' = Without(cache, D)

\* _record_unversioned_close_before_delivery: versioned engines need no marker.
MarkClosed(D) == closes' = IF Versioned THEN closes ELSE closes \cup D

\* reset_documents and the maps cleared with it.
ResetDocuments ==
    /\ doc' = Without(doc, Doc) /\ pub' = Without(pub, Doc)
    /\ Disown(Doc)
    /\ open' = <<>>
    /\ closes' = {}

Init ==
    /\ disk = [d \in Doc |-> IF d \in Initial THEN 1 ELSE 0]
    /\ writes = 0
    /\ known = disk
    /\ batch = None
    /\ counter = [d \in Doc |-> 0]
    /\ doc = [d \in Doc |-> None] /\ pub = [d \in Doc |-> None]
    /\ target = [d \in Doc |-> None] /\ cache = [d \in Doc |-> None]
    /\ open = <<>>
    /\ closes = {}
    /\ process \in [up : {FALSE}, versioned : Versioning, patient : Patience, crashes : {0}, ops : {0}, barrier : {0}]
    /\ toServer = <<>> /\ toClient = <<>>
    /\ buffer = [d \in Doc |-> None]
    /\ worker = Idle
    /\ queue = <<>>

----------------------------------------------------------------------------
(* Files change on disk under everybody. *)

Write(d) ==
    /\ writes < MaxWrites
    /\ writes' = writes + 1
    /\ disk' = [disk EXCEPT ![d] = writes + 2]
    /\ UNCHANGED <<known, batch, counter, state, process, wires, worker, queue>>

Delete(d) ==
    /\ writes < MaxWrites
    /\ disk[d] # 0
    /\ writes' = writes + 1
    /\ disk' = [disk EXCEPT ![d] = 0]
    /\ UNCHANGED <<known, batch, counter, state, process, wires, worker, queue>>

----------------------------------------------------------------------------
(* The server process. *)

\* _ensure_started_worker: a new process starts with no documents; the old
\* process's reader is joined and what it had not read is discarded.
Restart ==
    /\ worker.pc = "begin"
    /\ ~Up
    /\ process' = [process EXCEPT !.up = TRUE]
    /\ ResetDocuments
    /\ toServer' = <<>> /\ toClient' = <<>>
    /\ buffer' = [d \in Doc |-> None]
    /\ UNCHANGED <<disks, counter, worker>>

\* The process dies and _record_crash drops what belonged to it; its reader
\* still has the messages it received.
Crash ==
    /\ Up
    /\ process.crashes < MaxCrashes
    /\ process' = [process EXCEPT !.up = FALSE, !.crashes = @ + 1]
    /\ ResetDocuments
    /\ toServer' = <<>>
    /\ buffer' = [d \in Doc |-> None]
    /\ UNCHANGED <<disks, counter, toClient, worker, queue>>

\* The server reads one message.  Closing a buffer publishes an empty result
\* for it before any later request is answered.
Serve ==
    /\ Up
    /\ toServer # <<>>
    /\ LET m == Head(toServer) IN
       /\ toServer' = Tail(toServer)
       /\ buffer' = CASE m.kind = "open" -> [buffer EXCEPT ![m.doc] = m]
                      [] m.kind = "change" /\ buffer[m.doc] # None -> [buffer EXCEPT ![m.doc] = m]
                      [] m.kind = "close" -> [buffer EXCEPT ![m.doc] = None]
                      [] OTHER -> buffer
       /\ toClient' = CASE m.kind = "close" /\ buffer[m.doc] # None ->
                                Append(toClient, Message("publish", m.doc, None, 0))
                        [] m.kind = "barrier" ->
                                Append(toClient, Message("reply", None, m.version, 0))
                        [] OTHER -> toClient
    /\ UNCHANGED <<disks, counter, state, process, worker, queue>>

\* The server publishes the diagnostics of a buffer, at any time.
Publish(d) ==
    /\ Up
    /\ buffer[d] # None
    /\ Len(SelectSeq(toClient, LAMBDA m : m.kind = "publish")) < MaxWire
    /\ toClient' = Append(toClient, Message("publish", d, IF Versioned THEN buffer[d].version ELSE None,
                                                buffer[d].text))
    /\ UNCHANGED <<disks, counter, state, process, toServer, buffer, worker, queue>>

----------------------------------------------------------------------------
(* The reader thread: _on_notification and the barrier's response. *)

\* Mutant: the version of a publication is not compared.
Accepts_AnyVersion(m) ==
    /\ target[m.doc] # None
    /\ doc[m.doc] # None
    /\ doc[m.doc].gen = target[m.doc].gen

\* PublishedDiagnosticsWitness.observe with publish_diagnostics under it.
Accepts(m) ==
    LET own == target[m.doc] IN
    /\ own # None
    /\ Versioned => m.version # None
    /\ m.version # None => m.version = own.version
    /\ doc[m.doc] # None
    /\ doc[m.doc].gen = own.gen
    /\ m.version # None => m.version = doc[m.doc].version

OnNotification ==
    /\ toClient # <<>>
    /\ LET m == Head(toClient) IN
       /\ m.kind = "publish"
       /\ IF Accepts(m)
          THEN /\ pub' = [pub EXCEPT ![m.doc] = [gen |-> target[m.doc].gen, text |-> m.text]]
               /\ target' = [target EXCEPT ![m.doc] = None]
          ELSE UNCHANGED <<pub, target>>
    /\ toClient' = Tail(toClient)
    /\ UNCHANGED <<disks, counter, doc, cache, open, closes, process, toServer, buffer, worker, queue>>

----------------------------------------------------------------------------
(* Draining the closes of an unversioned engine                            *)
(* (_drain_recorded_unversioned_closes): D is closed first, every marked   *)
(* document is disowned, and the worker waits for the reply to a request   *)
(* that the server answers after the closes.  It goes on at pc `next'.  A   *)
(* close that could not be written is one to a dead process, whose markers  *)
(* are dropped with it, so every marker here stands for a delivered close.  *)

Drain(before, D, next, w) ==
    LET marked == IF Versioned THEN {} ELSE closes \cup D IN
    IF marked = {}
    THEN /\ worker' = [w EXCEPT !.pc = next]
         /\ Send(before)
         /\ UNCHANGED <<target, cache, open, closes, process>>
    ELSE /\ worker' = [w EXCEPT !.pc = "drain", !.next = next]
         /\ Send(before \o SetToSeq({DidClose(d) : d \in D}) \o <<Barrier>>)
         /\ process' = [process EXCEPT !.barrier = @ + 1]
         /\ open' = Dropping(marked)
         /\ Disown(marked \cap Opened)
         /\ closes' = marked

Awaited(m) == worker.pc = "drain" /\ m.version = process.barrier

BarrierReply ==
    /\ toClient # <<>> /\ Head(toClient).kind = "reply"
    /\ toClient' = Tail(toClient)
    /\ IF Awaited(Head(toClient))
       THEN /\ closes' = {}
            /\ worker' = [worker EXCEPT !.pc = worker.next]
       ELSE UNCHANGED <<closes, worker>>
    /\ UNCHANGED <<disks, counter, doc, pub, target, cache, open, process, toServer, buffer, queue>>

\* The barrier times out or is refused, or the worker finds the process dead:
\* the operation fails with an exception; the markers stay.
WorkerFails ==
    /\ worker.pc = "drain" \/ (worker.pc # "idle" /\ ~Up)
    /\ worker' = Idle
    /\ UNCHANGED <<disks, counter, state, process, wires>>

----------------------------------------------------------------------------
(* Loading a document, for symbols or for diagnostics, and editing it.      *)
(* Every operation follows a preflight that settled the last watcher batch  *)
(* and found nothing changed since.                                         *)

Quiet == worker.pc = "idle" /\ queue = <<>>

\* One caller at a time: it waits for its operation, or its bounded wait ends
\* and the next caller comes while the operation is still running or queued.
\* A caller that gives up an edit still in the queue cancels it.
Enqueue(op) ==
    /\ process.ops < MaxOps
    /\ process' = [process EXCEPT !.ops = @ + 1]
    /\ IF Quiet
       THEN worker' = op /\ UNCHANGED queue
       ELSE /\ ~process.patient
            /\ Len(queue) < MaxQueued
            /\ \A i \in DOMAIN queue : queue[i].op # "edit"
            /\ queue' = Append(queue, op)
            /\ UNCHANGED worker

Submit(op, d) ==
    /\ batch = None /\ known = disk
    /\ known[d] # 0
    /\ counter' = IF op = "edit" THEN counter ELSE [counter EXCEPT ![d] = @ + 1]
    /\ Enqueue([Idle EXCEPT !.pc = "begin", !.op = op, !.doc = d, !.version = counter'[d]])
    /\ UNCHANGED <<disks, state, wires>>

LoadDocument(d) == Submit("load", d)
LoadDiagnostics(d) == Submit("diagnostics", d)
ReplaceSymbolBody(d) == Submit("edit", d)

CancelEdit ==
    /\ queue # <<>> /\ Last(queue).op = "edit"
    /\ queue' = Front(queue)
    /\ UNCHANGED <<disks, counter, state, process, wires, worker>>

Take ==
    /\ worker.pc = "idle"
    /\ queue # <<>>
    /\ worker' = Head(queue)
    /\ queue' = Tail(queue)
    /\ UNCHANGED <<disks, counter, state, process, wires>>

\* snapshot_open_and_probe_document reads the file and opens it.
BeginLoad ==
    /\ worker.pc = "begin" /\ worker.op = "load" /\ Up
    /\ worker' = IF disk[worker.doc] = 0 THEN Idle
                 ELSE [worker EXCEPT !.pc = "admit", !.text = disk[worker.doc]]
    /\ UNCHANGED <<disks, counter, state, process, wires>>

\* The edit worker reads the file, reserves a version and opens it.
BeginEdit ==
    /\ worker.pc = "begin" /\ worker.op = "edit" /\ Up
    /\ IF disk[worker.doc] = 0
       THEN worker' = Idle /\ UNCHANGED counter
       ELSE /\ counter' = [counter EXCEPT ![worker.doc] = @ + 1]
            /\ worker' = [worker EXCEPT !.pc = "admit", !.text = disk[worker.doc],
                                        !.version = counter[worker.doc] + 1]
    /\ UNCHANGED <<disks, state, process, wires>>

\* snapshot_open_and_probe_diagnostics reads the file and drains first.
BeginDiagnostics ==
    /\ worker.pc = "begin" /\ worker.op = "diagnostics" /\ Up
    /\ IF disk[worker.doc] = 0
       THEN worker' = Idle /\ UNCHANGED <<target, cache, open, closes, process, toServer>>
       ELSE Drain(<<>>, {}, "reuse", [worker EXCEPT !.text = disk[worker.doc]])
    /\ UNCHANGED <<disks, counter, doc, pub, toClient, buffer>>

\* An open buffer that holds exactly these bytes is reused: its generation
\* owns the next publication again, and the caller, if it still waits, gives
\* the reserved version back.
ReusesTarget ==
    LET d == worker.doc IN
    /\ doc[d] # None
    /\ d \in Opened
    /\ cache[d] = worker.text

\* Mutant: the version is given back whoever reserved one since.
Reuse_GivesBackAny ==
    LET d == worker.doc IN
    /\ worker.pc = "reuse"
    /\ IF ReusesTarget
       THEN /\ open' = Append(Dropping({d}), d)
            /\ target' = [target EXCEPT ![d] = [version |-> doc[d].version, gen |-> doc[d].gen]]
            /\ counter' = [counter EXCEPT ![d] = doc[d].version]
            /\ worker' = Idle
       ELSE /\ worker' = [worker EXCEPT !.pc = "admit"]
            /\ UNCHANGED <<open, target, counter>>
    /\ UNCHANGED <<disks, doc, pub, cache, closes, process, wires>>

Reuse ==
    LET d == worker.doc IN
    /\ worker.pc = "reuse"
    /\ IF ReusesTarget
       THEN /\ open' = Append(Dropping({d}), d)
            /\ target' = [target EXCEPT ![d] = [version |-> doc[d].version, gen |-> doc[d].gen]]
            /\ \/ counter' = [counter EXCEPT ![d] = IF @ = worker.version THEN doc[d].version ELSE @]
               \/ UNCHANGED counter
            /\ worker' = Idle
       ELSE /\ worker' = [worker EXCEPT !.pc = "admit"]
            /\ UNCHANGED <<open, target, counter>>
    /\ UNCHANGED <<disks, doc, pub, cache, closes, process, wires>>

----------------------------------------------------------------------------
(* _open_document_with_client, in three steps of the worker between which   *)
(* the reader and the server move.                                          *)

NotNewer(d, version) == doc[d] # None /\ version <= doc[d].version

\* The two ValueErrors: a path outside the inventory, a version not newer.
Refused(d, version) == known[d] = 0 \/ NotNewer(d, version)

\* _close_document_worker
CloseDocument(d) ==
    /\ open' = Dropping({d})
    /\ Disown({d})
    /\ IF d \in Opened THEN MarkClosed({d}) /\ Send(<<DidClose(d)>>)
                       ELSE UNCHANGED <<closes, toServer>>

\* Mutant: the reconciliation passes over a refused version.
Refuse_KeepsBuffer ==
    /\ worker.pc = "admit"
    /\ Refused(worker.doc, worker.version)
    /\ worker' = IF worker.op = "reconcile" THEN [worker EXCEPT !.pc = "files"] ELSE Idle
    /\ UNCHANGED <<disks, counter, state, process, wires>>

\* A refused load or edit fails; the reconciliation closes the buffer and goes
\* on.
Refuse ==
    /\ worker.pc = "admit"
    /\ Refused(worker.doc, worker.version)
    /\ IF worker.op = "reconcile"
       THEN /\ CloseDocument(worker.doc)
            /\ worker' = [worker EXCEPT !.pc = "files"]
       ELSE /\ worker' = Idle
            /\ UNCHANGED <<target, cache, open, closes, toServer>>
    /\ UNCHANGED <<disks, counter, doc, pub, process, toClient, buffer>>

\* Mutant: an open buffer is changed in place whatever its publications carry.
ToClose_Never(d) == {}

\* _drain_unversioned_diagnostics_before_change
ToClose(d) == IF d \in Opened /\ ~Versioned THEN {d} ELSE {}

Admit ==
    /\ worker.pc = "admit"
    /\ ~Refused(worker.doc, worker.version)
    /\ Drain(<<>>, ToClose(worker.doc), "update", worker)
    /\ UNCHANGED <<disks, counter, doc, pub, toClient, buffer>>

\* update_document
UpdateDocument ==
    LET d == worker.doc IN
    /\ worker.pc = "update"
    /\ doc' = [doc EXCEPT ![d] = [version |-> worker.version, text |-> worker.text,
                                  gen |-> IF doc[d] = None THEN 1 ELSE doc[d].gen + 1]]
    /\ worker' = [worker EXCEPT !.pc = "send"]
    /\ UNCHANGED <<disks, counter, pub, target, cache, open, closes, process, wires>>

\* The documents a new buffer pushes out of the bounded open map.
Evicted(d) == IF d \in Opened THEN {}
              ELSE {open[i] : i \in 1 .. Len(open) + 1 - MaxOpen}

\* The generation becomes the owner of the next publication and
\* _send_document_open_or_change transmits its text.
SendDocument ==
    LET d == worker.doc
        kind == IF d \in Opened THEN "change" ELSE "open"
        own == [version |-> worker.version, gen |-> IF doc[d] = None THEN 1 ELSE doc[d].gen]
    IN
    /\ worker.pc = "send"
    /\ target' = [Without(target, Evicted(d)) EXCEPT ![d] = own]
    /\ cache' = [Without(cache, Evicted(d)) EXCEPT ![d] = worker.text]
    /\ open' = Append(Dropping(Evicted(d) \cup {d}), d)
    /\ MarkClosed(Evicted(d))
    /\ Send(<<Message(kind, d, worker.version, worker.text)>>
                \o SetToSeq({DidClose(e) : e \in Evicted(d)}))
    /\ worker' = CASE worker.op = "reconcile" -> [worker EXCEPT !.pc = "files"]
                   [] worker.op = "edit" -> [worker EXCEPT !.pc = "install"]
                   [] OTHER -> Idle
    /\ UNCHANGED <<disks, counter, doc, pub, process, toClient, buffer>>

\* The guarded edit installs its replacement over the bytes it read and
\* notify_edit_with_client publishes it as the next version.
Install ==
    /\ worker.pc = "install"
    /\ \/ /\ disk[worker.doc] = worker.text
          /\ writes < MaxWrites
          /\ writes' = writes + 1
          /\ disk' = [disk EXCEPT ![worker.doc] = writes + 2]
          /\ worker' = [worker EXCEPT !.pc = "admit", !.op = "notify", !.text = writes + 2,
                                      !.version = worker.version + 1]
       \/ worker' = Idle /\ UNCHANGED <<disk, writes>>
    /\ UNCHANGED <<known, batch, counter, state, process, wires>>

----------------------------------------------------------------------------
(* Reconciliation: a scan commits what it saw and leaves a batch of events  *)
(* for a running adapter; the batch is submitted until it succeeds, before  *)
(* any other operation and any other scan.                                  *)

Events ==
    [changed |-> {d \in Doc : known[d] # 0 /\ disk[d] # 0 /\ known[d] # disk[d]},
     created |-> {d \in Doc : known[d] = 0 /\ disk[d] # 0},
     deleted |-> {d \in Doc : known[d] # 0 /\ disk[d] = 0}]

Scan ==
    /\ batch = None /\ known # disk
    /\ process.patient => Quiet
    /\ known' = disk
    /\ batch' = IF Up THEN Events ELSE None
    /\ UNCHANGED <<disk, writes, counter, state, process, wires, worker, queue>>

\* notify_watched_files: the changed files get new versions at every attempt.
NotifyWatchedFiles ==
    /\ batch # None
    /\ \A op \in {worker} \cup ToSet(queue) : op.op # "reconcile"
    /\ counter' = [d \in Doc |-> counter[d] + IF d \in batch.changed THEN 1 ELSE 0]
    /\ Enqueue([Idle EXCEPT !.pc = "begin", !.op = "reconcile", !.versions = counter'])
    /\ UNCHANGED <<disks, state, wires>>

\* _reconcile_watched_files_worker
BeginReconcile ==
    /\ worker.pc = "begin" /\ worker.op = "reconcile" /\ Up
    /\ Drain(<<>>, {}, "list", worker)
    /\ UNCHANGED <<disks, counter, doc, pub, toClient, buffer>>

ListOpenDocuments ==
    /\ worker.pc = "list"
    /\ worker' = [worker EXCEPT !.pc = "files", !.left = open, !.made = SetToSeq(batch.created)]
    /\ UNCHANGED <<disks, counter, state, process, wires>>

\* One document of the open map: forgotten, closed, passed over, or reopened
\* with the text now on disk and the version reserved for it.
ReconcileOpen ==
    /\ worker.pc = "files"
    /\ worker.left # <<>>
    /\ LET d == Head(worker.left)
           passed == [worker EXCEPT !.left = Tail(worker.left)]
           unreadable == d \in batch.changed /\ disk[d] = 0
       IN CASE doc[d] = None ->
                   /\ worker' = passed
                   /\ open' = Dropping({d})
                   /\ UNCHANGED <<target, cache, closes, toServer>>
            [] doc[d] # None /\ (d \in batch.deleted \/ unreadable) ->
                   /\ worker' = passed
                   /\ CloseDocument(d)
            [] doc[d] # None /\ d \in batch.changed /\ ~unreadable ->
                   /\ worker' = [passed EXCEPT !.pc = "admit", !.doc = d, !.text = disk[d],
                                               !.version = worker.versions[d]]
                   /\ UNCHANGED <<target, cache, open, closes, toServer>>
            [] OTHER -> worker' = passed /\ UNCHANGED <<target, cache, open, closes, toServer>>
    /\ UNCHANGED <<disks, counter, doc, pub, process, toClient, buffer>>

\* One created file: a controlled didOpen and didClose makes the server parse
\* it; a full set of markers is drained at once.
ReconcileCreated ==
    /\ worker.pc = "files"
    /\ worker.left = <<>> /\ worker.made # <<>>
    /\ LET d == Head(worker.made)
           passed == [worker EXCEPT !.made = Tail(worker.made)]
           parse == <<Message("open", d, 1, disk[d])>>
       IN IF d \in Opened \/ disk[d] = 0
          THEN worker' = passed /\ UNCHANGED <<target, cache, open, closes, process, toServer>>
          ELSE IF ~Versioned /\ Cardinality(closes \cup {d}) >= MaxOpen
          THEN Drain(parse, {d}, "files", passed)
          ELSE /\ worker' = passed
               /\ Send(Append(parse, DidClose(d)))
               /\ MarkClosed({d})
               /\ UNCHANGED <<target, cache, open, process>>
    /\ UNCHANGED <<disks, counter, doc, pub, toClient, buffer>>

\* The batch is settled.
SettleBatch ==
    /\ worker.pc = "files"
    /\ worker.left = <<>> /\ worker.made = <<>>
    /\ batch' = None
    /\ worker' = Idle
    /\ UNCHANGED <<disk, writes, known, counter, state, process, wires>>

----------------------------------------------------------------------------
Worker ==
    \/ BeginLoad \/ BeginEdit \/ BeginDiagnostics \/ Reuse
    \/ Refuse \/ Admit \/ UpdateDocument \/ SendDocument \/ Install
    \/ BeginReconcile \/ ListOpenDocuments \/ ReconcileOpen \/ ReconcileCreated
    \/ SettleBatch \/ Restart \/ WorkerFails

Next ==
    \/ \E d \in Doc : \/ Write(d) \/ Delete(d) \/ Publish(d)
                      \/ LoadDocument(d) \/ LoadDiagnostics(d) \/ ReplaceSymbolBody(d)
    \/ Scan \/ NotifyWatchedFiles
    \/ CancelEdit \/ Take
    \/ Worker /\ UNCHANGED queue
    \/ OnNotification \/ BarrierReply
    \/ Serve \/ Crash

Spec == Init /\ [][Next]_vars

----------------------------------------------------------------------------
Owners == [version : Nat, gen : Nat]
Batches == [changed : SUBSET Doc, created : SUBSET Doc, deleted : SUBSET Doc]

\* Every variable has its type; the open map holds no document twice and never
\* more than MAX_OPEN_DOCUMENTS.
TypeOK ==
    /\ disk \in [Doc -> Texts] /\ known \in [Doc -> Texts] /\ writes \in 0 .. MaxWrites
    /\ batch \in Batches \cup {None}
    /\ counter \in [Doc -> Nat]
    /\ doc \in [Doc -> [version : Nat, gen : Nat, text : Texts] \cup {None}]
    /\ pub \in [Doc -> [gen : Nat, text : Texts] \cup {None}]
    /\ target \in [Doc -> Owners \cup {None}]
    /\ cache \in [Doc -> Texts \cup {None}]
    /\ open \in Seq(Doc) /\ IsInjective(open) /\ Len(open) <= MaxOpen
    /\ closes \subseteq Doc
    /\ process \in [up : BOOLEAN, versioned : Versioning, patient : Patience, crashes : 0 .. MaxCrashes,
                   ops : 0 .. MaxOps, barrier : Nat]
    /\ worker.doc \in Doc \cup {None}

Publishes(d) == pub[d] # None /\ doc[d] # None /\ pub[d].gen = doc[d].gen

\* The diagnostics that an engine without versions has stored for a document's
\* current generation were computed from that generation's text.  A late
\* publication of an older text, or the empty one a close produces, is never
\* taken for it, whatever was closed, evicted, reopened, reconciled, edited or
\* restarted in between.
DiagnosticsCurrent ==
    Up /\ ~Versioned => \A d \in Doc : Publishes(d) => pub[d].text = doc[d].text

\* What load_diagnostics answers is true of the file: when the postflight finds
\* nothing to reconcile and the text of an open document still on disk, the
\* diagnostics stored for its generation are those of that text.
DiagnosticsTruthful ==
    Up /\ batch = None => \A d \in Opened : (Publishes(d) /\ doc[d].text = known[d] /\ known[d] = disk[d])
                                => pub[d].text = disk[d]

\* No buffer is older than the last settled scan: once a change has been
\* reconciled, no open document still holds the text from before it, and no
\* deleted one is open (_reconcile_watched_files_worker: "Deliver watcher facts
\* without allowing an open buffer to stay stale").
NoStaleBuffer ==
    Up /\ worker.pc = "idle" /\ batch = None
        => \A d \in Opened : known[d] # 0 /\ cache[d] >= known[d]

\* It holds while every caller waits for its operation.
PatientBufferFresh == process.patient => NoStaleBuffer

\* A load that is refused for its version succeeds when it is called again:
\* although the notification of an edit takes a version it does not reserve and
\* a reused buffer gives a reserved one back, no document is ever more than one
\* version ahead of the counter.
RetryAdmitted == \A d \in Doc : doc[d] # None => doc[d].version <= counter[d] + 1
=============================================================================
