------------------------------- MODULE FreshRead -------------------------------
(* One read of a WorkspaceRuntime: a guarded scan, the load of the file it names *)
(* and two equal answers of the language server with the files they name bound  *)
(* in between, and a second guarded scan that must find what the answer used.   *)
(* Other programs write the files meanwhile, reads whose callers gave up still  *)
(* open documents, and the server may die.  Freshness has the inside of a scan. *)
EXTENDS Naturals, FiniteSets

CONSTANTS
    MaxVal,     \* the contents of a file are 1 .. MaxVal, or 0 when it is missing
    MaxWrites,  \* how often the files of the workspace are written
    MaxOuter,   \* how often the external file is written
    MaxFaults,  \* how often a stray read opens a document or the server dies
    MaxReads    \* how many reads are made

\* The file the read names, and another one of the workspace that its answer names.
\* The answer also names a file of a trusted external root, which is never opened.
File == {"source", "target"}

Val == 0 .. MaxVal

MAX_FRESH_READ_ATTEMPTS == 2

VARIABLES
    disk,    \* each file's contents and the other facts of its stat
    outer,   \* the external file's contents
    seen,    \* the identities the scans have committed
    version, \* the coordinator's version
    whole,   \* does this workspace scan its whole root for a read?
    buffer,  \* what the server has open, 0 for a file it reads from the disk
    ident,   \* the adapter's response identity: its process and its document generation
    read,    \* the read's progress
    reads, faults, writes,
    coarse   \* history: a file was rewritten without a trace in its stat

vars == <<disk, outer, seen, version, whole, buffer, ident, read, reads, faults, writes, coarse>>

Nothing == [f \in File |-> 0]

\* pc is the next step, snap the text the answer shows, first and over what the server
\* had before it at the two requests, witness and digests the evidence kept; held is what
\* the last scan found, and dirty tells whether anything was written in this attempt.
NoRead == [pc |-> "idle", attempt |-> 0, admitted |-> 0, ident |-> [proc |-> 0, doc |-> 0],
           snap |-> Nothing, first |-> Nothing, over |-> Nothing, outerOver |-> 0,
           witness |-> [f \in File |-> {}], digests |-> {}, failed |-> {},
           result |-> "none", held |-> Nothing, dirty |-> FALSE]

Identity(f) == <<disk[f].val, disk[f].stamp>>

Init ==
    /\ disk = [f \in File |-> [val |-> 1, stamp |-> 0]]
    /\ outer = 1
    /\ seen = [f \in File |-> Identity(f)]
    /\ version = 0
    /\ whole \in BOOLEAN
    /\ buffer = Nothing
    /\ ident = [proc |-> 1, doc |-> 0]
    /\ read = NoRead
    /\ reads = 0 /\ faults = 0 /\ writes = 0 /\ coarse = FALSE

-------------------------------------------------------------------------------
(* What happens beside the read *)

Dirty == read' = [read EXCEPT !.dirty = TRUE]

\* Another program writes or removes a file; usually its stat changes as well.
Write(f) ==
    /\ writes < MaxWrites /\ writes' = writes + 1
    /\ \E v \in Val \ {disk[f].val} :
         \/ disk' = [disk EXCEPT ![f] = [val |-> v, stamp |-> @.stamp + 1]] /\ UNCHANGED coarse
         \/ /\ v # 0 /\ disk[f].val # 0
            /\ disk' = [disk EXCEPT ![f].val = v] /\ coarse' = TRUE
    /\ Dirty
    /\ UNCHANGED <<outer, seen, version, whole, buffer, ident, reads, faults>>

\* A file of the external root is replaced by one that was never there before.
WriteOuter ==
    /\ outer <= MaxOuter
    /\ outer' = outer + 1
    /\ Dirty
    /\ UNCHANGED <<disk, seen, version, whole, buffer, ident, reads, faults, writes, coarse>>

\* The adapter's worker belongs to the read from its first request to its second.
InTransaction == read.pc \in {"prepare", "first", "bind", "digest", "second", "compare"}

\* The load of a read whose caller has given up opens a document in between.
StrayLoad(f) ==
    /\ ~ InTransaction /\ disk[f].val # 0
    /\ faults < MaxFaults /\ faults' = faults + 1
    /\ buffer' = [buffer EXCEPT ![f] = disk[f].val]
    /\ ident' = [ident EXCEPT !.doc = @ + 1]
    /\ UNCHANGED <<disk, outer, seen, version, whole, read, reads, writes, coarse>>

\* The server dies; the next request meets another process with nothing open.
ServerDies ==
    /\ faults < MaxFaults /\ faults' = faults + 1
    /\ buffer' = Nothing
    /\ ident' = [proc |-> ident.proc + 1, doc |-> ident.doc + 1]
    /\ UNCHANGED <<disk, outer, seen, version, whole, read, reads, writes, coarse>>

\* One guarded scan of some files (calls of a workspace run one at a time, so no other
\* scan comes between): what changed is committed, the version moves, and
\* the server's open copies of the changed files follow the disk.
Scan(scope) ==
    LET changed == {f \in scope : Identity(f) # seen[f]}
        told == {f \in changed : buffer[f] # 0}
    IN /\ seen' = [f \in File |-> IF f \in changed THEN Identity(f) ELSE seen[f]]
       /\ version' = IF changed = {} THEN version ELSE version + 1
       /\ buffer' = [f \in File |-> IF f \in told THEN disk[f].val ELSE buffer[f]]
       /\ ident' = IF told = {} THEN ident ELSE [ident EXCEPT !.doc = @ + 1]

-------------------------------------------------------------------------------
(* The read *)

\* Opening a document that is open already gives the server its new text.
Opened(f) == [buffer EXCEPT ![f] = disk[f].val]

Same == UNCHANGED <<disk, outer, whole, reads, faults, writes, coarse>>
SameStore == UNCHANGED <<seen, version, buffer, ident>>

Goto(pc) == read' = [read EXCEPT !.pc = pc]

\* The operation ends with an answer that says something about the sources.
Validate(result) == read' = [read EXCEPT !.pc = "postflight", !.result = result]

\* The operation ends with the adapter's own condition: it is returned as it is.
Refuse(result) == read' = [read EXCEPT !.pc = "idle", !.result = result]

\* _run_fresh_read is entered.
Begin ==
    /\ read.pc = "idle" /\ reads < MaxReads
    /\ reads' = reads + 1
    /\ read' = [NoRead EXCEPT !.pc = "preflight", !.attempt = 1]
    /\ UNCHANGED <<disk, outer, seen, version, whole, buffer, ident, faults, writes, coarse>>

\* _admit_fresh_read: a Git workspace scans its root, a plain one what the read names.
Scope(named) == IF whole THEN File ELSE named

Admitted_First == IF read.attempt = 1 THEN version' ELSE read.admitted
Admitted == version'

Preflight ==
    /\ read.pc = "preflight"
    /\ Scan(Scope({"source"}))
    /\ read' = [NoRead EXCEPT !.pc = "load", !.attempt = read.attempt, !.admitted = Admitted]
    /\ Same

Witnessed(f, v) == [read.witness EXCEPT ![f] = @ \cup {v}]

\* _load_document: the worker reads the file and opens it; the caller keeps a witness.
LoadDocument ==
    /\ read.pc = "load"
    /\ \/ /\ disk["source"].val = 0
          /\ read' = [read EXCEPT !.pc = "postflight", !.result = "missing", !.failed = {"source"}]
          /\ SameStore
       \/ /\ disk["source"].val # 0
          /\ buffer' = Opened("source")
          /\ ident' = [ident EXCEPT !.doc = @ + 1]
          /\ read' = [read EXCEPT !.pc = "capture", !.snap["source"] = disk["source"].val]
          /\ UNCHANGED <<seen, version>>
    /\ Same

\* The rest of _load_document, on the caller's thread: the adapter's facts and the witness.
CaptureIdentity ==
    /\ read.pc = "capture"
    /\ read' = [read EXCEPT !.pc = "prepare?", !.ident = ident,
                            !.witness = Witnessed("source", read.snap["source"])]
    /\ Same /\ SameStore

\* The transaction starts only when the adapter is still as it was after the load.
SourceIsCurrent == ident = read.ident

StartTransaction ==
    /\ read.pc = "prepare?"
    /\ IF SourceIsCurrent THEN Goto("prepare") ELSE Refuse("not_ready")
    /\ Same /\ SameStore

\* _bind_semantic_targets_with_client, for the one file besides the source.
Bind(pc) ==
    \/ /\ disk["target"].val = 0
       /\ Validate("missing") /\ SameStore
    \/ /\ disk["target"].val # 0
       /\ buffer' = Opened("target")
       /\ ident' = [ident EXCEPT !.doc = @ + 1]
       /\ read' = [read EXCEPT !.pc = pc, !.snap["target"] = disk["target"].val,
                               !.witness = Witnessed("target", disk["target"].val)]
       /\ UNCHANGED <<seen, version>>

\* _prepare_typescript_semantic_owner_with_client: a hint may name the target early.
Prepare ==
    /\ read.pc = "prepare"
    /\ \/ Goto("first") /\ SameStore
       \/ Bind("first")
    /\ Same

\* What the server answers over: its open copies, and the disk for everything else.
View == [f \in File |-> IF buffer[f] # 0 THEN buffer[f] ELSE disk[f].val]

ReplayIsCurrent == ident.proc = read.ident.proc

FirstRequest ==
    /\ read.pc = "first"
    /\ IF ReplayIsCurrent THEN read' = [read EXCEPT !.pc = "bind", !.first = View]
                          ELSE Refuse("not_ready")
    /\ Same /\ SameStore

BindTargets ==
    /\ read.pc = "bind"
    /\ Bind("digest")
    /\ Same

\* The identity is checked and taken anew, and the external file is looked at.
ObserveExternal ==
    /\ read.pc = "digest"
    /\ IF ReplayIsCurrent
       THEN read' = [read EXCEPT !.pc = "second", !.ident = ident, !.digests = {outer}]
       ELSE Refuse("not_ready")
    /\ Same /\ SameStore

SecondRequest ==
    /\ read.pc = "second"
    /\ read' = [read EXCEPT !.pc = "compare", !.over = View, !.outerOver = outer]
    /\ Same /\ SameStore

\* _response_adapter_states_are_current
StatesAreCurrent == ident = read.ident

\* The two answers are compared: over the same texts they are the same locations,
\* and over different texts they may be.
Compare ==
    /\ read.pc = "compare"
    /\ \/ ~ StatesAreCurrent /\ Refuse("not_ready")
       \/ StatesAreCurrent /\ read.first # read.over /\ Validate("moved")
       \/ StatesAreCurrent /\ Goto("witness")
    /\ Same /\ SameStore

\* _witness_external_targets, and the rendering of the answer from the bound texts.
WitnessExternal == read.digests \cup {outer}

Render ==
    /\ read.pc = "witness"
    /\ IF StatesAreCurrent
       THEN read' = [read EXCEPT !.pc = "postflight", !.result = "success", !.digests = WitnessExternal]
       ELSE Refuse("not_ready")
    /\ Same /\ SameStore

\* The scope of the last scan: what was named, what is witnessed and what failed.
Owned == {f \in File : read.witness[f] # {}} \cup read.failed

Postflight ==
    /\ read.pc = "postflight"
    /\ Scan(Scope({"source"} \cup Owned))
    /\ read' = [read EXCEPT !.pc = "evidence", !.held = [f \in File |-> disk[f].val]]
    /\ Same

\* _fresh_read_change_evidence
Mismatched_Last == {f \in File : read.witness[f] # {} /\ seen[f][1] \notin read.witness[f]}
Mismatched == {f \in File : \E v \in read.witness[f] : v # seen[f][1]}
Unchanged_ByWitness == Mismatched = {} /\ read.digests \subseteq {outer}
Unchanged == version = read.admitted /\ Mismatched = {} /\ read.digests \subseteq {outer}

Decide ==
    /\ read.pc = "evidence"
    /\ \/ Unchanged /\ Goto("idle")
       \/ /\ ~ Unchanged /\ read.attempt < MAX_FRESH_READ_ATTEMPTS
          /\ read' = [read EXCEPT !.pc = "preflight", !.attempt = @ + 1]
       \/ /\ ~ Unchanged /\ read.attempt = MAX_FRESH_READ_ATTEMPTS
          /\ Refuse("changed")
    /\ Same /\ SameStore

\* The deadline passes at a request: the operation reports it and nothing is validated.
TimesOut ==
    /\ read.pc \in {"capture", "first", "bind", "second"}
    /\ Refuse("timed_out")
    /\ Same /\ SameStore

Read ==
    \/ Begin \/ Preflight \/ LoadDocument \/ CaptureIdentity \/ StartTransaction
    \/ Prepare \/ FirstRequest \/ BindTargets \/ ObserveExternal \/ SecondRequest
    \/ Compare \/ Render \/ Postflight \/ Decide \/ TimesOut

Next ==
    \/ Read
    \/ \E f \in File : Write(f) \/ StrayLoad(f)
    \/ WriteOuter \/ ServerDies

Spec == Init /\ [][Next]_vars

-------------------------------------------------------------------------------
(* Properties *)

Answered == read.pc = "idle" /\ read.result = "success"

\* An answer that is returned shows every file as the last guarded scan found it, all
\* of them at that one moment, whatever was rewritten and restored on the way: no part
\* of it comes from an older or a passing text (_run_fresh_read's witnesses).
ReturnedIsFinal == Answered => read.snap = read.held

\* The locations of a returned answer were computed over exactly the texts it is
\* rendered from, and over the external bytes its witnesses agree on, although stray
\* loads and a new server process change what the server has open between
\* the steps (_stabilize_semantic_locations).  Only a rewrite that leaves no trace in a
\* file's stat is beyond the identities it compares.
RangesMatchText ==
    Answered => /\ ~ coarse => read.over = read.snap
                /\ read.digests = {read.outerOver}

\* A workspace that is scanned whole refuses a read as changed only if something was
\* really written during the second attempt: an older change costs at most the replay.
RefusalJustified == whole /\ read.pc = "idle" /\ read.result = "changed" => read.dirty

===============================================================================
