---------------------------- MODULE EditTransaction ----------------------------
(* replace_symbol_body end to end.  The caller queues an edit on the workspace *)
(* transaction executor; the transaction queues the guarded edit itself on the *)
(* adapter executor and waits for it.  Either wait may time out, the runtime   *)
(* may stop, and another program may write the file at any moment.             *)
(* Both executors are used through what they promise (SerialExecutor).         *)
EXTENDS EditContents, FiniteSets

VARIABLES
    tOlder, tStatus, tOpen,   \* the workspace transaction executor
    aOlder, aStatus, aOpen,   \* the adapter executor
    started,    \* the outer EditCommit of each edit: has it been marked running
    commit,     \* the EditCommit shared with the adapter's worker
    outer,      \* where each transaction is, its result once it has one
    inner,      \* where each guarded edit is, its result once it has one
    answer,     \* what the caller was told
    expected,   \* what the file held when the caller read its hash
    seen,       \* what the guarded edit read first
    content     \* what the file holds: the edit or the program that wrote it

txVars == <<tOlder, tStatus, tOpen>>
adVars == <<aOlder, aStatus, aOpen>>
editVars == <<started, commit, outer, inner, answer, expected, seen, content>>
vars == <<txVars, adVars, editVars>>

T == INSTANCE SerialExecutor WITH Item <- Edit, older <- tOlder, status <- tStatus, open <- tOpen
A == INSTANCE SerialExecutor WITH Item <- Edit, older <- aOlder, status <- aStatus, open <- aOpen

\* "stale" is STALE_HASH, "failed" any other error of an edit that was not
\* installed, "raised" an exception on its way to the waiting thread.
Result == {"success", "stale", "failed", "uncertain", "timedOut", "stopped"}

\* The states of a concurrent.futures future.
Status == {"none", "pending", "running", "done", "cancelled"}

Init ==
    /\ T!Init /\ A!Init
    /\ started = [e \in Edit |-> FALSE]
    /\ commit = [e \in Edit |-> "queued"]
    /\ outer = [e \in Edit |-> "none"]
    /\ inner = [e \in Edit |-> "none"]
    /\ answer = [e \in Edit |-> "none"]
    /\ expected = [e \in Edit |-> Original]
    /\ seen = [e \in Edit |-> Original]
    /\ content = Original

-------------------------------------------------------------------------------
(* The caller *)

\* The caller has read the file; its edit is admitted or the runtime is stopped.
Call(e) ==
    /\ answer[e] = "none" /\ tStatus[e] = "none"
    /\ expected' = [expected EXCEPT ![e] = content]
    /\ \/ T!Admit(e) /\ UNCHANGED answer
       \/ ~tOpen /\ answer' = [answer EXCEPT ![e] = "stopped"] /\ UNCHANGED txVars
       \/ answer' = [answer EXCEPT ![e] = "failed"] /\ UNCHANGED txVars
    /\ UNCHANGED <<adVars, started, commit, outer, inner, seen, content>>

\* future.result returns, or raises CancelledError.
Answered(e) ==
    /\ answer[e] = "none"
    /\ \/ tStatus[e] = "done" /\ answer' = [answer EXCEPT ![e] = outer[e]]
       \/ tStatus[e] = "cancelled" /\ answer' = [answer EXCEPT ![e] = "stopped"]
    /\ UNCHANGED <<txVars, adVars, started, commit, outer, inner, expected, seen, content>>

\* future.cancel() succeeds on a future that never started.
Cancellable(status, e) == status[e] \in {"pending", "cancelled"}

\* A mutant: the commit state alone decides, and the transaction stays queued.
CallTimesOut_NoCancel(e) ==
    /\ answer[e] = "none" /\ tStatus[e] # "none"
    /\ answer' = [answer EXCEPT ![e] = IF ~started[e] THEN "timedOut" ELSE "uncertain"]
    /\ UNCHANGED <<txVars, adVars, started, commit, outer, inner, expected, seen, content>>

\* The caller's own wait is over: the transaction is cancelled, or uncertain.
CallTimesOut(e) ==
    /\ answer[e] = "none" /\ tStatus[e] # "none"
    /\ answer' = [answer EXCEPT ![e] =
          IF Cancellable(tStatus, e) /\ ~started[e] THEN "timedOut" ELSE "uncertain"]
    /\ IF tStatus[e] = "pending" THEN T!Drop(e) ELSE UNCHANGED txVars
    /\ UNCHANGED <<adVars, started, commit, outer, inner, expected, seen, content>>

-------------------------------------------------------------------------------
(* The transaction, on the worker of the transaction executor *)

TxGoes(e, from, to) ==
    /\ tStatus[e] = "running"
    /\ outer[e] = from
    /\ outer' = [outer EXCEPT ![e] = to]

\* preflighted: the outer commit is marked before anything else.
TxStart(e) ==
    /\ T!Start(e)
    /\ outer' = [outer EXCEPT ![e] = "begun"]
    /\ UNCHANGED <<adVars, started, commit, inner, answer, expected, seen, content>>

TxMark(e) ==
    /\ TxGoes(e, "begun", "preflight")
    /\ started' = [started EXCEPT ![e] = TRUE]
    /\ UNCHANGED <<txVars, adVars, commit, inner, answer, expected, seen, content>>

\* ensure_fresh and _edit_adapter may fail; then the edit is submitted once.
TxSubmit(e) ==
    /\ \/ TxGoes(e, "preflight", "wait") /\ A!Admit(e)
       \/ TxGoes(e, "preflight", "failed") /\ UNCHANGED adVars
    /\ UNCHANGED <<txVars, started, commit, inner, answer, expected, seen, content>>

\* Whether the replacement provably reached the filesystem.
Installed(e) == commit[e] \in {"installed", "done"}

\* What the transaction makes of a guarded edit that returned or raised.
TxReceive(e) ==
    /\ \/ aStatus[e] = "done" /\ inner[e] # "raised" /\ TxGoes(e, "wait", inner[e])
       \/ aStatus[e] = "done" /\ inner[e] = "raised"
          /\ TxGoes(e, "wait", IF Installed(e) THEN "uncertain" ELSE "failed")
    /\ UNCHANGED <<txVars, adVars, started, commit, inner, answer, expected, seen, content>>

\* A mutant: a wait without a bound.
TxTimesOut_Never(e) == FALSE /\ UNCHANGED vars

\* The transaction's wait for the adapter is over.
TxTimesOut(e) ==
    /\ TxGoes(e, "wait", IF Cancellable(aStatus, e) /\ commit[e] = "queued"
                         THEN "timedOut" ELSE "uncertain")
    /\ IF aStatus[e] = "pending" THEN A!Drop(e) ELSE UNCHANGED adVars
    /\ UNCHANGED <<txVars, started, commit, inner, answer, expected, seen, content>>

TxEnd(e) ==
    /\ outer[e] \in Result
    /\ T!End(e)
    /\ UNCHANGED <<adVars, editVars>>

-------------------------------------------------------------------------------
(* The guarded edit, on the worker of the adapter executor *)

EditGoes(e, from, to) ==
    /\ aStatus[e] = "running"
    /\ inner[e] = from
    /\ inner' = [inner EXCEPT ![e] = to]

EditUnchanged == UNCHANGED <<txVars, adVars, started, outer, answer, expected>>

\* A read of the target finds the bytes this edit read first, or other ones, or
\* no regular file in the guarded directory.
EditRereads(e, from, to) ==
    /\ \/ EditGoes(e, from, IF content = seen[e] THEN to ELSE "stale")
       \/ EditGoes(e, from, "failed")
    /\ EditUnchanged /\ UNCHANGED <<commit, seen, content>>

\* Admission may be sealed and the language server may not start.
EditStart(e) ==
    /\ A!Start(e)
    /\ \E to \in {"mark", "raised"} : inner' = [inner EXCEPT ![e] = to]
    /\ UNCHANGED <<txVars, started, commit, outer, answer, expected, seen, content>>

\* mark_running
EditMark(e) ==
    /\ EditGoes(e, "mark", "read")
    /\ commit' = [commit EXCEPT ![e] = "running"]
    /\ EditUnchanged /\ UNCHANGED <<seen, content>>

\* A mutant: the caller's hash is not compared.
EditRead_NoHash(e) ==
    /\ EditGoes(e, "read", "resolve")
    /\ seen' = [seen EXCEPT ![e] = content]
    /\ EditUnchanged /\ UNCHANGED <<commit, content>>

\* Authorize, read, compare with the caller's hash.
EditRead(e) ==
    /\ \/ EditGoes(e, "read", IF content = expected[e] THEN "resolve" ELSE "stale")
       \/ EditGoes(e, "read", "failed")
    /\ seen' = [seen EXCEPT ![e] = content]
    /\ EditUnchanged /\ UNCHANGED <<commit, content>>

\* Ask the language server for the symbol: it may be missing, ambiguous, or the
\* server may be lost.
EditResolve(e) ==
    /\ \E to \in {"confirm", "failed", "raised"} : EditGoes(e, "resolve", to)
    /\ EditUnchanged /\ UNCHANGED <<commit, seen, content>>

\* Another program does not share the executor: read again before writing.
EditConfirm(e) == EditRereads(e, "confirm", "write")

\* Write and flush the temporary file beside the target.
EditWrite(e) ==
    /\ \E to \in {"compare", "raised"} : EditGoes(e, "write", to)
    /\ EditUnchanged /\ UNCHANGED <<commit, seen, content>>

\* The last look at the target, between two checks of its directory.
EditCompare(e) == EditRereads(e, "compare", "replace")

\* os.replace, or its failure.
EditReplace(e) ==
    /\ \/ EditGoes(e, "replace", "install") /\ content' = e
       \/ EditGoes(e, "replace", "raised") /\ UNCHANGED content
    /\ EditUnchanged /\ UNCHANGED <<commit, seen>>

\* mark_installed
EditInstalled(e) ==
    /\ EditGoes(e, "install", "settle")
    /\ commit' = [commit EXCEPT ![e] = "installed"]
    /\ EditUnchanged /\ UNCHANGED <<seen, content>>

\* Recheck the directory, flush it, remove the temporary file.
EditSettle(e) ==
    /\ \E to \in {"notify", "uncertain", "raised"} : EditGoes(e, "settle", to)
    /\ EditUnchanged /\ UNCHANGED <<commit, seen, content>>

\* Tell the language server; only then is the edit done.
EditNotify(e) ==
    /\ \/ EditGoes(e, "notify", "success") /\ commit' = [commit EXCEPT ![e] = "done"]
       \/ EditGoes(e, "notify", "uncertain") /\ UNCHANGED commit
    /\ EditUnchanged /\ UNCHANGED <<seen, content>>

EditEnd(e) ==
    /\ inner[e] \in Result \cup {"raised"}
    /\ A!End(e)
    /\ UNCHANGED <<txVars, editVars>>

-------------------------------------------------------------------------------
(* The rest of the world *)

\* Another program writes the file, or puts back what it held before.
ForeignWrite(f) ==
    /\ content' = f
    /\ UNCHANGED <<txVars, adVars, started, commit, outer, inner, answer, expected, seen>>

\* stop seals and drains the transaction executor first.
StopTransactions ==
    /\ T!Shut
    /\ UNCHANGED <<adVars, editVars>>

CancelTransaction(e) ==
    /\ ~tOpen
    /\ T!Drop(e)
    /\ UNCHANGED <<adVars, editVars>>

\* The adapter executor is closed once no transaction runs or waits.
StopAdapter ==
    /\ ~tOpen
    /\ \A e \in Edit : tStatus[e] \notin {"pending", "running"}
    /\ A!Shut
    /\ UNCHANGED <<txVars, editVars>>

Next ==
    \/ \E e \in Edit :
          \/ Call(e) \/ Answered(e) \/ CallTimesOut(e)
          \/ TxStart(e) \/ TxMark(e) \/ TxSubmit(e) \/ TxReceive(e) \/ TxTimesOut(e) \/ TxEnd(e)
          \/ EditStart(e) \/ EditMark(e) \/ EditRead(e) \/ EditResolve(e) \/ EditConfirm(e)
          \/ EditWrite(e) \/ EditCompare(e) \/ EditReplace(e) \/ EditInstalled(e)
          \/ EditSettle(e) \/ EditNotify(e) \/ EditEnd(e)
          \/ CancelTransaction(e)
    \/ \E f \in Foreign : ForeignWrite(f)
    \/ StopTransactions \/ StopAdapter

Spec == Init /\ [][Next]_vars

\* What the transaction's worker does by itself.  The guarded edit is left out:
\* a language server may never answer.
TxStep == \E e \in Edit :
    TxStart(e) \/ TxMark(e) \/ TxSubmit(e) \/ TxReceive(e) \/ TxTimesOut(e) \/ TxEnd(e)

FairSpec == Spec /\ WF_vars(TxStep) /\ \A e \in Edit : WF_vars(CancelTransaction(e))

-------------------------------------------------------------------------------
(* Properties *)

\* Every variable has its type: both commit objects only move through the states
\* of _COMMIT_ORDER, and every result is one that a caller can be told.
TypeOK ==
    /\ tOlder \in [Edit -> SUBSET Edit] /\ aOlder \in [Edit -> SUBSET Edit]
    /\ tStatus \in [Edit -> Status] /\ aStatus \in [Edit -> Status]
    /\ tOpen \in BOOLEAN /\ aOpen \in BOOLEAN
    /\ started \in [Edit -> BOOLEAN]
    /\ commit \in [Edit -> {"queued", "running", "installed", "done"}]
    /\ outer \in [Edit -> {"none", "begun", "preflight", "wait"} \cup Result]
    /\ inner \in [Edit -> {"none", "mark", "read", "resolve", "confirm", "write", "compare",
                           "replace", "install", "settle", "notify", "raised"} \cup Result]
    /\ answer \in [Edit -> {"none"} \cup Result]
    /\ expected \in [Edit -> Content] /\ seen \in [Edit -> Content]
    /\ content \in Content

\* Whether os.replace of this edit has happened.
Wrote(e) == content = e \/ inner[e] = "install" \/ commit[e] \in {"installed", "done"}

\* The answer tells whether the file was changed.  An edit answered with an error
\* other than UNCERTAIN has not changed it and never will: TIMED_OUT means the
\* work provably never ran, however the caller's timeout, the adapter's timeout,
\* the stop and the worker race.  An edit answered with success has changed it.
AnswersTruthful ==
    \A e \in Edit :
       /\ answer[e] \in {"timedOut", "stopped", "failed", "stale"} => ~Wrote(e)
       /\ answer[e] = "success" => Wrote(e)

\* An edit never replaces what another edit wrote unless its caller had read it:
\* a caller that repeats an old hash cannot undo or repeat an installed edit.
\* What an outside writer puts there after the last comparison may be lost: the
\* code has no lock against it, and the property does not speak of it.
NoUnseenOverwrite ==
    [][\A e \in Edit : content' = e /\ content # e => content \notin Edit \ {expected[e]}]_vars

\* When stop closes the adapter executor, no guarded edit is queued there any
\* more: cancelling what is queued cannot hide an edit from a waiting caller.
ClosedWithoutEdits == ~aOpen => \A e \in Edit : aStatus[e] # "pending"

\* A language server that never answers cannot keep stop from draining the
\* transactions: every one is cancelled or ends after a bounded wait.
StopDrains == []<>(tOpen \/ \A e \in Edit : tStatus[e] \notin {"pending", "running"})
===============================================================================
