------------------------------ MODULE MCWorker ------------------------------
(* The two executors of a workspace, from below and from above: a behaviour    *)
(* follows either the threads of one BoundedLspExecutor (Executor) or two      *)
(* edits that go through both of them, used by their promise                   *)
(* (EditTransaction).  The other one's variables rest.                         *)
EXTENDS Executor, EditContents

VARIABLES
    focus,
    tOlder, tStatus, tOpen, aOlder, aStatus, aOpen,
    started, commit, outer, inner, answer, expected, seen, content

Edits == INSTANCE EditTransaction

edits == <<tOlder, tStatus, tOpen, aOlder, aStatus, aOpen,
           started, commit, outer, inner, answer, expected, seen, content>>
allVars == <<vars, focus, edits>>

MCInit == focus \in {"executor", "edit"} /\ Init /\ Edits!Init

MCNext ==
    /\ UNCHANGED focus
    /\ \/ focus = "executor" /\ Next /\ UNCHANGED edits
       \/ focus = "edit" /\ Edits!Next /\ UNCHANGED vars

\* The fairness of the two specifications, each in its focus.
MCSpec ==
    /\ MCInit /\ [][MCNext]_allVars
    /\ WF_allVars(focus = "executor" /\ WorkerStep /\ UNCHANGED <<focus, edits>>)
    /\ \A c \in Closer : WF_allVars(focus = "executor" /\ CloserStep(c) /\ UNCHANGED <<focus, edits>>)
    /\ WF_allVars(focus = "edit" /\ Edits!TxStep /\ UNCHANGED <<focus, vars>>)
    /\ \A e \in Edit : WF_allVars(focus = "edit" /\ Edits!CancelTransaction(e) /\ UNCHANGED <<focus, vars>>)

\* The answer of replace_symbol_body tells whether the file was changed.
AnswersTruthful == Edits!AnswersTruthful

\* An edit never replaces what another edit wrote unless its caller had read it; an
\* outside writer's bytes are not covered.
NoUnseenOverwrite == Edits!NoUnseenOverwrite

\* A language server that never answers cannot keep stop from draining the transactions.
StopDrains == Edits!StopDrains
=============================================================================
