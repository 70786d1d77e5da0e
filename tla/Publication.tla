------------------------------ MODULE Publication ------------------------------
(***************************************************************************)
(* publish_immutable_record: a receipt is staged under a temporary name,   *)
(* linked to its final name, and proven durable, all inside the run's      *)
(* deadline.  A step that fails after the link, or a ceiling that arrives, *)
(* withdraws the two names of this call and proves the withdrawal durable. *)
(*                                                                         *)
(* The directory itself is made by the first call that needs it, and its   *)
(* parent is not fsynced: a power loss may take a directory made by this   *)
(* run away again, with all that is in it.                                 *)
(***************************************************************************)
EXTENDS EvaluationHost

VARIABLES
    records,   \* the directory the receipts are published in
    pub,       \* one call of publish_immutable_record per evaluator
    rooted     \* whether the directory was there, durably, before the run

pubVars == <<records, pub>>

Final(e) == <<"final", e>>
Temporary(e) == <<"temporary", e>>
NoPub == [stage |-> "idle"]
Publishing == {"stage", "link", "linked", "discard", "withdraw"}

\* _open_target_directory
Opened == Directory([n \in {"final", "temporary"} \X Evaluators |-> NoFile])

PubInit ==
    /\ records = Opened
    /\ rooted \in BOOLEAN
    /\ pub = [e \in Evaluators |-> NoPub]

StageSteps == <<"clear", "create", "write", "close">>
DiscardSteps == <<"clear", "sync">>
LinkedSteps == <<"sync", "check", "clear", "check", "sync", "check">>
WithdrawSteps_Unproven == <<"unlink", "clear">>
WithdrawSteps == <<"unlink", "clear", "sync">>

\* report: what the caller is told; a withdrawal that could not be completed outranks it
To(e, stage, todo, report) == pub' = [pub EXCEPT ![e].stage = stage, ![e].todo = todo, ![e].report = report]
Ends(e, report) == pub' = [pub EXCEPT ![e] = [stage |-> "ended", report |-> report, payload |-> pub[e].payload]]
Holder(e) == pub[e].stage \in Publishing

StartPublication(e, payload) ==
    /\ pub[e].stage = "idle"
    /\ pub' = [pub EXCEPT ![e] = [stage |-> "waiting", todo |-> <<>>, report |-> "none", payload |-> payload]]
    /\ UNCHANGED records

\* the directory cannot be opened or made, or its lock file cannot
OpenFails(e) == pub[e].stage = "waiting" /\ Ends(e, "failed") /\ UNCHANGED records

LockPublication(e) ==
    /\ pub[e].stage = "waiting"
    /\ \A other \in Evaluators : ~Holder(other)
    /\ To(e, "stage", StageSteps, "none")
    /\ UNCHANGED records

LockExpires(e) ==
    /\ pub[e].stage = "waiting"
    /\ Expired(e) /\ \E other \in Evaluators : Holder(other)
    /\ Ends(e, "deadline")
    /\ UNCHANGED records

StepEffect(e, step) ==
    CASE step = "clear" -> Put(records, Temporary(e), NoFile)
      [] step = "unlink" -> Put(records, Final(e), NoFile)
      [] step = "create" -> Put(records, Temporary(e), File(Torn))
      [] step = "write" -> Put(records, Temporary(e), File(pub[e].payload))
      [] step = "sync" -> Synced(records)
      [] OTHER -> records

\* the deadline is looked at before each chunk is written and at every checkpoint
Late(e, step) == step \in {"write", "check"} /\ Expired(e)

PublicationStep(e) ==
    /\ Holder(e)
    /\ pub[e].todo # <<>>
    /\ LET step == Head(pub[e].todo) IN
       IF Late(e, step)
       THEN /\ IF step = "write" THEN To(e, "discard", DiscardSteps, "deadline")
                                 ELSE To(e, "withdraw", WithdrawSteps, "deadline")
            /\ UNCHANGED records
       ELSE /\ records' = StepEffect(e, step)
            /\ pub' = [pub EXCEPT ![e].todo = Tail(@)]

\* staging fails; clearing the old temporary is the one staging step with nothing to discard
StageFails(e) ==
    /\ pub[e].stage = "stage" /\ pub[e].todo # <<>>
    /\ IF Head(pub[e].todo) = "clear" THEN Ends(e, "failed") ELSE To(e, "discard", DiscardSteps, "failed")
    /\ UNCHANGED records

DiscardFails(e) ==
    /\ pub[e].stage = "discard" /\ pub[e].todo # <<>>
    /\ Ends(e, "failed")
    /\ UNCHANGED records

RequireWindow(e) ==
    /\ pub[e].stage = "stage" /\ pub[e].todo = <<>>
    /\ IF WindowClosed(e) THEN To(e, "discard", DiscardSteps, "deadline") ELSE To(e, "link", <<>>, "none")
    /\ UNCHANGED records

Link(e) ==
    /\ pub[e].stage = "link"
    /\ records' = Put(records, Final(e), records.live[Temporary(e)])
    /\ To(e, "linked", LinkedSteps, "none")

\* the name exists already, or the link is refused
LinkFails(e) ==
    /\ pub[e].stage = "link"
    /\ To(e, "discard", DiscardSteps, "failed")
    /\ UNCHANGED records

AfterLinkFailure_Raise(e) == Ends(e, "failed")
AfterLinkFailure(e) == To(e, "withdraw", WithdrawSteps, "failed")

LinkedStepFails(e) ==
    /\ pub[e].stage = "linked" /\ pub[e].todo # <<>> /\ Head(pub[e].todo) # "check"
    /\ AfterLinkFailure(e)
    /\ UNCHANGED records

\* a refused unlink is reported after the other name is gone; a failed barrier at once
WithdrawStepFails(e) ==
    /\ pub[e].stage = "withdraw" /\ pub[e].todo # <<>>
    /\ IF Head(pub[e].todo) = "sync" THEN Ends(e, "unproven")
                                     ELSE To(e, "withdraw", Tail(pub[e].todo), "unproven")
    /\ UNCHANGED records

PublicationEnds(e) ==
    /\ pub[e].stage \in {"linked", "discard", "withdraw"} /\ pub[e].todo = <<>>
    /\ Ends(e, IF pub[e].stage = "linked" THEN "published" ELSE pub[e].report)
    /\ UNCHANGED records

PubStep(e) ==
    \/ LockPublication(e) \/ LockExpires(e) \/ PublicationStep(e) \/ RequireWindow(e) \/ Link(e) \/ PublicationEnds(e)

PubFails(e) ==
    \/ OpenFails(e) \/ StageFails(e) \/ DiscardFails(e) \/ LinkFails(e) \/ LinkedStepFails(e) \/ WithdrawStepFails(e)

\* the directories a power loss may leave
RecordsLosePower == records' \in AfterPowerLoss(records) \cup (IF rooted THEN {} ELSE {Opened})

-----------------------------------------------------------------------------
Images == {records.live, records.durable} \cup records.maybe

\* What the caller is told is what the disk will say: a published record survives any
\* power loss with its bytes, and a publication reported as failed or late leaves no record
\* that a power loss could bring back, unless the report says the withdrawal is unproven.
\* A record in a directory that the run made itself survives only until power is lost: the
\* directory's own entry is never made durable.
ReportMatchesRecord ==
    \A e \in Evaluators : pub[e].stage = "ended" =>
        CASE pub[e].report = "published" ->
               \A image \in IF rooted THEN Images ELSE IF power THEN {} ELSE {records.live} :
                   image[Final(e)] = File(pub[e].payload)
          [] pub[e].report \in {"failed", "deadline"} -> \A image \in Images : ~Present(image[Final(e)])
          [] OTHER -> TRUE
=============================================================================
