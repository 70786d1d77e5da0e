------------------------------- MODULE Admission -------------------------------
(***************************************************************************)
(* run_admission: collect the evidence in its canonical order, clean up,   *)
(* bracket production and the evaluator once more, build the receipt and   *)
(* publish it.                                                             *)
(*                                                                         *)
(* compile_candidate_lock and prepare_candidate_runtime are modelled on    *)
(* their own (CandidateLock, CandidateRuntime); here each is a call that   *)
(* brackets production itself and returns or fails.                        *)
(***************************************************************************)
EXTENDS Publication, CorpusManifest

VARIABLES
    adm,         \* one run of the admission gate per evaluator
    evaluator    \* version of the evaluator's own sources and interpreter

admissionVars == <<pubVars, corpusVars, adm, evaluator>>

CollectSteps ==
    <<"evaluator", "bootstrap", "production_before", "corpus_before", "captured_before",
      "lock_called", "lock_returned", "runtime_called", "runtime_returned", "bind",
      "corpus_after", "captured_after", "enrich", "deltas", "production_after">>
FinalSteps == <<"cleanup", "final", "recapture", "receipt">>

NoAdmission == [stage |-> "idle"]
Evidence == [evaluator |-> Unread, before |-> Unread, inner |-> Unread, final |-> Unread,
             lock |-> FALSE, runtime |-> FALSE, manifest_before |-> Blank, manifest_after |-> Blank]

AdmissionInit ==
    /\ PubInit /\ CorpusInit
    /\ adm = [e \in Evaluators |-> NoAdmission]
    /\ evaluator = 0

\* moved: history, what changed since this run first looked at it
StartAdmission(e, kind) ==
    /\ adm[e].stage = "idle"
    /\ adm' = [adm EXCEPT ![e] = [stage |-> "collect", todo |-> CollectSteps, status |-> "pass", kind |-> kind,
                                  seen |-> Evidence, moved |-> {}]]
    /\ UNCHANGED <<pubVars, corpusVars, evaluator>>

Now(e) == Head(adm[e].todo)
Doing(e, stage, step) == adm[e].stage = stage /\ adm[e].todo # <<>> /\ Now(e) = step
Proceeds(e) == adm' = [adm EXCEPT ![e].todo = Tail(@)]
Learns(e, field, value) == adm' = [adm EXCEPT ![e].todo = Tail(@), ![e].seen[field] = value]

\* an AdmissionError inside _collect ends the collection with a status; the first one counts
Stops(e, status) == adm' = [adm EXCEPT ![e].stage = "finalize", ![e].todo = FinalSteps, ![e].status = status]

\* outside it, no receipt is published at all
Raises(e) == adm' = [adm EXCEPT ![e] = [stage |-> "raised"]]

-----------------------------------------------------------------------------
\* _collect: the ceiling is looked at around every external step.

OutOfTime(e) ==
    /\ adm[e].stage = "collect" /\ CollectExpired(e)
    /\ Stops(e, "incomplete")
    /\ capture' = [capture EXCEPT ![e] = NoCapture]
    /\ UNCHANGED <<pubVars, corpus, evaluator>>

\* an external step fails: evaluator sources that no longer bind are a hold
StepFails(e) ==
    /\ adm[e].stage = "collect" /\ adm[e].todo # <<>>
    /\ \E status \in {"incomplete", "hold"} : Stops(e, status)
    /\ capture' = [capture EXCEPT ![e] = NoCapture]
    /\ UNCHANGED <<pubVars, corpus, evaluator>>

Observes(e) ==
    /\ adm[e].stage = "collect" /\ adm[e].todo # <<>> /\ ~CollectExpired(e)
    /\ \/ Now(e) = "evaluator" /\ Learns(e, "evaluator", evaluator)
       \/ Now(e) = "bootstrap" /\ Proceeds(e)
       \/ Now(e) = "production_before" /\ Learns(e, "before", production)
    /\ UNCHANGED <<pubVars, corpusVars, evaluator>>

CaptureCorpus(e) ==
    /\ \E step \in {"corpus_before", "corpus_after"} : Doing(e, "collect", step)
    /\ ~CollectExpired(e)
    /\ BeginCapture(e, adm[e].kind)
    /\ Proceeds(e)
    /\ UNCHANGED <<pubVars, corpus, evaluator>>

CorpusCaptured(e) ==
    /\ \E when \in {"before", "after"} :
         /\ Doing(e, "collect", IF when = "before" THEN "captured_before" ELSE "captured_after")
         /\ ~CollectExpired(e)
         /\ \/ Captured(e) /\ Learns(e, IF when = "before" THEN "manifest_before" ELSE "manifest_after", Manifest(e))
            \/ capture[e].stage = "unstable" /\ Stops(e, "incomplete")
    /\ capture' = [capture EXCEPT ![e] = NoCapture]
    /\ UNCHANGED <<pubVars, corpus, evaluator>>

\* the calls that resolve the lock and prepare the runtime hold production in a bracket
Calls(e) ==
    /\ \E step \in {"lock_called", "runtime_called"} : Doing(e, "collect", step)
    /\ ~CollectExpired(e)
    /\ Learns(e, "inner", production)
    /\ UNCHANGED <<pubVars, corpusVars, evaluator>>

Returns(e) ==
    /\ \E name \in {"lock", "runtime"} :
         /\ Doing(e, "collect", IF name = "lock" THEN "lock_returned" ELSE "runtime_returned")
         /\ ~CollectExpired(e)
         /\ IF production # adm[e].seen.inner THEN Stops(e, "hold") ELSE Learns(e, name, TRUE)
    /\ UNCHANGED <<pubVars, corpusVars, evaluator>>

\* the runtime's manifest is digested again from disk; another manifest is a hold
BindRuntime(e) ==
    /\ Doing(e, "collect", "bind") /\ ~CollectExpired(e)
    /\ Proceeds(e) \/ Stops(e, "hold")
    /\ UNCHANGED <<pubVars, corpusVars, evaluator>>

Deltas(e) ==
    /\ LET before == adm[e].seen.manifest_before
           after == adm[e].seen.manifest_after
       IN  \/ Doing(e, "collect", "enrich") /\ IF Enrichable(before, after) THEN Proceeds(e) ELSE Stops(e, "incomplete")
           \/ Doing(e, "collect", "deltas") /\ IF WriteDelta(before, after) = {} THEN Proceeds(e) ELSE Stops(e, "hold")
    /\ UNCHANGED <<pubVars, corpusVars, evaluator>>

CollectEnds(e) ==
    /\ Doing(e, "collect", "production_after") /\ ~CollectExpired(e)
    /\ Stops(e, IF production = adm[e].seen.before THEN "pass" ELSE "hold")
    /\ UNCHANGED <<pubVars, corpusVars, evaluator>>

-----------------------------------------------------------------------------
\* Finalization, under the ceiling itself: a step that cannot be completed raises.

Downgraded(e, worse) == IF adm[e].status = "pass" THEN worse ELSE adm[e].status

\* a failed cleanup, or one that had something to remove, can never pass
Cleanup(e) ==
    /\ Doing(e, "finalize", "cleanup")
    /\ IF Expired(e) THEN Raises(e) ELSE Proceeds(e)
    /\ UNCHANGED <<pubVars, corpusVars, evaluator>>
CleanupFails(e) ==
    /\ Doing(e, "finalize", "cleanup") /\ adm[e].seen.before # Unread
    /\ adm' = [adm EXCEPT ![e].todo = Tail(@), ![e].status = "incomplete"]
    /\ UNCHANGED <<pubVars, corpusVars, evaluator>>

\* _capture_final_production_identity, _bracket_cleanup
BracketCleanup_MidRun(e) == Learns(e, "final", production)
BracketCleanup(e) ==
    adm' = [adm EXCEPT ![e].todo = Tail(@), ![e].seen.final = production,
                       ![e].status = IF production # adm[e].seen.before THEN Downgraded(e, "hold") ELSE @]
CaptureFinal(e) ==
    /\ Doing(e, "finalize", "final")
    /\ IF adm[e].seen.before = Unread THEN Proceeds(e)
       ELSE IF Expired(e) THEN Raises(e) ELSE BracketCleanup(e)
    /\ UNCHANGED <<pubVars, corpusVars, evaluator>>

BracketEvaluator(e) ==
    /\ Doing(e, "finalize", "recapture")
    /\ IF adm[e].seen.evaluator = Unread THEN Proceeds(e)
       ELSE IF Expired(e) THEN Raises(e)
       ELSE adm' = [adm EXCEPT ![e].todo = Tail(@),
                               ![e].status = IF evaluator # adm[e].seen.evaluator THEN Downgraded(e, "hold") ELSE @]
    /\ UNCHANGED <<pubVars, corpusVars, evaluator>>

FinalStepFails(e) ==
    /\ \/ Doing(e, "finalize", "final") /\ adm[e].seen.before # Unread
       \/ Doing(e, "finalize", "recapture") /\ adm[e].seen.evaluator # Unread
       \/ Doing(e, "finalize", "receipt")
    /\ Raises(e)
    /\ UNCHANGED <<pubVars, corpusVars, evaluator>>

\* no receipt without production on both sides and the lock
HasEvidence(e) == adm[e].seen.before # Unread /\ adm[e].seen.final # Unread /\ adm[e].seen.lock

BuildReceipt(e) ==
    /\ Doing(e, "finalize", "receipt")
    /\ IF ~HasEvidence(e) \/ Expired(e)
       THEN Raises(e) /\ UNCHANGED pubVars
       ELSE /\ adm' = [adm EXCEPT ![e] = [stage |-> "publish", status |-> @.status, moved |-> @.moved,
                                          complete |-> @.seen.lock /\ @.seen.runtime]]
            /\ StartPublication(e, <<adm[e].status, adm[e].seen.before, adm[e].seen.final>>)
    /\ UNCHANGED <<corpusVars, evaluator>>

AdmissionEnds(e) ==
    /\ adm[e].stage = "publish" /\ pub[e].stage = "ended"
    /\ adm' = [adm EXCEPT ![e].stage = "ended"]
    /\ UNCHANGED <<pubVars, corpusVars, evaluator>>

AdmissionStep(e) ==
    \/ OutOfTime(e) \/ Observes(e) \/ CaptureCorpus(e) \/ CorpusCaptured(e) \/ Calls(e) \/ Returns(e) \/ BindRuntime(e)
    \/ Deltas(e) \/ CollectEnds(e) \/ Cleanup(e) \/ CaptureFinal(e) \/ BracketEvaluator(e) \/ BuildReceipt(e)
    \/ AdmissionEnds(e)
    \/ CaptureStep(e) /\ UNCHANGED <<pubVars, adm, evaluator>>
    \/ PubStep(e) /\ UNCHANGED <<corpusVars, adm, evaluator>>
AdmissionFails(e) ==
    \/ StepFails(e) \/ CleanupFails(e) \/ FinalStepFails(e)
    \/ CaptureFails(e) /\ UNCHANGED <<pubVars, adm, evaluator>>
    \/ PubFails(e) /\ UNCHANGED <<corpusVars, adm, evaluator>>

-----------------------------------------------------------------------------
\* What changes from outside, and whom it concerns: a run that has looked at the thing and
\* will look at it again.

Recorded(e, p) ==
    \/ adm[e].seen.manifest_before[p] # Unread
    \/ adm[e].todo # <<>> /\ Now(e) = "captured_before" /\ capture[e].stage = "capturing" /\ capture[e].record[p] # Unread
RecordedAgain(e, p) ==
    \/ adm[e].seen.manifest_after[p] # Unread
    \/ adm[e].todo # <<>> /\ Now(e) = "captured_after" /\ capture[e].stage = "capturing" /\ capture[e].record[p] # Unread

Running(e) == adm[e].stage \in {"collect", "finalize"}
Concerns(what) == adm' = [e \in Evaluators |->
    IF /\ Running(e)
       /\ CASE what = "production" -> adm[e].seen.before # Unread /\ adm[e].seen.final = Unread
            [] what = "evaluator" -> adm[e].seen.evaluator # Unread /\ (adm[e].stage = "collect" \/ Len(adm[e].todo) > 1)
            [] OTHER -> adm[e].stage = "collect" /\ Recorded(e, what) /\ ~RecordedAgain(e, what)
    THEN [adm[e] EXCEPT !.moved = @ \cup {what}] ELSE adm[e]]

ProductionDrifts == production' = production + 1 /\ Concerns("production") /\ UNCHANGED <<pubVars, corpusVars, evaluator>>
EvaluatorDrifts == evaluator' = evaluator + 1 /\ Concerns("evaluator") /\ UNCHANGED <<pubVars, corpusVars>>
CorpusDrifts(p) == CorpusChanges(p) /\ Concerns(p) /\ UNCHANGED <<pubVars, evaluator>>

-----------------------------------------------------------------------------
\* A receipt that says pass says the truth about the whole run: between the first time the
\* run looked at production, at its own sources and at each corpus file and the last time it
\* did, none of them changed, and the lock and the runtime it names were returned to it.
\* The code compares digests; a version stands for a digest and only grows, so a change that
\* is undone before the second look, which no digest shows, is not among the changes here.
PassTruthful ==
    \A e \in Evaluators : adm[e].stage \in {"publish", "ended"} /\ adm[e].status = "pass" =>
        adm[e].moved = {} /\ adm[e].complete
=============================================================================
