----------------------------- MODULE ProtocolPhase -----------------------------
(***************************************************************************)
(* run_protocol_phase: bind the parent admission, run the three candidates *)
(* (capability probe, lifecycle battery, behaviour witness) one after the  *)
(* other, measure everything again, decide, construct the receipt and      *)
(* publish it.  A battery is one step here; ProtocolProbe models it.       *)
(*                                                                         *)
(* The parent admission bound version 0 of the corpus, the runtime, the    *)
(* production checkout and a clean evaluator; a version only ever grows.   *)
(***************************************************************************)
EXTENDS Publication

VARIABLES
    world,      \* versions of the corpus, the prepared runtime (the parts that bear its
                \* identity, and the packages in it) and the evaluator's checkout
    sidecars,   \* witness files of the run root, per evaluator and candidate
    phase       \* one protocol run per evaluator

phaseVars == <<pubVars, world, sidecars, phase>>

Candidates == <<"pyright", "ty", "pyrefly">>
CandidateNames == {Candidates[i] : i \in DOMAIN Candidates}
NoOutcome == [disposition |-> "none"]

PhaseInit ==
    /\ PubInit
    /\ world = [corpus |-> 0, runtime |-> 0, packages |-> 0, evaluator |-> 0]
    /\ sidecars = [e \in Evaluators |-> Directory([c \in CandidateNames |-> NoFile])]
    /\ phase = [e \in Evaluators |-> [stage |-> "idle"]]

In(e, stage) == phase[e].stage = stage
MovesTo(e, stage) == phase' = [phase EXCEPT ![e].stage = stage]

\* ProtocolPhaseError: no receipt
RaisesPhase(e, why) == phase' = [phase EXCEPT ![e] = [stage |-> "raised", why |-> why]]

\* a candidate that did not finish is an issue, and no later candidate runs
Breaks(e) == phase' = [phase EXCEPT ![e].stage = "corpus_after", ![e].issue = TRUE, ![e].evidence = <<>>]

Quiet == UNCHANGED <<pubVars, world, sidecars>>

StartPhase(e) ==
    /\ In(e, "idle")
    /\ phase' = [phase EXCEPT ![e] = [stage |-> "evaluator", evaluator |-> 0, production |-> 0, mutated |-> FALSE,
                                      onParent |-> TRUE, done |-> 0, evidence |-> <<>>, issue |-> FALSE,
                                      outcomes |-> [c \in CandidateNames |-> NoOutcome]]]
    /\ Quiet

-----------------------------------------------------------------------------
\* The admission of the run: every failure, and a deadline, ends it without a receipt.

Admits(e, stage, next) ==
    /\ In(e, stage)
    /\ IF CollectExpired(e) THEN RaisesPhase(e, "admission") ELSE next
    /\ Quiet

ReadEvaluator(e) == Admits(e, "evaluator",
    phase' = [phase EXCEPT ![e].stage = "production", ![e].evaluator = world.evaluator])

ReadProduction(e) == Admits(e, "production",
    phase' = [phase EXCEPT ![e].stage = "runtime", ![e].production = production])

\* load_runtime against the parent's lock digest and manifest: the identity-bearing parts,
\* not the packages below venv/lib
LoadRuntime(e) == Admits(e, "runtime",
    IF world.runtime = 0 THEN MovesTo(e, "corpus") ELSE RaisesPhase(e, "admission"))

\* capture_corpus, _require_exact_parent_corpus, then the run root
ReadCorpus(e) == Admits(e, "corpus",
    IF world.corpus = 0 THEN MovesTo(e, "capability") ELSE RaisesPhase(e, "admission"))

AdmissionPhaseFails(e) ==
    /\ phase[e].stage \in {"evaluator", "production", "runtime", "corpus"}
    /\ RaisesPhase(e, "admission")
    /\ Quiet

-----------------------------------------------------------------------------
\* One candidate.

Candidate(e) == Candidates[phase[e].done + 1]

\* What a capability probe finds: whether the required providers are advertised, how they
\* answer, whether the session was ready, diagnosed, closed and exited as it should, and
\* whether pull diagnostics are advertised
CapabilityResults == [advertised : BOOLEAN, answer : {"valid", "unusable", "refused"}, tidy : BOOLEAN, pull : BOOLEAN]
\* What the battery reports: every lifecycle field, and whether a scenario has an issue
LifecycleResults == {r \in [fields : BOOLEAN, issues : BOOLEAN] : r.fields \/ r.issues}
WitnessResults == {"passed", "failed", "inconclusive"}

\* Pyrefly's providers are asked only when advertised, the others' always.  The probe keeps
\* its gate, whether the receipt can state the answers (an unadvertised provider must not
\* have answered), and whether the required providers are seen to fail or to work.
Asked(c, cap) == cap.advertised \/ c # "pyrefly"
Works(cap) == cap.advertised /\ cap.answer = "valid"
Gate(c, cap) ==
    CASE ~Works(cap) \/ ~cap.tidy -> "fail"
      [] c = "ty" \/ (c = "pyrefly" /\ cap.pull) -> "seam_incompatible_pull_only"
      [] OTHER -> "pass"
Capability(c, cap) ==
    [gate |-> Gate(c, cap),
     coherent |-> cap.advertised \/ ~Asked(c, cap) \/ cap.answer = "refused",
     negative |-> ~Asked(c, cap) \/ cap.answer # "valid",
     positive |-> Works(cap)]
\* whether the candidate is measured on the parent's versions, by a clean evaluator; nothing
\* in the code looks at the installed packages again
OnParent == world.corpus = 0 /\ world.runtime = 0 /\ production = 0 /\ world.evaluator = 0

Measures_(e, stage, results, next) ==
    /\ In(e, stage)
    /\ IF CollectExpired(e)
       THEN Breaks(e)
       ELSE \E r \in results :
              phase' = [phase EXCEPT ![e].stage = next, ![e].evidence = Append(@, r),
                                     ![e].onParent = @ /\ OnParent]
    /\ Quiet

RunCapability(e) == Measures_(e, "capability", {Capability(Candidate(e), r) : r \in CapabilityResults}, "lifecycle")
RunLifecycle(e) == Measures_(e, "lifecycle", LifecycleResults, "witness")
RunWitness(e) == Measures_(e, "witness", WitnessResults, "sidecar")

\* anything but a deadline and a source-binding failure is the candidate's incompleteness
CandidateIncomplete(e) ==
    /\ phase[e].stage \in {"capability", "lifecycle", "witness"}
    /\ Breaks(e)
    /\ Quiet

SourceUncertain(e) ==
    /\ phase[e].stage \in {"capability", "lifecycle", "witness"}
    /\ RaisesPhase(e, "source")
    /\ Quiet

\* _finalize_candidate_outcome
Disposition(cap, life, wit) ==
    CASE wit = "inconclusive" -> "configuration_inconclusive"
      [] wit = "failed" \/ cap.gate = "fail" \/ life.issues -> "fail"
      [] OTHER -> cap.gate

\* _require_candidate_protocol_evidence: a fail needs a negative fact, a pull-only seam the
\* battery's diagnostics mode, which is the specification's and says pull for ty alone
Evidenced(c, cap, life, wit) ==
    /\ cap.coherent
    /\ Disposition(cap, life, wit) = "fail" => wit # "passed" \/ cap.negative \/ ~life.fields
    /\ Disposition(cap, life, wit) = "seam_incompatible_pull_only" => c = "ty"
\* _require_affirmative_candidate_evidence
Affirmative(cap, life, wit) == wit = "passed" /\ cap.positive /\ life.fields

Outcome(e) ==
    LET c == Candidate(e)
        cap == phase[e].evidence[1]
        life == phase[e].evidence[2]
        wit == phase[e].evidence[3]
        survivor == Disposition(cap, life, wit) \in {"pass", "seam_incompatible_pull_only"}
    IN  [disposition |-> Disposition(cap, life, wit), evidenced |-> Evidenced(c, cap, life, wit),
         affirmative |-> survivor /\ Affirmative(cap, life, wit), witness |-> wit]

Finishes(e) == [phase[e] EXCEPT !.outcomes[Candidate(e)] = Outcome(e), !.done = @ + 1, !.evidence = <<>>,
                                !.stage = IF phase[e].done + 1 < Len(Candidates) THEN "capability" ELSE "corpus_after"]

\* write_sidecar (created exclusively, both fsyncs), then the outcome
WriteSidecar(e) ==
    /\ In(e, "sidecar")
    /\ IF CollectExpired(e)
       THEN Breaks(e) /\ UNCHANGED sidecars
       ELSE /\ sidecars' = [sidecars EXCEPT ![e] = Synced(Put(@, Candidate(e), File(<<phase[e].evidence[3]>>)))]
            /\ phase' = [phase EXCEPT ![e] = Finishes(e)]
    /\ UNCHANGED <<pubVars, world>>

\* the partial file is unlinked
SidecarLost_Kept(e) == phase' = [phase EXCEPT ![e] = Finishes(e)]
SidecarLost(e) == Breaks(e)

SidecarFails(e) == In(e, "sidecar") /\ SidecarLost(e) /\ Quiet

-----------------------------------------------------------------------------
\* Finalization, under the whole deadline: a failure ends the run without a receipt.

Finalizes(e, stage, next) ==
    /\ In(e, stage)
    /\ IF Expired(e) THEN RaisesPhase(e, "finalization") ELSE next
    /\ Quiet

CorpusAfter(e) == Finalizes(e, "corpus_after",
    phase' = [phase EXCEPT ![e].stage = "production_after", ![e].mutated = world.corpus # 0,
                           ![e].issue = @ \/ world.corpus # 0])

ProductionAfter(e) == Finalizes(e, "production_after",
    IF production = phase[e].production THEN MovesTo(e, "runtime_after") ELSE RaisesPhase(e, "finalization"))

RuntimeUnchanged_Trusted == TRUE
RuntimeUnchanged == world.runtime = 0

RuntimeAfter(e) == Finalizes(e, "runtime_after",
    IF RuntimeUnchanged THEN MovesTo(e, "evaluator_after") ELSE RaisesPhase(e, "finalization"))

\* the artifact digest, then the evaluator
EvaluatorAfter(e) == Finalizes(e, "evaluator_after",
    IF world.evaluator = phase[e].evaluator THEN MovesTo(e, "decide") ELSE RaisesPhase(e, "finalization"))

FinalizationFails(e) ==
    /\ phase[e].stage \in {"corpus_after", "production_after", "runtime_after", "evaluator_after"}
    /\ RaisesPhase(e, "finalization")
    /\ Quiet

\* _phase_disposition
DispositionOf(e, c) == phase[e].outcomes[c].disposition
Having(e, d) == {c \in CandidateNames : DispositionOf(e, c) = d}
StatusOf(e) ==
    CASE Having(e, "configuration_inconclusive") # {} -> <<"hold", "inconclusive_retain_pyright">>
      [] phase[e].mutated -> <<"hold", "stop">>
      [] Having(e, "none") # {} \/ phase[e].issue -> <<"incomplete", "stop">>
      [] DispositionOf(e, "pyright") # "pass" -> <<"hold", "stop">>
      [] OTHER -> <<"pass", IF Having(e, "pass") # {"pyright"} THEN "continue" ELSE "stop">>

\* ProtocolPhaseReceipt.__post_init__
Inconclusive(e) ==
    /\ Having(e, "none") = {} /\ DispositionOf(e, "pyright") = "pass"
    /\ \A c \in CandidateNames :
         /\ phase[e].outcomes[c].evidenced
         /\ DispositionOf(e, c) = "pass" => phase[e].outcomes[c].affirmative
CanonicalPass(e) ==
    /\ phase[e].evaluator = 0 /\ phase[e].production = 0
    /\ \A c \in CandidateNames :
         /\ phase[e].outcomes[c].evidenced
         /\ DispositionOf(e, c) = "pass" => phase[e].outcomes[c].affirmative
Constructible(e) ==
    /\ Having(e, "configuration_inconclusive") # {} => Inconclusive(e)
    /\ \A c \in Having(e, "seam_incompatible_pull_only") :
          phase[e].outcomes[c].evidenced /\ phase[e].outcomes[c].affirmative
    /\ StatusOf(e)[1] = "pass" => CanonicalPass(e)

Receipt(e) == <<StatusOf(e)[1], StatusOf(e)[2], [c \in CandidateNames |-> DispositionOf(e, c)]>>

\* a receipt the model refuses is ProtocolPhaseError: nothing is published
Listed(e) == {c \in CandidateNames : DispositionOf(e, c) # "none"}
Decide(e) ==
    /\ In(e, "decide")
    /\ IF Constructible(e)
       THEN /\ phase' = [phase EXCEPT ![e] =
                  [stage |-> "publish", onParent |-> phase[e].onParent,
                   witnesses |-> [c \in Listed(e) |-> phase[e].outcomes[c].witness]]]
            /\ StartPublication(e, Receipt(e))
       ELSE /\ phase' = [phase EXCEPT ![e] = [stage |-> "refused"]]
            /\ UNCHANGED pubVars
    /\ UNCHANGED <<world, sidecars>>

PublishPhase(e) == In(e, "publish") /\ PubStep(e) /\ UNCHANGED <<world, sidecars, phase>>
PublishPhaseFails(e) == In(e, "publish") /\ PubFails(e) /\ UNCHANGED <<world, sidecars, phase>>

PhaseEnds(e) ==
    /\ In(e, "publish") /\ pub[e].stage = "ended"
    /\ MovesTo(e, "ended")
    /\ Quiet

PhaseStep(e) ==
    \/ ReadEvaluator(e) \/ ReadProduction(e) \/ LoadRuntime(e) \/ ReadCorpus(e)
    \/ RunCapability(e) \/ RunLifecycle(e) \/ RunWitness(e) \/ WriteSidecar(e)
    \/ CorpusAfter(e) \/ ProductionAfter(e) \/ RuntimeAfter(e) \/ EvaluatorAfter(e)
    \/ Decide(e) \/ PublishPhase(e) \/ PhaseEnds(e)

PhaseFails(e) ==
    \/ AdmissionPhaseFails(e) \/ CandidateIncomplete(e) \/ SourceUncertain(e) \/ SidecarFails(e)
    \/ FinalizationFails(e) \/ PublishPhaseFails(e)

WorldDrifts ==
    /\ \E part \in DOMAIN world : world' = [world EXCEPT ![part] = @ + 1]
    /\ UNCHANGED <<pubVars, sidecars, phase>>

-----------------------------------------------------------------------------
Recorded_(e) == records.live[Final(e)]
HasRecord(e) == Present(Recorded_(e)) /\ Recorded_(e).data # Torn

\* A protocol receipt on disk is backed by what was measured: every outcome it lists has its
\* witness durably beside it, and when it says pass, every fact of every candidate was
\* measured on exactly the corpus, the identity-bearing parts of the runtime and the
\* production the parent admission bound, by one clean evaluator.  Nothing is said of the
\* installed packages, nor of a change undone before the second look (versions only grow),
\* and the run root's own entry is taken to be durable although its parents are not fsynced.
ReceiptBacked ==
    \A e \in Evaluators : HasRecord(e) /\ phase[e].stage \in {"publish", "ended"} =>
        /\ \A c \in DOMAIN phase[e].witnesses : \A image \in {sidecars[e].durable} \cup sidecars[e].maybe :
             image[c] = File(<<phase[e].witnesses[c]>>)
        /\ Recorded_(e).data[1] = "pass" => phase[e].onParent /\ DOMAIN phase[e].witnesses = CandidateNames
=============================================================================
