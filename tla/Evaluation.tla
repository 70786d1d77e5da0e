------------------------------- MODULE Evaluation -------------------------------
(***************************************************************************)
(* The evaluation commands on one machine.  They run one after the other   *)
(* in the evaluation (freeze a lock, prepare a runtime, run the admission  *)
(* gate, probe the candidates, run the protocol phase and close out), each *)
(* on files of its own; a behaviour follows one of them, its focus, and    *)
(* what may happen around it: calls that fail, time that runs out, kills,  *)
(* a power loss, and changes from outside.                                 *)
(***************************************************************************)
EXTENDS EvaluationHost

CONSTANTS
    Outputs,     \* what the resolver may write
    MaxCalls,    \* bound: calls of compile_candidate_lock
    Trouble      \* bound, per focus: failures, crashes and outside changes together, and
                 \* deadlines that run out while a runtime is prepared

VARIABLES
    focus, calls,
    store, job, returned, survivor,
    root, prep, tools, foreign, touched,
    records, pub, rooted, corpus, capture, adm, evaluator,
    group, probe, battery,
    world, sidecars, phase, decisions, deciding, closeout

Freezing == INSTANCE CandidateLock WITH CandidateNames <- {"ty"}
Runtimes == INSTANCE CandidateRuntime
Admitting == INSTANCE Admission
Probing == INSTANCE ProtocolProbe
Closing == INSTANCE Closeout

freezeVars == <<store, job, returned, survivor, calls>>
runtimeVars == <<root, prep, tools, foreign, touched>>
publicationVars == <<records, pub>>
admissionVars == <<corpus, capture, adm, evaluator>>
probeVars == <<group, probe, battery>>
closeoutVars == <<world, sidecars, phase, decisions, deciding, closeout>>

vars == <<hostVars, focus, rooted, freezeVars, runtimeVars, publicationVars, admissionVars, probeVars, closeoutVars>>

Foci == {"freeze", "runtime", "publication", "admission", "probe", "phase"}

Init ==
    /\ HostInit
    /\ focus \in Foci
    /\ calls = 0
    /\ Freezing!LockInit /\ Runtimes!RuntimeInit /\ Admitting!AdmissionInit /\ Probing!ProbeInit
    /\ Closing!PhaseInit /\ Closing!CloseoutInit
    /\ focus # "publication" => rooted

-----------------------------------------------------------------------------
\* What goes wrong, within the focus's budget.

Late == IF focus = "runtime" THEN {e \in Evaluators : clock[e] > 0} ELSE {}
Budget == faults + crashes + drift + Cardinality(Late) < Trouble[focus]
Failure == Budget /\ CallFails /\ UNCHANGED <<crashes, power, clock, drift, production>>
Kill == Budget /\ crashes < MaxCrashes /\ crashes' = crashes + 1 /\ UNCHANGED <<faults, power, clock, drift, production>>
PowerLoss == Budget /\ crashes < MaxCrashes /\ crashes' = crashes + 1 /\ power' = TRUE /\ UNCHANGED <<faults, clock, drift, production>>
Drift == Budget /\ drift < MaxDrift /\ drift' = drift + 1 /\ UNCHANGED <<faults, crashes, power, clock>>
Time(e) == Tick(e) /\ UNCHANGED <<faults, crashes, power, drift, production>>

Dead == [stage |-> "dead"]
Over == {"idle", "ended", "done", "failed", "raised", "refused", "dead"}
Alive(process) == process.stage \notin Over
Killed(processes, e) == Alive(processes[e]) /\ processes' = [processes EXCEPT ![e] = Dead]
AllKilled(processes) == processes' = [e \in Evaluators |-> IF Alive(processes[e]) THEN Dead ELSE processes[e]]

-----------------------------------------------------------------------------
\* compile_candidate_lock

FreezeNext ==
    \/ \E e \in Evaluators :
         \/ \E recompile \in BOOLEAN : calls < MaxCalls /\ Freezing!Compile(e, recompile) /\ calls' = calls + 1 /\ UNCHANGED hostVars
         \/ Freezing!LockStep(e) /\ UNCHANGED <<survivor, calls, hostVars>>
         \/ Freezing!PerformFails(e) /\ Failure /\ UNCHANGED <<survivor, calls>>
         \/ job[e].stage # "idle" /\ Kill /\ Freezing!Outlived(e) /\ job' = [job EXCEPT ![e] = Freezing!NoJob]
            /\ UNCHANGED <<store, returned, calls>>
    \/ /\ PowerLoss
       /\ job' = [e \in Evaluators |-> Freezing!NoJob]
       /\ store' \in AfterPowerLoss(store)
       /\ survivor' = IF survivor = "running" THEN "none" ELSE survivor
       /\ UNCHANGED <<returned, calls>>
    \/ Freezing!SurvivorWrites /\ UNCHANGED <<calls, hostVars>>
    \/ Drift /\ production' = production + 1 /\ Freezing!Drifted /\ UNCHANGED <<store, returned, survivor, calls>>

\* prepare_candidate_runtime and load_prepared_candidate_runtime
Handed == {prep[e].manifest : e \in {o \in Evaluators : prep[o].stage = "done"}}

RuntimeNext ==
    \/ \E e \in Evaluators :
         \/ Runtimes!Prepare(e) /\ UNCHANGED hostVars
         \/ \E manifest \in Handed : Runtimes!Load(e, manifest) /\ UNCHANGED hostVars
         \/ Runtimes!RuntimeStep(e) /\ UNCHANGED hostVars
         \/ Runtimes!RuntimeFails(e) /\ Failure
         \/ Budget /\ clock[e] = 0 /\ Alive(prep[e]) /\ Time(e) /\ UNCHANGED runtimeVars
         \/ Runtimes!InstallerOutlives(e) /\ Killed(prep, e) /\ Kill /\ UNCHANGED <<root, tools, touched>>
    \/ /\ PowerLoss /\ Runtimes!RootLosesPower   \* whoever holds a runtime dies too
       /\ prep' = [e \in Evaluators |-> IF prep[e].stage = "idle" THEN prep[e] ELSE Dead]
       /\ UNCHANGED tools
    \/ Runtimes!InstallerWrites /\ UNCHANGED hostVars
    \/ Drift /\ (Runtimes!ToolsChange \/ Runtimes!RootEdited) /\ UNCHANGED production
    \/ Drift /\ production' = production + 1 /\ UNCHANGED runtimeVars

-----------------------------------------------------------------------------
\* publish_immutable_record, called by two commands at once

PublicationNext ==
    \/ \E e \in Evaluators :
         \/ Admitting!StartPublication(e, <<e>>) /\ UNCHANGED hostVars
         \/ Admitting!PubStep(e) /\ UNCHANGED hostVars
         \/ Admitting!PubFails(e) /\ Failure
         \/ Alive(pub[e]) /\ Time(e) /\ UNCHANGED publicationVars
         \/ Killed(pub, e) /\ Kill /\ UNCHANGED records
    \/ PowerLoss /\ AllKilled(pub) /\ Admitting!RecordsLosePower

\* run_admission, one run
AdmissionNext ==
    \/ \E e \in Evaluators :
         \/ /\ \A other \in Evaluators : adm[other].stage = "idle"
            /\ \E kind \in Admitting!RootKinds : Admitting!StartAdmission(e, kind)
            /\ UNCHANGED hostVars
         \/ Admitting!AdmissionStep(e) /\ UNCHANGED hostVars
         \/ Admitting!AdmissionFails(e) /\ Failure
         \/ Alive(adm[e]) /\ Time(e) /\ UNCHANGED <<publicationVars, admissionVars>>
         \/ Killed(adm, e) /\ Kill /\ pub' = [pub EXCEPT ![e] = Dead]
            /\ capture' = [capture EXCEPT ![e] = Admitting!NoCapture] /\ UNCHANGED <<records, corpus, evaluator>>
    \/ /\ PowerLoss
       /\ AllKilled(adm) /\ AllKilled(pub)
       /\ capture' = [e \in Evaluators |-> Admitting!NoCapture]
       /\ records' \in AfterPowerLoss(records)
       /\ UNCHANGED <<corpus, evaluator>>
    \/ Drift /\ Admitting!ProductionDrifts
    \/ Drift /\ (Admitting!EvaluatorDrifts \/ \E p \in Admitting!CorpusPaths : Admitting!CorpusDrifts(p)) /\ UNCHANGED production

\* run_lifecycle_battery, one run; only the collection deadline matters to it
ProbeNext ==
    \E e \in Evaluators :
        /\ \A other \in Evaluators \ {e} : probe[other].stage = "idle" /\ battery[other] = <<>>
        /\ \/ Probing!ProbeStep(e) /\ UNCHANGED hostVars
           \/ Probing!ProbeFails(e) /\ Failure
           \/ clock[e] = 0 /\ Alive(probe[e]) /\ Time(e) /\ UNCHANGED probeVars

-----------------------------------------------------------------------------
\* run_protocol_phase, one run, then a closeout.  Before it decides, the phase cannot tell
\* the deadlines after the collection's apart, and nothing that drifts later concerns it.
Collecting == {"evaluator", "production", "runtime", "corpus", "capability", "lifecycle", "witness", "sidecar"}
Measuring == Collecting \cup {"corpus_after", "production_after", "runtime_after", "evaluator_after"}

PhaseNext ==
    \/ \E e \in Evaluators :
         \/ /\ \A other \in Evaluators : phase[other].stage = "idle"
            /\ Closing!StartPhase(e)
            /\ UNCHANGED <<decisions, deciding, closeout, hostVars>>
         \/ Closing!PhaseStep(e) /\ UNCHANGED <<decisions, deciding, closeout, hostVars>>
         \/ Closing!PhaseFails(e) /\ Failure /\ UNCHANGED <<decisions, deciding, closeout>>
         \/ \E of \in Evaluators : Closing!StartCloseout(e, of) /\ UNCHANGED hostVars
         \/ Closing!CloseoutStep(e) /\ UNCHANGED hostVars
         \/ Closing!CloseoutFails(e) /\ Failure
         \/ /\ Alive(phase[e]) \/ Alive(closeout[e])
            /\ clock[e] > 0 => phase[e].stage \notin Collecting
            /\ Time(e) /\ UNCHANGED <<publicationVars, closeoutVars>>
         \/ Killed(phase, e) /\ Kill /\ pub' = [pub EXCEPT ![e] = Dead]
            /\ UNCHANGED <<records, world, sidecars, decisions, deciding, closeout>>
         \/ Killed(closeout, e) /\ Kill /\ deciding' = [deciding EXCEPT ![e] = Dead]
            /\ UNCHANGED <<publicationVars, world, sidecars, phase, decisions>>
    \/ /\ PowerLoss
       /\ AllKilled(phase) /\ AllKilled(pub) /\ AllKilled(closeout) /\ AllKilled(deciding)
       /\ records' \in AfterPowerLoss(records) /\ decisions' \in AfterPowerLoss(decisions)
       /\ sidecars' = [e \in Evaluators |-> Directory(sidecars[e].durable)]
       /\ UNCHANGED world
    \/ /\ \E e \in Evaluators : phase[e].stage \in Measuring
       /\ Drift
       /\ \/ Closing!WorldDrifts /\ UNCHANGED production
          \/ production' = production + 1 /\ UNCHANGED <<publicationVars, world, sidecars, phase>>
       /\ UNCHANGED <<decisions, deciding, closeout>>

Next ==
    /\ UNCHANGED <<focus, rooted>>
    /\ \/ focus = "freeze" /\ FreezeNext
          /\ UNCHANGED <<runtimeVars, publicationVars, admissionVars, probeVars, closeoutVars>>
       \/ focus = "runtime" /\ RuntimeNext
          /\ UNCHANGED <<freezeVars, publicationVars, admissionVars, probeVars, closeoutVars>>
       \/ focus = "publication" /\ PublicationNext
          /\ UNCHANGED <<freezeVars, runtimeVars, admissionVars, probeVars, closeoutVars>>
       \/ focus = "admission" /\ AdmissionNext
          /\ UNCHANGED <<freezeVars, runtimeVars, probeVars, closeoutVars>>
       \/ focus = "probe" /\ ProbeNext
          /\ UNCHANGED <<freezeVars, runtimeVars, publicationVars, admissionVars, closeoutVars>>
       \/ focus = "phase" /\ PhaseNext
          /\ UNCHANGED <<freezeVars, runtimeVars, admissionVars, probeVars>>

Spec == Init /\ [][Next]_vars
=============================================================================
