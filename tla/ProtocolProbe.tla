----------------------------- MODULE ProtocolProbe -----------------------------
(***************************************************************************)
(* One probe of a candidate language server (run_protocol_probe) and the   *)
(* battery of seven lifecycle scenarios that runs one probe after the      *)
(* other: launch, initialize, the scenario's session, then a cleanup that  *)
(* asks the server to exit, waits, stops it by force and looks at the      *)
(* deadline again.  The server is a process group: the leader the probe    *)
(* launched and a helper the leader may have started.                      *)
(***************************************************************************)
EXTENDS EvaluationHost

VARIABLES
    group,     \* the process group of the evaluator's current probe
    probe,     \* the evaluator's call of run_protocol_probe
    battery    \* evidence of the scenarios run so far, in their order

probeVars == <<group, probe, battery>>

Scenarios == <<"cold_diagnostics", "content_modified", "request_cancelled", "bounded_timeout",
               "crash", "graceful_shutdown", "environment_redaction">>
Injected == {"content_modified", "request_cancelled"}

\* leader: none, alive, or how it ended (exit status 0, SIGKILL, anything else)
NoGroup == [leader |-> "none", helper |-> FALSE]
LeaderAlive(e) == group[e].leader = "alive"
Survives(g) == g.leader = "alive" \/ g.helper

Idle == [stage |-> "idle"]

ProbeInit ==
    /\ group = [e \in Evaluators |-> NoGroup]
    /\ probe = [e \in Evaluators |-> Idle]
    /\ battery = [e \in Evaluators |-> <<>>]

At(e, stage) == probe[e].stage = stage
Goes(e, stage) == probe' = [probe EXCEPT ![e].stage = stage]

\* the first failure is the primary one and sends the probe to where its cleanup starts
FailsWith(e, error, stage) == probe' = [probe EXCEPT ![e].stage = stage, ![e].error = error]

\* a failed cleanup step is recorded, becomes the primary failure when there is none, and
\* never keeps the next step from running
CleanupFails(e, error, stage) ==
    probe' = [probe EXCEPT ![e].stage = stage, ![e].cleanup = @ + 1,
                           ![e].error = IF @ = "none" THEN error ELSE @]

NextScenario(e) == Scenarios[Len(battery[e]) + 1]

\* run_lifecycle_battery: the deadline is looked at before each scenario
StartScenario(e) ==
    /\ At(e, "idle") /\ Len(battery[e]) < Len(Scenarios)
    /\ probe' = [probe EXCEPT ![e] =
         IF CollectExpired(e) THEN [stage |-> "raised"]
         ELSE [stage |-> "prepare", error |-> "none", cleanup |-> 0, result |-> "none",
               captured |-> FALSE, noticed |-> FALSE, terminal |-> FALSE, stopping |-> FALSE]]
    /\ group' = [group EXCEPT ![e] = NoGroup]
    /\ UNCHANGED battery

\* the children cannot be listed, or the source not be read: no evidence, no later scenario
ScenarioFails(e) ==
    /\ At(e, "idle") /\ Len(battery[e]) < Len(Scenarios)
    /\ probe' = [probe EXCEPT ![e] = [stage |-> "raised"]]
    /\ UNCHANGED <<group, battery>>

\* engine, command and initialize parameters: no child yet
Prepare(e) ==
    /\ At(e, "prepare")
    /\ IF CollectExpired(e) THEN FailsWith(e, "deadline", "census") ELSE Goes(e, "launch")
    /\ UNCHANGED <<group, battery>>

PrepareFails(e) == At(e, "prepare") /\ FailsWith(e, "fault", "census") /\ UNCHANGED <<group, battery>>

Launch(e) ==
    /\ At(e, "launch")
    /\ \E helper \in BOOLEAN : group' = [group EXCEPT ![e] = [leader |-> "alive", helper |-> helper]]
    /\ Goes(e, "initialize")
    /\ UNCHANGED battery

\* provider.start fails before or after the child exists
LaunchFails(e) ==
    /\ At(e, "launch")
    /\ \/ UNCHANGED group
       \/ group' = [group EXCEPT ![e].leader = "alive"]
    /\ FailsWith(e, "fault", "partial")
    /\ UNCHANGED battery

\* terminate_process_tree_with_kill_fallback
Terminated(e) == [leader |-> IF LeaderAlive(e) THEN "other" ELSE group[e].leader, helper |-> FALSE]

PartialCleanup(e) ==
    /\ At(e, "partial")
    /\ group' = [group EXCEPT ![e] = Terminated(e)]
    /\ Goes(e, "census")
    /\ UNCHANGED battery

\* termination fails: SIGKILL the group and wait; a survivor is one more recorded error
PartialCleanupFails(e) ==
    /\ At(e, "partial") /\ LeaderAlive(e)
    /\ \/ /\ group' = [group EXCEPT ![e] = [leader |-> "sigkill", helper |-> FALSE]]
          /\ CleanupFails(e, "fault", "census")
       \/ /\ probe' = [probe EXCEPT ![e].stage = "census", ![e].cleanup = @ + 2]
          /\ UNCHANGED group
    /\ UNCHANGED battery

\* initialize, then initialized; the deadline is looked at before each
Initialize(e) ==
    /\ At(e, "initialize")
    /\ CASE CollectExpired(e) -> FailsWith(e, "deadline", "shutdown")
         [] probe[e].noticed -> FailsWith(e, "lost", "shutdown")
         [] OTHER -> LeaderAlive(e) /\ Goes(e, "discover")
    /\ UNCHANGED <<group, battery>>

\* an error response, a reply of the wrong shape, or no reply in time
InitializeFails(e) ==
    /\ At(e, "initialize")
    /\ \E error \in {"refused", "timeout"} : FailsWith(e, error, "shutdown")
    /\ UNCHANGED <<group, battery>>

\* _discover_new_owned_child: exactly one new child, leading a group of its own
Discover(e) ==
    /\ At(e, "discover")
    /\ CASE CollectExpired(e) -> FailsWith(e, "deadline", "shutdown")
         [] ~LeaderAlive(e) -> FailsWith(e, "fault", "shutdown")
         [] OTHER -> probe' = [probe EXCEPT ![e].stage = "session", ![e].captured = TRUE]
    /\ UNCHANGED <<group, battery>>

SessionEnds(e, result) == probe' = [probe EXCEPT ![e].stage = "check", ![e].result = result]

\* a session that talks to the server ends with what it asked for, or with the loss; a
\* request without time left is refused or times out, a wait for diagnostics meets the deadline
Conversation(e) ==
    /\ At(e, "session") /\ NextScenario(e) = "cold_diagnostics"
    /\ CASE probe[e].noticed -> FailsWith(e, "lost", "shutdown")
         [] CollectExpired(e) -> \E error \in {"fault", "timeout", "deadline"} : FailsWith(e, error, "shutdown")
         [] OTHER -> LeaderAlive(e) /\ SessionEnds(e, "observed")
    /\ UNCHANGED <<group, battery>>

\* symbols or diagnostics are missing, or the server answers with an error
ConversationFails(e) ==
    /\ At(e, "session") /\ NextScenario(e) = "cold_diagnostics"
    /\ SessionEnds(e, "missing") \/ FailsWith(e, "refused", "shutdown")
    /\ UNCHANGED <<group, battery>>

\* the two injected errors and the two silent sessions ask the server for nothing
SilentSession(e) ==
    /\ At(e, "session") /\ NextScenario(e) \in Injected \cup {"graceful_shutdown", "environment_redaction"}
    /\ SessionEnds(e, "observed")
    /\ UNCHANGED <<group, battery>>

\* a request with a timeout no server can meet
TimeoutSession(e) ==
    /\ At(e, "session") /\ NextScenario(e) = "bounded_timeout"
    /\ FailsWith(e, IF probe[e].noticed THEN "lost" ELSE "timeout", "shutdown")
    /\ UNCHANGED <<group, battery>>

\* _signal_captured_process: only a process re-proven to be the captured one is killed
KillSession(e) ==
    /\ At(e, "session") /\ NextScenario(e) = "crash"
    /\ IF LeaderAlive(e)
       THEN /\ group' = [group EXCEPT ![e] = [leader |-> "sigkill", helper |-> FALSE]]
            /\ Goes(e, "killed")
       ELSE FailsWith(e, "fault", "shutdown") /\ UNCHANGED group
    /\ UNCHANGED battery

\* the request after the kill and a bounded wait for the client to notice it: the loss when
\* it has, else the request times out, or is refused when no time is left for it
AfterKill(e) ==
    /\ At(e, "killed")
    /\ FailsWith(e, CASE probe[e].noticed -> "lost" [] CollectExpired(e) -> "fault" [] OTHER -> "timeout", "shutdown")
    /\ UNCHANGED <<group, battery>>

SessionChecked(e) ==
    /\ At(e, "check")
    /\ IF CollectExpired(e) THEN FailsWith(e, "deadline", "shutdown") ELSE Goes(e, "shutdown")
    /\ UNCHANGED <<group, battery>>

\* graceful shutdown only with time left; stopping is set before the server is asked
Shutdown(e) ==
    /\ At(e, "shutdown")
    /\ probe' = [probe EXCEPT ![e].stage = IF CollectExpired(e) THEN "stop" ELSE "exit",
                              ![e].stopping = @ \/ ~CollectExpired(e)]
    /\ UNCHANGED <<group, battery>>

ShutdownFails(e) ==
    /\ At(e, "shutdown") /\ ~CollectExpired(e)
    /\ probe' = [probe EXCEPT ![e].stage = "stop", ![e].stopping = TRUE, ![e].cleanup = @ + 1,
                              ![e].error = IF @ = "none" THEN "fault" ELSE @]
    /\ UNCHANGED <<group, battery>>

\* the server obeys: the leader exits with status 0 and its helper with it
NaturalExit(e) ==
    /\ At(e, "exit")
    /\ group' = [group EXCEPT ![e] = IF LeaderAlive(e) THEN [leader |-> "zero", helper |-> FALSE] ELSE @]
    /\ Goes(e, "stop")
    /\ UNCHANGED battery

\* the leader exits and leaves its helper
HelperStays(e) ==
    /\ At(e, "exit") /\ LeaderAlive(e)
    /\ group' = [group EXCEPT ![e].leader = "zero"]
    /\ Goes(e, "stop")
    /\ UNCHANGED battery

\* a stubborn server: the bounded wait falls through to the stop
StubbornExit(e) == At(e, "exit") /\ LeaderAlive(e) /\ Goes(e, "stop") /\ UNCHANGED <<group, battery>>

WaitFails(e) == At(e, "exit") /\ CleanupFails(e, "fault", "stop") /\ UNCHANGED <<group, battery>>

\* SubprocessAdapterRuntimeProvider.stop: the tree is terminated only when the leader lives
StoppedGroup_AfterGrace(e) == IF probe[e].stopping THEN group[e] ELSE Terminated(e)
StoppedGroup(e) == IF LeaderAlive(e) THEN Terminated(e) ELSE group[e]

Stop(e) ==
    /\ At(e, "stop")
    /\ group' = [group EXCEPT ![e] = StoppedGroup(e)]
    /\ probe' = [probe EXCEPT ![e].stage = "checked", ![e].stopping = TRUE]
    /\ UNCHANGED battery

StopFails(e) ==
    /\ At(e, "stop")
    /\ probe' = [probe EXCEPT ![e].stage = "checked", ![e].stopping = TRUE, ![e].cleanup = @ + 1,
                              ![e].error = IF @ = "none" THEN "fault" ELSE @]
    /\ UNCHANGED <<group, battery>>

CleanupChecked(e) ==
    /\ At(e, "checked")
    /\ IF CollectExpired(e) THEN CleanupFails(e, "deadline", "census") ELSE Goes(e, "census")
    /\ UNCHANGED <<group, battery>>

\* _wait_for_process_group_reaped
Reaped_Leader(e) == probe[e].captured /\ ~LeaderAlive(e)
Reaped(e) == probe[e].captured /\ ~Survives(group[e])

\* passed, per scenario
Passed(e, reaped) ==
    LET p == probe[e]
        s == NextScenario(e)
    IN  /\ reaped /\ p.cleanup = 0
        /\ CASE s = "bounded_timeout" -> p.error = "timeout"
             [] s = "crash" -> p.error = "lost" /\ group[e].leader = "sigkill" /\ p.terminal
             [] s = "graceful_shutdown" -> p.error = "none" /\ group[e].leader = "zero" /\ ~p.terminal
             [] s = "environment_redaction" -> p.error = "none" /\ group[e].leader = "zero"
             [] OTHER -> p.error = "none" /\ p.result = "observed"

\* the environment is measured by a wrapper, which reports once the candidate has ended: a
\* wrapper that exited has reported, one that was killed may not have
Unmeasured(e) == NextScenario(e) = "environment_redaction" /\ group[e].leader # "zero"
Measured(e) == NextScenario(e) = "environment_redaction" => group[e].leader \in {"zero", "other"}

LeavesBattery(e) == probe' = [probe EXCEPT ![e] = [stage |-> "raised"]] /\ UNCHANGED battery

Evidences(e, reaped, error) ==
    /\ battery' = [battery EXCEPT ![e] = Append(@,
         [name |-> NextScenario(e), passed |-> Passed(e, reaped), reaped |-> reaped, cleanup |-> probe[e].cleanup,
          error |-> error, result |-> probe[e].result, left |-> Survives(group[e])])]
    /\ probe' = [probe EXCEPT ![e] = Idle]

\* the census; a deadline and a missing measurement leave the battery, anything else
\* becomes the scenario's evidence
Census(e) ==
    /\ At(e, "census")
    /\ \/ (probe[e].error = "deadline" \/ Unmeasured(e)) /\ LeavesBattery(e)
       \/ probe[e].error # "deadline" /\ Measured(e) /\ Evidences(e, Reaped(e), probe[e].error)
    /\ UNCHANGED group

\* the processes cannot be observed: not reaped; or the measurement does not hold
CensusFails(e) ==
    /\ At(e, "census") /\ probe[e].error # "deadline"
    /\ \/ /\ probe[e].captured /\ Measured(e)
          /\ Evidences(e, FALSE, IF probe[e].error = "none" THEN "fault" ELSE probe[e].error)
       \/ NextScenario(e) = "environment_redaction" /\ LeavesBattery(e)
    /\ UNCHANGED group

-----------------------------------------------------------------------------
\* The candidate's own steps, and the threads that watch it.

CandidateDies(e) ==
    /\ LeaderAlive(e)
    /\ group' = [group EXCEPT ![e].leader = "other"]
    /\ UNCHANGED <<probe, battery>>

HelperExits(e) ==
    /\ group[e].helper /\ probe[e].stage # "idle"
    /\ group' = [group EXCEPT ![e].helper = FALSE]
    /\ UNCHANGED <<probe, battery>>

\* the reader thread meets the end of the stream
Watched == {"initialize", "discover", "session", "killed", "check", "shutdown", "exit", "stop", "checked"}

ClientNotices(e) ==
    /\ probe[e].stage \in Watched /\ ~LeaderAlive(e) /\ ~probe[e].noticed
    /\ probe' = [probe EXCEPT ![e].noticed = TRUE]
    /\ UNCHANGED <<group, battery>>

\* the reader or the process observer reports the loss, unless the runtime is stopping
TerminalReported(e) ==
    /\ probe[e].stage \in Watched /\ ~LeaderAlive(e) /\ ~probe[e].stopping /\ ~probe[e].terminal
    /\ probe' = [probe EXCEPT ![e].terminal = TRUE]
    /\ UNCHANGED <<group, battery>>

ProbeStep(e) ==
    \/ StartScenario(e) \/ Prepare(e) \/ Launch(e) \/ PartialCleanup(e) \/ Initialize(e) \/ Discover(e)
    \/ Conversation(e) \/ SilentSession(e) \/ TimeoutSession(e) \/ KillSession(e) \/ AfterKill(e)
    \/ SessionChecked(e) \/ Shutdown(e) \/ NaturalExit(e) \/ StubbornExit(e) \/ Stop(e) \/ CleanupChecked(e)
    \/ Census(e) \/ HelperExits(e) \/ ClientNotices(e) \/ TerminalReported(e)

ProbeFails(e) ==
    \/ ScenarioFails(e) \/ CensusFails(e) \/ PrepareFails(e) \/ LaunchFails(e) \/ PartialCleanupFails(e) \/ InitializeFails(e) \/ ConversationFails(e)
    \/ ShutdownFails(e) \/ HelperStays(e) \/ WaitFails(e) \/ StopFails(e) \/ CandidateDies(e)

-----------------------------------------------------------------------------
\* run_lifecycle_battery: what the receipt is told of the scenarios.
By(scenarios, name) == CHOOSE s \in scenarios : s.name = name

LifecycleFields(scenarios) ==
    [retry_seam_disabled |-> \A n \in Injected : By(scenarios, n).result = "observed" /\ By(scenarios, n).error = "none",
     bounded_timeout_observed |-> By(scenarios, "bounded_timeout").passed,
     crash_handled |-> By(scenarios, "crash").passed,
     shutdown_clean |-> By(scenarios, "graceful_shutdown").passed,
     cleanup_clean |-> \A s \in scenarios : s.reaped /\ s.cleanup = 0]

-----------------------------------------------------------------------------
\* No candidate process is left behind unnoticed: a scenario that counts as passed, and a
\* battery that reports a clean cleanup, left neither the leader nor a helper of any probe
\* running; and a probe that ended without a cleanup error has no live leader.
NoBackendLeft ==
    \A e \in Evaluators :
        LET done == {battery[e][i] : i \in DOMAIN battery[e]} IN
        /\ \A s \in done : s.passed => ~s.left
        /\ Len(battery[e]) = Len(Scenarios) /\ LifecycleFields(done).cleanup_clean => \A s \in done : ~s.left
        /\ At(e, "census") /\ probe[e].cleanup = 0 => ~LeaderAlive(e)
=============================================================================
