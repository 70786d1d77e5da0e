-------------------------------- MODULE Adapter --------------------------------
(* LanguageAdapter with the language-server processes it starts, replaces and   *)
(* stops, and the SyncLspClient it speaks to each of them through.  One worker  *)
(* thread runs the submitted calls; every process has two threads of its own,   *)
(* the client's reader and the observer of its exit, which report its loss to   *)
(* the adapter; status polls and the scope's generations come from elsewhere.   *)
EXTENDS Naturals, Sequences, FiniteSets

CONSTANTS
    Call,       \* what is submitted to the adapter
    Kind,       \* "read", "edit", "probe", "warm" or "stop", for each of them
    Threshold,  \* CrashPolicy.threshold
    MaxCalls,   \* how many ordinary calls are submitted
    MaxQueued,  \* how many ordinary calls wait for the worker at once
    MaxFaults,  \* how often a process dies, answers garbage, does not start or outlives a kill
    MaxProgram  \* the last configured-program generation

ASSUME KindAssumption == Kind \in [Call -> {"read", "edit", "probe", "warm", "stop"}]
ASSUME CrashPolicyAssumption == Threshold \in Nat \ {0} /\ MaxCalls \in Nat /\ MaxQueued \in Nat /\ MaxFaults \in Nat /\ MaxProgram \in Nat \ {0}

\* Every fault makes a read start two processes more at the most.
Token == 1 .. 2 * MaxFaults + MaxCalls

Threads == {"reader", "observer"}

VARIABLES
    phase,      \* _phase
    runtime,    \* _runtime: 0, or the token of the process it holds
    token,      \* _runtime_token
    crashed,    \* _crashed_runtime_tokens
    window,     \* how many crashes _crash_times holds
    cooldown,   \* _cooldown_until_monotonic: "none", "ahead" or "passed"
    sealed,     \* _ordinary_admission_sealed
    opened,     \* the token whose process has the pending document open, or 0
    proc,       \* the operating-system process of each token
    client,     \* its client: has it a terminal error, and the pending request's box
    thread,     \* where each process's reader and observer are
    queue,      \* the calls waiting for the worker
    status,     \* each call's future
    worker,     \* where the worker is
    scope,      \* the program generation, the observed one, the target of a warm-up
    faults,     \* the faults so far
    sent        \* history: the generation of the last query sent, and of an answered sentinel

adapterVars == <<phase, runtime, token, crashed, window, cooldown, opened>>
osVars == <<proc, client, thread>>
callVars == <<queue, status, sealed>>
vars == <<adapterVars, osVars, callVars, worker, scope, faults, sent>>

Idle == [pc |-> "idle", call |-> "none", attempt |-> 1, again |-> FALSE, stopping |-> 0, after |-> "none"]

NoClient == [terminal |-> FALSE, box |-> "empty"]

Init ==
    /\ phase = "COLD" /\ runtime = 0 /\ token = 0 /\ crashed = {} /\ window = 0 /\ cooldown = "none"
    /\ sealed = FALSE /\ opened = 0
    /\ proc = [t \in Token |-> "none"]
    /\ client = [t \in Token |-> NoClient]
    /\ thread = [t \in Token |-> [w \in Threads |-> "none"]]
    /\ queue = <<>>
    /\ status = [c \in Call |-> "new"]
    /\ worker = Idle
    /\ scope = [program |-> 1, observed |-> 0, target |-> 0]
    /\ faults = 0
    /\ sent = [at |-> 0, witnessed |-> 0]

-------------------------------------------------------------------------------
(* Crashes and the cooldown *)

\* _record_crash: once for each token.  The window is pruned of a prefix of the
\* crash times, of any length since the clock is not modelled.
RecordCrash(t) ==
    IF t \in crashed THEN UNCHANGED <<phase, crashed, window, cooldown, opened>>
    ELSE /\ crashed' = crashed \cup {t}
         /\ opened' = IF t = token THEN 0 ELSE opened
         /\ \E kept \in 0 .. window :
              /\ window' = kept + 1
              /\ IF kept + 1 >= Threshold
                 THEN phase' = "COOLDOWN" /\ cooldown' = "ahead"
                 ELSE phase' = "DEGRADED" /\ UNCHANGED cooldown

Expired == phase = "COOLDOWN" /\ cooldown = "passed"

\* _refresh_cooldown_locked, ahead of a step that continues in the phase it gives.
Refreshed == IF Expired THEN "DEGRADED" ELSE phase

Refresh ==
    /\ cooldown' = IF Expired THEN "none" ELSE cooldown
    /\ window' = IF Expired THEN 0 ELSE window

\* The monotonic clock reaches the end of the cooldown.
CooldownPasses ==
    /\ cooldown = "ahead"
    /\ cooldown' = "passed"
    /\ UNCHANGED <<phase, runtime, token, crashed, window, opened, osVars, callVars, worker, scope, faults, sent>>

\* snapshot, called by status and by every routed read.
Snapshot ==
    /\ Refresh
    /\ phase' = IF phase = "READY" /\ scope.observed < scope.program THEN "GLOBAL_WARMING" ELSE Refreshed
    /\ UNCHANGED <<runtime, token, crashed, opened, osVars, callVars, worker, scope, faults, sent>>

-------------------------------------------------------------------------------
(* Submission *)

\* A future that stop may ask for again: none yet, or one that failed.
StopNeeded(c) == status[c] \in {"new", "failed"}

\* start, submit_read, submit_edit, warm_global: _submit_ordinary.  The probes of
\* the workspace's adapter go straight to the executor, sealed or not.
Submit(c) ==
    /\ status[c] = "new" /\ Kind[c] # "stop" /\ Len(queue) < MaxQueued
    /\ Cardinality({o \in Call : Kind[o] # "stop" /\ status[o] # "new"}) < MaxCalls
    /\ IF sealed /\ Kind[c] # "probe"
       THEN status' = [status EXCEPT ![c] = "failed"] /\ UNCHANGED queue
       ELSE status' = [status EXCEPT ![c] = "queued"] /\ queue' = Append(queue, c)
    /\ UNCHANGED <<adapterVars, osVars, sealed, worker, scope, faults, sent>>

\* stop: admission is sealed first, and stays sealed when submit_cleanup refuses.
RequestStop(c) ==
    /\ Kind[c] = "stop" /\ StopNeeded(c)
    /\ sealed' = TRUE
    /\ \/ status' = [status EXCEPT ![c] = "queued"] /\ queue' = Append(queue, c)
       \/ sealed = FALSE /\ UNCHANGED <<status, queue>>
    /\ UNCHANGED <<adapterVars, osVars, worker, scope, faults, sent>>

-------------------------------------------------------------------------------
(* The worker *)

Settles(result) == status' = [status EXCEPT ![worker.call] = result] /\ worker' = Idle

Goes(pc) == worker' = [worker EXCEPT !.pc = pc] /\ UNCHANGED status

\* _runtime_provider.stop(t), after which the worker goes on with `after`.
StopsThen(t, after) == [worker EXCEPT !.pc = "stopRuntime", !.stopping = t, !.after = after]

Sends(purpose) == worker' = [worker EXCEPT !.pc = "send", !.after = purpose] /\ UNCHANGED status

\* A call leaves the queue; _run_admitted_ordinary_worker refuses a sealed one.
Take ==
    /\ worker.pc = "idle" /\ queue # <<>>
    /\ queue' = Tail(queue)
    /\ LET c == Head(queue)
           pc == IF Kind[c] = "stop" THEN "stop" ELSE "ensure"
           refused == sealed /\ Kind[c] \notin {"stop", "probe"}
       IN  /\ status' = [status EXCEPT ![c] = IF refused THEN "failed" ELSE "running"]
           /\ worker' = IF refused THEN worker ELSE [Idle EXCEPT !.pc = pc, !.call = c]
    /\ UNCHANGED <<adapterVars, osVars, sealed, scope, faults, sent>>

\* A mutant: work queued before a stop starts a process behind it.
Refused_Never == FALSE

\* _raise_if_ordinary_admission_sealed_locked, on the worker.
Refused == sealed

\* A mutant: the process that is replaced is not stopped.
StopOldAndLaunch_KeepOld == [worker EXCEPT !.pc = "launch"]

StopOldAndLaunch == IF runtime = 0 THEN [worker EXCEPT !.pc = "launch"] ELSE StopsThen(runtime, "launch")

\* _ensure_started_worker up to the launch: refused, cooling down, the running
\* process reused or found lost, or a new token for a process yet to start.
EnsureStarted ==
    /\ worker.pc = "ensure"
    /\ \/ Refused /\ Settles("failed") /\ UNCHANGED adapterVars
       \/ /\ ~ Refused
          /\ Refresh
          /\ \/ /\ Refreshed = "COOLDOWN"
                /\ Settles("failed")
                /\ UNCHANGED <<phase, runtime, token, opened>>
             \/ /\ Refreshed # "COOLDOWN" /\ runtime # 0 /\ token \notin crashed
                /\ IF proc[runtime] = "dead" THEN Settles("failed") ELSE Goes("dispatch")
                /\ phase' = Refreshed
                /\ UNCHANGED <<runtime, token, opened>>
             \/ /\ Refreshed # "COOLDOWN" /\ (runtime = 0 \/ token \in crashed)
                /\ phase' = "STARTING" /\ token' = token + 1 /\ runtime' = 0 /\ opened' = 0
                /\ worker' = StopOldAndLaunch
                /\ UNCHANGED status
          /\ UNCHANGED crashed
    /\ UNCHANGED <<osVars, queue, sealed, scope, faults, sent>>

\* SubprocessAdapterRuntimeProvider.start, and the runtime is installed; or the
\* process does not start and the token counts as crashed.
Launch ==
    /\ worker.pc = "launch"
    /\ \/ /\ proc' = [proc EXCEPT ![token] = "up"]
          /\ thread' = [thread EXCEPT ![token] = [w \in Threads |-> "run"]]
          /\ runtime' = token
          /\ Sends("initialize")
          /\ UNCHANGED <<client, phase, crashed, window, cooldown, opened, faults>>
       \/ /\ faults < MaxFaults /\ faults' = faults + 1
          /\ RecordCrash(token)
          /\ Settles("failed")
          /\ UNCHANGED <<osVars, runtime>>
    /\ UNCHANGED <<token, queue, sealed, scope, sent>>

\* The client the worker holds is the runtime's: no other thread replaces it.
MyClient == client[runtime]

\* The attempts of _execute_worker: two for a read, one for an edit.
TriesAgain == Kind[worker.call] = "read" /\ worker.attempt = 1

\* What the worker does with a lost transport: an initialize fails the start, a
\* read or an edit records the crash and a read restarts once.
Lost ==
    /\ worker.pc = "lost"
    /\ IF worker.after = "initialize"
       THEN /\ runtime' = 0
            /\ worker' = StopsThen(runtime, "startFailed")
            /\ UNCHANGED <<status, phase, crashed, window, cooldown, opened>>
       ELSE /\ IF Kind[worker.call] \in {"read", "edit"} THEN RecordCrash(token)
               ELSE UNCHANGED <<phase, crashed, window, cooldown, opened>>
            /\ IF TriesAgain THEN Goes("restart") ELSE Settles("failed")
            /\ UNCHANGED runtime
    /\ UNCHANGED <<token, osVars, queue, sealed, scope, faults, sent>>

\* Any other exception: a timeout, an error response, a malformed answer.
Failed ==
    /\ worker.pc = "error"
    /\ IF worker.after = "initialize"
       THEN runtime' = 0 /\ worker' = StopsThen(runtime, "startFailed") /\ UNCHANGED status
       ELSE Settles("failed") /\ UNCHANGED runtime
    /\ UNCHANGED <<phase, token, crashed, window, cooldown, opened, osVars, queue, sealed, scope, faults, sent>>

\* The start is given up: the process is stopped, its crash recorded.
StartFailed ==
    /\ worker.pc = "startFailed"
    /\ RecordCrash(token)
    /\ Settles("failed")
    /\ UNCHANGED <<runtime, token, osVars, queue, sealed, scope, faults, sent>>

\* _restart_worker up to the second start.
Restart ==
    /\ worker.pc = "restart"
    /\ Refresh
    /\ IF Refreshed = "COOLDOWN"
       THEN Settles("failed") /\ UNCHANGED <<phase, runtime>>
       ELSE /\ phase' = "STARTING" /\ runtime' = 0
            /\ LET second == [worker EXCEPT !.attempt = 2, !.again = TRUE, !.pc = "ensure"]
               IN  worker' = IF runtime = 0 THEN second
                             ELSE [second EXCEPT !.pc = "stopRuntime", !.stopping = runtime, !.after = "ensure"]
            /\ UNCHANGED status
    /\ UNCHANGED <<token, crashed, opened, osVars, queue, sealed, scope, faults, sent>>

\* The provider's stop: first the event that silences the process's threads, from
\* which a thread that has yet to look at it can only end ...
SetStopping ==
    /\ worker.pc = "stopRuntime"
    /\ thread' = [thread EXCEPT ![worker.stopping] =
                    [w \in Threads |-> IF @[w] \in {"run", "report"} THEN "done" ELSE @[w]]]
    /\ Goes("terminate")
    /\ UNCHANGED <<adapterVars, proc, client, queue, sealed, scope, faults, sent>>

\* ... then the client is shut down and closed and the process tree terminated,
\* with a kill to follow; the worker's call fails if the process outlives that.
Terminate ==
    /\ worker.pc = "terminate"
    /\ client' = [client EXCEPT ![worker.stopping].terminal = TRUE]
    /\ \/ proc' = [proc EXCEPT ![worker.stopping] = "dead"]
          /\ worker' = [worker EXCEPT !.pc = worker.after, !.stopping = 0]
          /\ UNCHANGED <<status, faults>>
       \/ /\ proc[worker.stopping] # "dead" /\ faults < MaxFaults /\ faults' = faults + 1
          /\ proc' = [proc EXCEPT ![worker.stopping] = "killed"]
          /\ Settles("failed")
    /\ UNCHANGED <<adapterVars, thread, queue, sealed, scope, sent>>

\* _stop_worker up to the provider's stop.
StopWorker ==
    /\ worker.pc = "stop"
    /\ IF runtime = 0 /\ phase = "COLD" THEN Settles("ok") /\ UNCHANGED <<phase, opened>>
       ELSE /\ phase' = "STOPPING" /\ opened' = 0
            /\ worker' = IF runtime = 0 THEN [worker EXCEPT !.pc = "cold"] ELSE StopsThen(runtime, "cold")
            /\ UNCHANGED status
    /\ UNCHANGED <<runtime, token, crashed, window, cooldown, osVars, queue, sealed, scope, faults, sent>>

Cold ==
    /\ worker.pc = "cold"
    /\ runtime' = 0 /\ phase' = "COLD"
    /\ Settles("ok")
    /\ UNCHANGED <<token, crashed, window, cooldown, opened, osVars, queue, sealed, scope, faults, sent>>

-------------------------------------------------------------------------------
(* Requests *)

\* The operation begins: _execute_worker looks at the process once more, a probe
\* opens its document, a warm-up asks for a witnessed document.
Dispatch ==
    /\ worker.pc = "dispatch"
    /\ \/ /\ worker.again
          /\ worker' = [worker EXCEPT !.pc = "ensure", !.again = FALSE]
          /\ UNCHANGED <<status, phase, opened>>
       \/ /\ ~ worker.again /\ Kind[worker.call] \in {"read", "edit"}
          /\ IF proc[runtime] = "dead" THEN worker' = [worker EXCEPT !.pc = "lost", !.after = "operation"] /\ UNCHANGED status
             ELSE Sends("operation")
          /\ UNCHANGED <<phase, opened>>
       \/ /\ ~ worker.again /\ Kind[worker.call] = "probe"
          /\ opened' = token
          /\ Sends("operation")
          /\ UNCHANGED phase
       \/ /\ ~ worker.again /\ Kind[worker.call] = "warm"
          /\ IF phase \in {"DOCUMENT_READY", "GLOBAL_WARMING", "READY"}
             THEN phase' = "GLOBAL_WARMING" /\ Goes("target")
             ELSE Settles("failed") /\ UNCHANGED phase
          /\ UNCHANGED opened
    /\ UNCHANGED <<runtime, token, crashed, window, cooldown, osVars, queue, sealed, scope, faults, sent>>

\* The warm-up notes the program generation it asks about.
WarmTarget ==
    /\ worker.pc = "target"
    /\ scope' = [scope EXCEPT !.target = scope.program]
    /\ Sends("operation")
    /\ UNCHANGED <<adapterVars, osVars, queue, sealed, faults, sent>>

\* _request_once up to the wait: a terminal client refuses; a pipe nobody reads
\* breaks, and the worker itself reports the loss on its way out.
Send ==
    /\ worker.pc = "send"
    /\ IF MyClient.terminal
       THEN Goes("lost") /\ UNCHANGED <<adapterVars, client, sent>>
       ELSE \/ /\ client' = [client EXCEPT ![runtime].box = "waiting"]
               /\ Goes("wait")
               /\ sent' = IF worker.after = "initialize" THEN sent
                          ELSE [sent EXCEPT !.at = IF Kind[worker.call] = "warm" THEN scope.program ELSE 0]
               /\ UNCHANGED adapterVars
            \/ /\ proc[runtime] = "dead"
               /\ client' = [client EXCEPT ![runtime].terminal = TRUE]
               /\ RecordCrash(runtime)
               /\ Goes("lost")
               /\ UNCHANGED <<runtime, token, sent>>
    /\ UNCHANGED <<proc, thread, queue, sealed, scope, faults>>

\* What follows an answer: the start is complete once the notifications after it
\* are written, or the operation has its result.
Answered ==
    IF worker.after = "initialize"
    THEN \/ ~ MyClient.terminal /\ Goes("dispatch")
         \/ (MyClient.terminal \/ proc[runtime] = "dead") /\ Goes("lost")
    ELSE CASE Kind[worker.call] \in {"read", "edit"} -> Settles("ok")
           [] Kind[worker.call] = "probe" -> Goes("mark")
           [] Kind[worker.call] = "warm" -> Goes("judge")

\* _request_once from the wait: an answer, an error, the terminal error or a
\* timeout; the request is no longer pending after any of them.
Receive ==
    /\ worker.pc = "wait"
    /\ client' = [client EXCEPT ![runtime].box = "empty"]
    /\ \/ MyClient.box = "ok" /\ Answered
       \/ MyClient.box = "error" /\ Goes("error")
       \/ MyClient.box = "closed" /\ Goes("lost")
       \/ MyClient.box = "waiting" /\ Goes("error")
    /\ UNCHANGED <<adapterVars, proc, thread, queue, sealed, scope, faults, sent>>

MarkedPhase == IF phase \in {"STARTING", "DEGRADED"} THEN "DOCUMENT_READY" ELSE phase

\* _mark_document_ready on the worker: the document must still be the one opened.
MarkDocument ==
    /\ worker.pc = "mark"
    /\ IF opened = token THEN phase' = MarkedPhase /\ Settles("ok") ELSE Settles("failed") /\ UNCHANGED phase
    /\ UNCHANGED <<runtime, token, crashed, window, cooldown, opened, osVars, queue, sealed, scope, faults, sent>>

\* _warm_global_worker after the answer: a malformed one, one without the exact
\* sentinel, one overtaken by a new generation, or a witness.
Judge ==
    /\ worker.pc = "judge"
    /\ \/ Settles("failed") /\ UNCHANGED <<phase, sent>>
       \/ phase' = "DEGRADED" /\ Settles("failed") /\ UNCHANGED sent
       \/ /\ IF scope.program # scope.target THEN Settles("failed") ELSE Goes("observe")
          /\ sent' = [sent EXCEPT !.witnessed = IF sent.at > @ THEN sent.at ELSE @]
          /\ UNCHANGED phase
    /\ UNCHANGED <<runtime, token, crashed, window, cooldown, opened, osVars, queue, sealed, scope, faults>>

\* A mutant: whatever generation is current counts as observed.
ObservedGeneration_Current == scope.program

\* What a warm-up passes to observe_configured_program.
ObservedGeneration == scope.target

\* observe_configured_program
Observe ==
    /\ worker.pc = "observe"
    /\ scope' = [scope EXCEPT !.observed = IF ObservedGeneration > @ THEN ObservedGeneration ELSE @]
    /\ worker' = [worker EXCEPT !.pc = "publish",
                                !.after = IF scope.target = scope.program THEN "READY" ELSE "GLOBAL_WARMING"]
    /\ UNCHANGED <<adapterVars, osVars, callVars, faults, sent>>

Publish ==
    /\ worker.pc = "publish"
    /\ phase' = worker.after
    /\ Settles("ok")
    /\ UNCHANGED <<runtime, token, crashed, window, cooldown, opened, osVars, queue, sealed, scope, faults, sent>>

-------------------------------------------------------------------------------
(* The servers and the two threads of each *)

\* A process exits by itself, or one that was killed is reaped.
ProcessDies(t) ==
    /\ \/ proc[t] = "up" /\ faults < MaxFaults /\ faults' = faults + 1
       \/ proc[t] = "killed" /\ UNCHANGED faults
    /\ proc' = [proc EXCEPT ![t] = "dead"]
    /\ UNCHANGED <<adapterVars, client, thread, callVars, worker, scope, sent>>

\* _dispatch: the reader puts an answer into the pending request's box.
Answer(t) ==
    /\ proc[t] = "up" /\ thread[t]["reader"] = "run" /\ client[t].box = "waiting"
    /\ \E answer \in {"ok", "error"} : client' = [client EXCEPT ![t].box = answer]
    /\ UNCHANGED <<adapterVars, proc, thread, callVars, worker, scope, faults, sent>>

\* _fail_all by the reader: the first terminal error is kept, the pending request
\* gets this one, and the first one is reported.
FailAll(t, outcome) ==
    /\ client' = [client EXCEPT ![t].terminal = TRUE, ![t].box = IF @ = "waiting" THEN outcome ELSE @]
    /\ thread' = [thread EXCEPT ![t]["reader"] = IF client[t].terminal THEN "done" ELSE "report"]

\* _read_loop ends: at the end of the stream, or on a message it cannot read.
ReaderEnds(t) ==
    /\ thread[t]["reader"] = "run"
    /\ \/ (proc[t] = "dead" \/ client[t].terminal) /\ FailAll(t, "closed") /\ UNCHANGED faults
       \/ proc[t] = "up" /\ faults < MaxFaults /\ faults' = faults + 1 /\ FailAll(t, "error")
    /\ UNCHANGED <<adapterVars, proc, callVars, worker, scope, sent>>

\* A publication about the open document: _on_notification, then the mark.
Publication(t) ==
    /\ proc[t] = "up" /\ thread[t]["reader"] = "run" /\ opened = t
    /\ thread' = [thread EXCEPT ![t]["reader"] = "mark"]
    /\ UNCHANGED <<adapterVars, proc, client, callVars, worker, scope, faults, sent>>

ReaderMarks(t) ==
    /\ thread[t]["reader"] = "mark"
    /\ phase' = MarkedPhase
    /\ thread' = [thread EXCEPT ![t]["reader"] = "run"]
    /\ UNCHANGED <<runtime, token, crashed, window, cooldown, opened, proc, client, callVars, worker, scope, faults, sent>>

\* observe_process returns from its wait.
ObserverWakes(t) ==
    /\ thread[t]["observer"] = "run" /\ proc[t] = "dead"
    /\ thread' = [thread EXCEPT ![t]["observer"] = "report"]
    /\ UNCHANGED <<adapterVars, proc, client, callVars, worker, scope, faults, sent>>

\* The phases in which _on_terminal ignores a loss.
IgnoredPhases_Starting == {"COLD", "STARTING", "STOPPING"}

IgnoredPhases == {"COLD", "STOPPING"}

\* report_terminal or observe_process, and _on_terminal, which ignores a loss in
\* the phases without a process ...
Report(t, w) ==
    /\ thread[t][w] = "report"
    /\ thread' = [thread EXCEPT ![t][w] = IF phase \in IgnoredPhases THEN "done" ELSE "record"]
    /\ UNCHANGED <<adapterVars, proc, client, callVars, worker, scope, faults, sent>>

\* ... and records the crash under the lock taken anew.
Record(t, w) ==
    /\ thread[t][w] = "record"
    /\ RecordCrash(t)
    /\ thread' = [thread EXCEPT ![t][w] = "done"]
    /\ UNCHANGED <<runtime, token, proc, client, callVars, worker, scope, faults, sent>>

\* The workspace installs another configured program, or a watcher batch touches it.
ProgramChanges ==
    /\ scope.program < MaxProgram
    /\ scope' = [scope EXCEPT !.program = @ + 1]
    /\ UNCHANGED <<adapterVars, osVars, callVars, worker, faults, sent>>

WorkerStep ==
    \/ Take \/ EnsureStarted \/ Launch \/ Lost \/ Failed \/ StartFailed \/ Restart \/ SetStopping \/ Terminate
    \/ StopWorker \/ Cold \/ Dispatch \/ WarmTarget \/ Send \/ Receive \/ MarkDocument
    \/ Judge \/ Observe \/ Publish

ThreadStep(t) ==
    \/ ReaderEnds(t) \/ ReaderMarks(t) \/ ObserverWakes(t)
    \/ \E w \in Threads : Report(t, w) \/ Record(t, w)

Next ==
    \/ WorkerStep \/ CooldownPasses \/ Snapshot \/ ProgramChanges
    \/ \E c \in Call : Submit(c) \/ RequestStop(c)
    \/ \E t \in Token : ThreadStep(t) \/ ProcessDies(t) \/ Answer(t) \/ Publication(t)

Spec == Init /\ [][Next]_vars

\* The executor's worker, the operating system's threads and its reaping of a
\* killed process keep going; servers, callers and clocks promise nothing.
FairSpec ==
    /\ Spec
    /\ WF_vars(WorkerStep)
    /\ \A t \in Token : WF_vars(ThreadStep(t)) /\ WF_vars(proc[t] = "killed" /\ ProcessDies(t))

-------------------------------------------------------------------------------
(* Properties *)

\* Every language-server process that runs and has not been killed is the one the
\* adapter holds, or in the hands of the worker that starts or stops it.
NoOrphan ==
    \A t \in Token : proc[t] = "up" => t = runtime \/ (worker.pc \in {"stopRuntime", "terminate"} /\ t = worker.stopping)

\* Once a stop has succeeded no process of the adapter runs, whatever was queued
\* before it and whichever path it took to the executor.
StopIsFinal ==
    \A c \in Call : Kind[c] = "stop" /\ status[c] = "ok" => runtime = 0 /\ \A t \in Token : proc[t] # "up"

\* No process of the adapter is left behind, and none is started behind a stop.
ProcessesAccounted == NoOrphan /\ StopIsFinal

\* The adapter never believes a configured program observed that no answered
\* sentinel query was sent for: a query in flight while the program changed does
\* not count for the new generation.
ReadinessHonest == scope.observed <= sent.witnessed

\* The adapter is not left with a lost process it has not noticed: the token is
\* recorded as crashed or the process released, so that later calls start another
\* one instead of meeting the dead one for ever; after a stop was asked for, the
\* next stop releases it.
UnnoticedLoss == runtime # 0 /\ proc[runtime] = "dead" /\ runtime \notin crashed

LossNoticed == []<>(~ UnnoticedLoss \/ sealed)
===============================================================================
