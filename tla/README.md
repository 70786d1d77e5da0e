# serena-light: a TLA+ verification project

serena-light is a daemon that shares warm language-server runtimes between MCP
clients. A client talks to a stdio *connector*; the connector finds or starts
the one *daemon* of its build, takes a *daemon lease*, and activates workspaces
under it. The daemon keeps one *runtime* per workspace identity. A runtime runs
workspace transactions one at a time and drives each of its language servers
through an *adapter* with one bounded *executor*. Beside the program the
repository holds an evaluation of candidate language servers, a set of commands
that freeze, install, probe and judge the candidates and publish receipts.

This directory holds specifications of the parts whose correctness depends on
the order in which things happen, the TLC configurations that check them on
small instances, and TLAPS proofs that hold for every instance. `PROJECT.json`
maps every definition to the source lines it models and lists the runs, mutants,
findings, hazards and theorems. Source paths below are relative to
`src/src/serena_light/` unless they start with `scripts/`.

## 1. The parts and their modules

| Part | Source | Module |
|---|---|---|
| lease lifecycle | `daemon/leases.py` | `Leases`; its promise `SharedWorkspaces`; `LeasesProofs` |
| runtime registry | `workspace/registry.py` | `Registry`; `RegistryProofs` |
| daemon service | `daemon/service.py` | `DaemonService`; `DaemonInvariant`, `DaemonActivation`, `DaemonServiceProofs` |
| bounded executor | `lsp/executor.py` | `Executor`; its promise `SerialExecutor`; `WorkerProofs` |
| guarded edit | `tools/editing.py`, `workspace/runtime.py` | `EditTransaction`, `EditContents`, `Positions`; `WorkerProofs` |
| document state | `lsp/state.py`, `lsp/adapter.py` | `Documents` |
| language adapter, LSP client | `lsp/adapter.py`, `lsp/client.py` | `Adapter` |
| workspace runtime | `workspace/runtime.py` | `Freshness` (scans, restarts, stop), `FreshRead` (one read) |
| tools and answers | `tools/*.py`, `daemon/server.py` | `Positions`, `Symbols`, `Answers`, `Navigation` |
| startup and runtime files | `daemon/server.py`, `cli.py`, `runtime_files.py` | `Startup`; `StartupProofs` |
| connector | `connector.py` | `Connector`; `ConnectorProofs` |
| candidate lock, runtime | `scripts/backend_eval/` | `CandidateLock`, `CandidateRuntime` |
| publication, corpus, admission | `scripts/backend_eval/` | `Publication`, `CorpusManifest`, `Admission` |
| probes, protocol phase, closeout | `scripts/backend_eval/` | `ProtocolProbe`, `ProtocolPhase`, `Closeout` |
| the evaluation as a whole | `scripts/backend_eval/` | `EvaluationHost`, `Evaluation` |

`WorkspaceTypes` holds the sets that leases, registry and daemon share.

How they interact. A request enters the daemon service with a lease id. The
service asks the lifecycle whether the lease lives, and the registry for its
binding; activation, release and expiry change both tables, one after the other,
with awaits in between. The service stops the runtimes that both have given up.
An edit is queued on the runtime's transaction executor; the transaction queues
the guarded edit on the adapter executor and waits for it with a timeout. A read
is a transaction too: it scans the disk, loads its file through the adapter
executor, asks the server twice, and scans again. A reader thread accepts
diagnostics meanwhile. Connectors and daemons share nothing but files and HTTP.

## 2. What a state and a step are

**`Leases`** is `LeaseLifecycle`. Every method runs under one lock, so a method
call is one step: `Issue`, `Heartbeat`, `Rebind`, `Release`, `ReleaseWorkspace`,
`Expire`, `Sweep`. `Tick` is the clock. The clock is kept relative (the age of a
lease, the time left of a grace) because the code only compares it with the two
limits. **`SharedWorkspaces`** is what the lifecycle promises without clocks: an
identity has at most one runtime, a lease uses at most one workspace, and only
an unused runtime goes.

**`Registry`** is `WorkspaceRuntimeRegistry`. Each method is a function from
registry state to registry state, so that the daemon can compose several in one
step. The module's own specification lets several callers prepare, commit, abort
and release activations of the same sessions without the daemon's binding lock.

**`DaemonService`** composes the two by `INSTANCE`. A step is what a coroutine
does between two awaits, or what a worker thread does under the registry's lock.
The binding lock and the stop lock are FIFO queues whose head is the holder. An
expiry found by any call ends the lease at once but reaches the registry only
after the binding lock; that gap is what the properties are about.

**`Executor`** is `BoundedLspExecutor`: callers, the worker and the threads that
call `close`. The admission counters and the queue have different locks, so an
item that has left the queue is counted until its taker gets the state lock.
**`SerialExecutor`** is its promise, and `EditTransaction` uses two of them.

**`EditTransaction`** is `replace_symbol_body` from the call to the answer,
through both executors. Either wait can time out, `stop` can come at any moment,
another program can write the file. A text is named by who wrote it. The splice
of the new body is in `Positions`.

**`Documents`** is one adapter's buffers: version reservation and loading,
`LspState`, the open map with its eviction, close and drain, watcher
reconciliation, publications on the reader thread, crash and restart. A text is
the number of the write that made it. An operation can outlive its caller, whose
wait is bounded: `Patience` is the set of caller kinds. `Versioning` is the set
of engine kinds: pyright puts document versions on its publications, typescript
does not. The server is external and modelled by the protocol the adapter relies
on: it handles messages in order and publishes for what it has open.

**`Adapter`** is the process side of `LanguageAdapter` and `SyncLspClient`: one
worker, and per process a reader thread and an exit observer that both report
its loss. A process may die, hang, answer garbage or outlive a kill.

**`Freshness`** is one scan with its deliveries, restarts and retirements, beside
the adapters' worker and a stopping thread. **`FreshRead`** is the protocol around
one read, with a scan as one step.

**`Navigation`** is one tool call of a client and its retry; the answer is
computed from a symbol forest (`Symbols`) and cut to a budget (`Answers`). Text is
kept as lengths, not characters. The configured-program search takes several
requests while program generations change. **`Positions`** has line tables, the
three encodings and the splice.

**`Startup`** is `connect_or_start` in every connector and `_run_daemon` in every
daemon. Each file is replaced or unlinked in one step, two files are read in two.

**`Connector`** is one client's session: concurrent calls, the heartbeat, and the
recovery that replaces a lost session. The daemon and the network are external.

**`Evaluation`** follows one command at a time. `EvaluationHost` gives a directory
a live and a durable image, so that a power loss between two operations leaves
any image since the last directory fsync.

The `MC*` modules name constants, a symmetry set, and the two products described
in the next section. Definitions with an underscore, such as `Evicted_OneLate`,
are mutants: plausible wrong versions of the definition next to them, used to
show that a property can fail. Every property of a passing run has one in
`PROJECT.json` that breaks it.

## 3. The runs

Sizes are distinct states. Two runs check two specifications each: a behaviour
of `MCWorker` follows `Executor` or `EditTransaction`, one of `MCReads` follows
`Navigation` or `FreshRead`, and the variables of the other rest. `MCEvaluation`
does the same with the six commands.

| Run | States | Checks | Shows |
|---|---|---|---|
| `daemon` | 257,206 | `TablesAgree` `LeasesAccounted` `NeverStopInUse` `CommitNeverRefused` `ImplementsPromise` | two clients of one workspace: outside the commit window both tables agree, no registry lease leaks, no runtime is stopped in use, and `SharedWorkspaces` is implemented |
| `daemon_live` | 73,708 | `RequestsAnswered` `GivenUpIsStopped` | no request waits for ever on a lock; what is given up is stopped |
| `daemon_stop_truth` | | `StopTruth` violated | finding 1 |
| `worker` | 317,076 | `AdmittedFindsRoom` `SettledAtExit` `AnswersTruthful` `NoUnseenOverwrite` `ImplementsSerial` `EveryItemSettles` `StopDrains` | admission never meets a full queue, no future is left behind, `SerialExecutor` is implemented; an edit's answer never lies about the file, and a silent server cannot keep stop from draining |
| `documents` | 3,499,947 | `DiagnosticsCurrent` `DiagnosticsTruthful` `RetryAdmitted` `PatientBufferFresh` | late publications are never taken for the current text, a refused load is admitted on retry, and no buffer is stale while callers wait |
| `documents_stale` | | `NoStaleBuffer` violated | finding 2 |
| `adapter` | 227,906 | `ProcessesAccounted` `ReadinessHonest` `LossNoticed` | no process is left behind or started behind a stop; readiness is never newer than the answered sentinel; a lost process is noticed |
| `freshness` | 991,878 | `AdmittedIsCurrent` `AdaptersOwned` `StopSucceeds` | no read is admitted before every running adapter has what was committed, also after a failed scan; no adapter escapes the runtime |
| `reads` | 1,043,520 | `ReadTruthful` `AnswerComplete` `AnswerFits` `PlacedExactly` `SearchOfOneGeneration` | an answer shows what the last scan found, counts what it leaves out, is of one program generation, and fits its budget unless it is an operational error |
| `startup` | 349,259 | `StartsOne` `Attaches` `OrphanRetires` | one start at a time; a failed start is reclaimed; every connector attaches within the bound on daemons; no daemon without its files stays for ever |
| `connector` | 374,434 | `RecoveredOnce` `OneBoundLease` | nothing with an effect is sent twice, a loss is recovered once, at most one lease is owned, and while active it is bound to what is remembered |
| `evaluation` | 836,482 | `FreezeSound` `HandedRuntimeStays` `ReportMatchesRecord` `AdmissionSound` `NoBackendLeft` `EvidenceBacked` | one freeze, one runtime, truthful reports, no backend left unnoticed, decisions on durable evidence |

`DiagnosticsCurrent` is stated of engines without versions only. For the others it
is false: a created file is opened once with version 1, the version its first
load uses, so a late publication of the first text can match the second.
`DiagnosticsTruthful` is what still holds there: whenever the text answered for
is the one on disk and no change is waiting, so is the text of the diagnostics.

### What the properties leave out

* `AnswerFits`: successes and the correction errors (`CompactErrors`) fit the
  budget. NOT_READY and UNSUPPORTED are rendered whole
  (`tools/presentation.py:79-83`); their details have the length `DetailChars`,
  which no budget bounds. A reported minimum works on the same document or program.
* `SearchOfOneGeneration` is about answers that list symbols. The search also ends
  in an error when an adapter is not ready, has no workspace symbols, changes, has
  an incomplete body, or sends a range its snapshot does not have.
* `NoUnseenOverwrite` protects what another edit wrote. A program outside that
  writes between the last comparison and the rename can be overwritten.
* `Attaches`: with two daemons, `OutOfDaemons` excuses every run in which a leaving
  daemon unlinks its successor's files and a third start is needed. Three daemons
  are out of reach of the run.
* `OneBoundLease`: a lease that expired is not acquired again; the calls of that
  session are answered LEASE_EXPIRED until the client closes. A lease whose release
  was lost with its connection is left to expire in the daemon.
* `FreezeSound`: one resolution is returned ever, except after a power loss that
  was not the only trouble (`SingleFailure`) or once a resolver that outlived its
  killed caller has written. The directory is made by a mkdir that is not synced
  (`candidate_lock.py:502-504`) and is taken to survive a power loss.
* `HandedRuntimeStays` excepts parts that something other than a call wrote since
  the call began. Installed packages are not verified again by the code: they are
  complete unless edited from outside, lost with power before they reached the disk,
  or cut short by a purge after two troubles.
* `ReportMatchesRecord`: a record in a directory the run made itself is durable only
  until power is lost, because that directory's own entry is never synced.
* `AdmissionSound` compares versions, so an edit undone between two looks is not
  among the changes; no digest the code compares would show it either.
* `EvidenceBacked` covers the corpus, the identity-bearing parts of the runtime and
  production. The parents of the run root are not fsynced
  (`protocol_phase.py:1042`); its entry is taken to be durable.

### Findings

1. **An immediate release can report a stop that did not happen**
   (`daemon/service.py:619`). If an expired holder of the same workspace still
   waits for the binding lock, the lifecycle decides to stop the runtime,
   `retire_idle` refuses it, and `_stop_runtimes([])` returns true. The comment
   at `daemon/service.py:723` promises stop truth. `LeasesAccounted`, which is
   proved, bounds the damage: the registry lease is then owned by that queued
   clean-up.
2. **An abandoned load can leave a stale buffer** (`lsp/adapter.py:1125`). It
   opens a file between two scans; the second scan reports the file as created,
   finds it open and passes over it. `lsp/adapter.py:1073` promises that no open
   buffer stays stale. `PatientBufferFresh` says that it needs a caller that
   gives up while its operation still runs.

### Other observations

Met while modelling; no run is kept for them.

* The notification of an edit uses `target.version + 1` without reserving it
  (`workspace/runtime.py:660`, promised unique at 3222), so a load queued behind
  an abandoned edit can be refused. `RetryAdmitted` shows the next call succeeds.
* A warm-up that ends after its server's loss moves the adapter out of COOLDOWN
  (`lsp/adapter.py:1231`, 1246).
* A reference snippet can be one character longer than `max_snippet_chars`
  (`tools/references.py:492-504`).
* `aclose` of a connector waits for ever if the heartbeat was recovering when it
  was cancelled (`connector.py:577`, 744); a heartbeat answered with
  LEASE_EXPIRED is not recovered by the heartbeat itself; an activation whose
  answer is lost in a recovery can leave the daemon on another binding than the
  remembered one (`OneBoundLease` is stated outside that case, the history
  variable `doubt`).
* `scripts/backend_eval`: a failed candidate's receipt can be unconstructible, so
  that nothing is published; a resolver that survives a kill can write after the
  rollback; a publisher killed between link and return leaves a record that
  nobody reported; two different decisions can be published for one receipt.

## 4. Bounds

* `daemon`: two requests and the sweep are enough for each lock to have a holder
  and a waiter; a second runtime serves while the first stops. One identity:
  moving between workspaces is covered by the proofs, which fix no instance.
* `daemon_live`: one client; the two requests suffice for both locks to be waited
  for, and a stop fails and is retried.
* `worker`: one item more of each kind than is admitted, so both limits are
  reached; two closing threads; two edits, one other program, one stop. The other
  program may write anything but the bytes of an edit, the original included.
* `documents`: one open buffer for two files makes every second load an eviction.
  `documents_stale` has the third write that finding 2 needs.
* `adapter`: two ordinary calls beside the stop, one fault, and a crash threshold
  of two, so that the cooldown is reached.
* `freshness`: two families, two changes (the second meets what the first left
  unfinished) and one fault.
* `reads`: documents with an overloaded pair, a nested and an equal range; budgets
  from below the smallest frame to above the longest answer, and operational errors
  longer than all of them; two writes and one fault around the read.
* `startup`: two connectors, two daemons, one crash, early deadline or unanswered
  health check.
* `connector`: two calls and one fault, or one call and two faults.
* `evaluation`: two evaluators; failures, kills and outside changes are bounded
  together per command (`Trouble`).

The bounds `Max...` are of the model, not of the code: behaviours stop when they
are used up, so those runs do not check for deadlock. The daemon and worker runs
do. Symmetry is used only over interchangeable ids and never with a temporal
property that is more than a step property.

## 5. Fairness

Liveness is checked under these assumptions and no others.

* `DaemonService`: weak fairness of each coroutine's next step, the sweep and the
  clock; asyncio locks are FIFO and `cli._sweep_periodically` loops for the life
  of the daemon. Strong fairness of a *successful* stop is an assumption about
  the environment: the code retries pending stops for ever, and
  `GivenUpIsStopped` says this suffices if a stop retried for ever succeeds once.
* `Executor`: the worker and the closing threads are scheduled and the calls they
  run return. No caller, new close or timeout is obliged.
* `EditTransaction`: only the transaction's worker, whose waits are bounded by
  timeouts, and the cancellation by stop. The guarded edit has no fairness,
  because a language server may never answer.
* `Adapter`: the worker, the two threads of each process, and that a killed
  process dies. A server owes nothing.
* `Freshness`: the transaction, the adapters' worker, the stopping thread, and
  that a stop which failed is called again, as the daemon does.
* `Startup`: a connector's next step and its deadlines, a daemon's next step, and
  the expiry of leases nobody renews.

`Documents`, `FreshRead`, `Navigation`, `Connector` and `Evaluation` state no
liveness.

## 6. Proofs

`tlapm` checks every leaf. No instance is fixed: the constants are arbitrary
apart from the named assumptions, which TLC evaluates in the runs. Each inductive
invariant was an invariant of a TLC run before it was proved.

**`LeasesProofs`** assumes `IntervalAssumption` (`Expiry` positive, `Grace`
natural, as the constructor checks) and `NoneAssumption`. The invariants are not
inductive alone: releasing a lease keeps the tables in agreement only if an ended
lease is bound to nothing. `IndInv` adds that (`LeaseTableOK`) and states
`HoldersAgree` and `GraceIffUnheld` as one relation `Agree` between the two
tables, because `rebind` changes them twice in one step and the intermediate
tables must agree too. Proved: `TypeCorrect`, `HoldersAgreeAlways`,
`GraceIffUnheldAlways`, the action properties `ExpiryIsFinalAlways` and
`WarmUntilDeadlineAlways`, and `Refinement`: every step is a step or a stutter of
`SharedWorkspaces`.

**`RegistryProofs`** assumes `RegistryAssumption` (finitely many lease ids, `None`
is no value). `Core` (types, exact counts, leased runtimes stay) is preserved by
each operator taken alone. That bindings are backed and nothing leaks also needs
ownership: every live lease belongs to exactly one binding or one unsettled
candidate. Proved: `TypeCorrect`, `RefcountExactAlways`,
`LeasedRuntimeStaysAlways`, `BindingsBackedAlways`, `NoLeakedLeaseAlways`.

**`DaemonInvariant`, `DaemonActivation`, `DaemonServiceProofs`** prove every safety
property the run `daemon` checks, for any number of clients, coroutines,
workspaces and runtimes: `TypeCorrect`, `TablesAgreeAlways`,
`LeasesAccountedAlways`, `NeverStopInUseAlways`, `CommitNeverRefusedAlways`,
`LifecycleContractKept` (each step is a step or a stutter of `Leases`) and
`Refinement` (the daemon implements `SharedWorkspaces`). The invariant `Inv` has
these parts, each needed because a coroutine acts on what it read before an await:

* the two tables taken alone are sound (`LifecycleOK`, `RegistryOK` with its exact
  counts), and outside the commit window they agree (`TablesAgree`);
* at most one coroutine is past the head of each lock queue, and one that holds a
  lock is its head (`Exclusive`, `StopTurns`);
* what a coroutine carries across an await is still true: the lease and the
  runtime of an activation before and after its commit (`ActivationOK`), the
  leases a clean-up will release (`JobOK`, `CleaningSafe`);
* every registry lease has exactly one owner among bindings, the activation in
  flight and queued clean-ups (`Backed`);
* the lifecycle's runtimes are registered and distinct, and a runtime that is
  being stopped is not registered (`WarmRuntimeRegistered`, `RuntimesDistinct`,
  `StoppedUnregistered`).

`DaemonInvariant` defines `Inv` and proves it for requests that only read or
release, expiry, sweeps and stops; `DaemonActivation` proves it for the steps of
an activation; `DaemonServiceProofs` combines them and draws the theorems. Both
tables' operators are used by what lemmas say of them.

**`WorkerProofs`** has two parts, as the run `worker` has. For the executor, with
any items, closing threads and capacities: `TypeCorrect`,
`AdmittedFindsRoomAlways`, `SettledAtExitAlways` and `SerialRefinement`. Admission
reads the counters while the queue is changed under another lock, so `Inv` says
exactly which items are counted and not queued (`Placed`, `CountsExact`,
`RoomExact`), that one close at a time is active and the stop token is the last
thing in the queue (`Sealing`), and that some thread will reach every open future
(`OpenReached`).

For any number of edits through two executors that keep that promise:
`EditsTypeCorrect`, `AnswersTruthfulAlways`, `ClosedWithoutEditsAlways` and the
action property `NoUnseenOverwriteAlways`. `EditsInv` relates for each edit the two
executors' statuses, the two commit flags, the guarded edit and the transaction
(`GuardedEdit`, `Transaction`, `Told`); that one edit runs at a time (`OneRuns`)
comes from the promise of the executor.

**`StartupProofs`** proves `TypeCorrect`, `StartsOneAlways` and `OneInside` for any
number of connectors, daemons and faults. A connector decides to spawn from files
it has read one by one, so `Inv` says what a connector inside the lock can rely
on (`Owned`), that daemons are numbered in order of spawning (`Numbered`), that
one connector is inside (`Exclusive`), and that while nothing has failed a daemon
once spawned serves or is being waited for (`Served`).

**`ConnectorProofs`** proves `TypeCorrect`, `RecoveredOnceAlways` and
`OneBoundLeaseAlways` for any number of calls open at once, any faults and daemon
restarts. It assumes that the calls, the heartbeat and `None` are distinct
(`TaskAssumption`, `CwdAssumption`) and that the bounds are numbers. A call
decides to recover from the session it took before an await, so `Inv` says that a
call about to recover its own generation has seen the loss of the session that is
installed (`Placed`); that each generation, and each loss not yet made good, was
paid for by a fault of its own (`Losses`); how often a request was sent at each
point (`Sent`); that an active lease besides the installed one is in the hands of
the task that recovers (`Locked`, `Owned`); and that, unless the outcome of a
binding call is in doubt, the lease, while it is active, has the remembered workspace or the one that a task
is just binding (`Known`).

**Only model-checked**, for the instances of section 4 and no more:

* all liveness: fairness and ENABLED are out of this prover's reach;
* `Documents`, `Adapter`, `Freshness`, `FreshRead` and the evaluation:
  their invariants have not been made inductive;
* `Positions`, `Symbols`, `Answers` and `Navigation`: what a recursive definition
  computes for every input needs induction over data, which is out of reach too.
  TLC compares them with reference definitions over bounded inputs.

## 7. What is not modelled

* In modelled parts: error envelopes and logging of the daemon service; the
  source, index and diagnostics counters of `LspState`; parsing of initialize
  results; names and modes of temporary files; validation of malformed payloads;
  field validation of evaluation records.
* Framing and JSON are byte parsing; workspace identity and inventory are
  functions of the file system, whose result `Documents` and `Freshness` take as
  the state of the disk; language engines are settings and parsers; process
  control is a sequence of operating-system calls; legacy migration and the
  report scripts are sequential.
* A protocol phase starts from a passing parent receipt and a clean evaluator.
* Real time: timeouts are steps that may happen at any moment of the wait.
