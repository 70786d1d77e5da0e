---------------------------- MODULE DaemonService ----------------------------
(***************************************************************************)
(* WorkspaceDaemonService (daemon/service.py): the coroutines that keep    *)
(* the lease lifecycle (Leases) and the runtime registry (Registry) in     *)
(* step, and stop the runtimes the two have given up.                      *)
(*                                                                         *)
(* A step is what one coroutine does between two awaits, or what a worker  *)
(* thread does under the registry's lock.  Both asyncio locks are FIFO     *)
(* queues whose head is the holder.  Expiry found by a heartbeat, a status *)
(* or a semantic call ends the lease at once but reaches the registry only *)
(* after the binding lock: that gap is what the properties are about.      *)
(***************************************************************************)
EXTENDS WorkspaceTypes, Sequences

CONSTANTS
    Request,  \* the coroutines that can serve a client at the same time
    Sweeper   \* the one coroutine that sweeps

Task == Request \cup {Sweeper}

VARIABLES
    active, expired, binding, age, workspaces, issued,  \* the lifecycle
    reg,      \* the registry
    task,     \* where each coroutine is, and its local variables
    lockQ,    \* _binding_lock
    stopQ,    \* _runtime_stop_lock
    pending   \* _pending_runtime_stops

lifecycle == <<active, expired, binding, age, workspaces, issued>>
stops == <<stopQ, pending>>
vars == <<lifecycle, reg, task, lockQ, stops>>

L == INSTANCE Leases
R == INSTANCE Registry WITH Caller <- Task,
                            prepared <- [t \in Task |-> task[t].prep]

\* What a coroutine was asked to do; a clean-up carries the binding_to_release
\* of the expiry decision.
Job ==
    [kind: {"activate"}, lease: Lease, identity: Identity, subdir: Subdir]
    \cup [kind: {"release_lease", "release_workspace"}, lease: Lease, immediate: BOOLEAN]
    \cup [kind: {"clean"}, binding: Binding \cup {None}]
    \cup [kind: {"sweep"}]

PC == {"idle", "resolve", "lock", "prepare", "refresh", "commit", "rebind",
       "stopwait", "stopping", "replied"}

Local == [pc: PC, job: Job \cup {None}, prep: Prepared \cup {None},
          own: SUBSET Runtime,           \* the runtimes this call has detached
          decided: Runtime \cup {None},  \* decision.runtime_to_stop
          stopped: BOOLEAN]              \* runtime_stopped of the response

Idle == [pc |-> "idle", job |-> None, prep |-> None, own |-> {}, decided |-> None,
         stopped |-> FALSE]
At(pc, job) == [Idle EXCEPT !.pc = pc, !.job = job]

Init ==
    /\ L!Init
    /\ reg = R!EmptyRegistry
    /\ task = [t \in Task |-> Idle]
    /\ lockQ = <<>> /\ stopQ = <<>> /\ pending = {}

-----------------------------------------------------------------------------
\* _apply_decision_locked: the registry lease of the binding is released, and
\* the runtime to stop, if any, detached when nothing leases it any more.
Unleased(g, b) == IF b = None THEN g ELSE R!ReleaseLease(g, b.id)

\* _apply_decisions_locked, the releases: the bindings have different ids, so the
\* order of the loop does not matter.
UnleasedAll(g, bs) ==
    LET ids == {w \in WorkspaceLease : g.leases[w] # None /\ \E b \in bs : b.id = w}
    IN  [runtimes |-> g.runtimes,
         refcount |-> [i \in Identity |-> g.refcount[i] - Cardinality(ids \cap R!LeasesOf(g, i))],
         leases   |-> [w \in WorkspaceLease |-> IF w \in ids THEN None ELSE g.leases[w]],
         bindings |-> [s \in Session |-> IF g.bindings[s] # None /\ g.bindings[s].id \in ids
                                         THEN None ELSE g.bindings[s]]]

Applied(b, stop) ==
    IF b = None THEN reg ELSE R!RetireIdle(Unleased(reg, b), b.identity, stop)

\* Mutant: the runtime is stopped although retire_idle has refused it.
Detached_Refused(b, stop) == IF b # None /\ stop # None THEN {stop} ELSE {}

Detached(b, stop) ==
    IF b # None /\ R!Retirable(Unleased(reg, b), b.identity, stop) THEN {stop} ELSE {}

\* Mutant: a committed activation of an expired lease stays published.
Discarded_KeepsCommitted(g, l, p, committed) ==
    LET h == IF committed THEN g ELSE R!Abort(g, p)
    IN  IF p.created THEN R!RetireIdle(h, p.binding.identity, p.binding.runtime) ELSE h

\* Mutant: a candidate that was not committed is forgotten, not aborted.
Discarded_NoAbort(g, l, p, committed) ==
    LET h == IF committed THEN R!Release(g, l) ELSE g
    IN  IF p.created THEN R!RetireIdle(h, p.binding.identity, p.binding.runtime) ELSE h

\* _discard_prepared_activation_locked, on the registry g.
Discarded(g, l, p, committed) ==
    LET h == IF committed THEN R!Release(g, l) ELSE R!Abort(g, p)
    IN  IF p.created THEN R!RetireIdle(h, p.binding.identity, p.binding.runtime) ELSE h

DiscardedRuntime(g, l, p, committed) ==
    LET h == IF committed THEN R!Release(g, l) ELSE R!Abort(g, p)
    IN  IF p.created /\ R!Retirable(h, p.binding.identity, p.binding.runtime)
        THEN {p.binding.runtime} ELSE {}

\* The call returns; a release reports on the runtime it decided to stop.
Returned(t, decided, ok) ==
    IF decided = None THEN Idle
    ELSE [Idle EXCEPT !.pc = "replied", !.decided = decided, !.stopped = ok]

\* Mutant: a call without targets of its own retries nothing.
MergeStops_OwnOnly(t, own, decided, queue) ==
    /\ pending' = pending \cup own
    /\ IF own = {}
       THEN stopQ' = Tail(queue) /\ task' = [task EXCEPT ![t] = Returned(t, decided, TRUE)]
       ELSE stopQ' = queue /\ task' = [task EXCEPT ![t] =
              [Idle EXCEPT !.pc = "stopping", !.own = own, !.decided = decided]]

\* _stop_runtimes under its lock: the own targets join the pending ones, and
\* without any the call returns at once.
MergeStops(t, own, decided, queue) ==
    /\ pending' = pending \cup own
    /\ IF pending \cup own = {}
       THEN stopQ' = Tail(queue) /\ task' = [task EXCEPT ![t] = Returned(t, decided, TRUE)]
       ELSE stopQ' = queue /\ task' = [task EXCEPT ![t] =
              [Idle EXCEPT !.pc = "stopping", !.own = own, !.decided = decided]]

\* The binding lock is released and _stop_runtimes entered in the same step:
\* asyncio grants a free lock without yielding.
LeaveLock(t, own, decided) ==
    /\ lockQ' = Tail(lockQ)
    /\ IF stopQ = <<>>
       THEN MergeStops(t, own, decided, <<t>>)
       ELSE /\ stopQ' = Append(stopQ, t)
            /\ task' = [task EXCEPT ![t] =
                 [Idle EXCEPT !.pc = "stopwait", !.own = own, !.decided = decided]]
            /\ UNCHANGED pending

\* Mutant: a waiter does not wait for the holder of the binding lock.
Turn_NotExclusive(t, kind) == task[t].pc = "lock" /\ task[t].job.kind = kind

Turn(t, kind) ==
    /\ lockQ # <<>> /\ Head(lockQ) = t
    /\ task[t].pc = "lock" /\ task[t].job.kind = kind

Queue(t, job) ==
    /\ task' = [task EXCEPT ![t] = At("lock", job)]
    /\ lockQ' = Append(lockQ, t)

-----------------------------------------------------------------------------
\* acquire_lease, and a heartbeat in time: they wait for no lock.
AcquireLease(l) == L!Issue(l, None) /\ UNCHANGED <<reg, task, lockQ, stops>>
Heartbeat(l) == L!Heartbeat(l) /\ UNCHANGED <<reg, task, lockQ, stops>>

\* heartbeat, binding_for and get_runtime_status with a lease past its
\* boundary: the lease ends, then _clean_expired queues for the lock.
UseLapsed(t, l) ==
    /\ task[t].pc = "idle"
    /\ L!Expire(l)
    /\ Queue(t, [kind |-> "clean", binding |-> binding[l]])
    /\ UNCHANGED <<reg, stops>>

\* The same with a lease that has already ended: the decision is None.
UseEnded(t, l) ==
    /\ task[t].pc = "idle" /\ l \in issued \ active
    /\ Queue(t, [kind |-> "clean", binding |-> None])
    /\ UNCHANGED <<lifecycle, reg, stops>>

Clean(t) ==
    /\ Turn(t, "clean")
    /\ reg' = Unleased(reg, task[t].job.binding)
    /\ LeaveLock(t, {}, None)
    /\ UNCHANGED lifecycle

CallRelease(t, l, kind, immediate) ==
    /\ task[t].pc = "idle" /\ l \in issued
    /\ Queue(t, [kind |-> kind, lease |-> l, immediate |-> immediate])
    /\ UNCHANGED <<lifecycle, reg, stops>>

\* The part of both releases that follows the lifecycle's decision.
ApplyAndStop(t, b, stop) ==
    /\ reg' = Applied(b, stop)
    /\ LeaveLock(t, Detached(b, stop), stop)

\* release_lease and release_workspace with a lease past its boundary.
ReleaseLapsed(t) ==
    /\ Turn(t, "release_lease") \/ Turn(t, "release_workspace")
    /\ L!Expire(task[t].job.lease)
    /\ ApplyAndStop(t, binding[task[t].job.lease], None)

\* The lease has ended, or it has no workspace to release: no decision.
ReleaseNothing(t) ==
    /\ \E kind \in {"release_lease", "release_workspace"} :
          LET l == task[t].job.lease
          IN  /\ Turn(t, kind)
              /\ l \in active => kind = "release_workspace" /\ L!Live(l) /\ binding[l] = None
    /\ ApplyAndStop(t, None, None)
    /\ UNCHANGED lifecycle

ReleaseLease(t) ==
    /\ Turn(t, "release_lease")
    /\ LET l == task[t].job.lease
           immediate == task[t].job.immediate
       IN  /\ L!Release(l, immediate)
           /\ ApplyAndStop(t, binding[l], L!RuntimeToStop(l, immediate))

ReleaseWorkspace(t) ==
    /\ Turn(t, "release_workspace")
    /\ LET l == task[t].job.lease
           immediate == task[t].job.immediate
       IN  /\ L!ReleaseWorkspace(l, immediate)
           /\ ApplyAndStop(t, binding[l], L!RuntimeToStop(l, immediate))

\* sweep: the bindings of all lapsed leases are released first, then the
\* runtimes whose grace is over are detached.
StartSweep ==
    /\ task[Sweeper].pc = "idle"
    /\ Queue(Sweeper, [kind |-> "sweep"])
    /\ UNCHANGED <<lifecycle, reg, stops>>

Sweep ==
    LET ended  == {binding[l] : l \in {m \in Lease : L!Lapsed(m)}} \ {None}
        g      == UnleasedAll(reg, ended)
        over   == {i \in L!GraceOver : R!Retirable(g, i, workspaces[i].runtime)}
    IN  /\ Turn(Sweeper, "sweep")
        /\ L!Sweep
        /\ reg' = [g EXCEPT !.runtimes = [i \in Identity |-> IF i \in over THEN None ELSE @[i]]]
        /\ LeaveLock(Sweeper, {workspaces[i].runtime : i \in over}, None)

-----------------------------------------------------------------------------
\* activate_workspace: the path is resolved in a thread, before any lock.
CallActivate(t, l, i, d) ==
    /\ task[t].pc = "idle" /\ l \in issued
    /\ task' = [task EXCEPT ![t] =
                  At("resolve", [kind |-> "activate", lease |-> l, identity |-> i, subdir |-> d])]
    /\ UNCHANGED <<lifecycle, reg, lockQ, stops>>

Resolve(t) ==
    /\ task[t].pc = "resolve"
    /\ \/ Queue(t, task[t].job)
       \/ task' = [task EXCEPT ![t] = Idle] /\ UNCHANGED lockQ
    /\ UNCHANGED <<lifecycle, reg, stops>>

\* require_active for the lease of t, then the steps an expired lease takes on
\* registry g after the runtimes own have been detached.
Rejected(t, g, own) ==
    LET l == task[t].job.lease
    IN  /\ \/ L!Expire(l) /\ reg' = Unleased(g, binding[l])
           \/ l \notin active /\ UNCHANGED lifecycle /\ reg' = g
        /\ LeaveLock(t, own, None)

Admit(t) ==
    /\ Turn(t, "activate")
    /\ \/ /\ L!Live(task[t].job.lease)
          /\ task' = [task EXCEPT ![t].pc = "prepare"]
          /\ UNCHANGED <<lifecycle, reg, lockQ, stops>>
       \/ Rejected(t, reg, {})

\* The clean-up of binding b still queues for the lock.
Cleaning(b) ==
    \E t \in Task : task[t].pc = "lock" /\ task[t].job.kind = "clean" /\ task[t].job.binding = b

\* A runtime and a workspace lease id that nothing in the daemon refers to.
NewRuntime(r) ==
    /\ \A i \in Identity : /\ reg.runtimes[i] # r
                           /\ workspaces[i] # None => workspaces[i].runtime # r
    /\ r \notin pending
    /\ \A t \in Task : r \notin task[t].own /\ r # task[t].decided

NewId(w) ==
    /\ R!Fresh(w)
    /\ \A l \in Lease : binding[l] # None => binding[l].id # w
    /\ \A b \in Binding : Cleaning(b) => b.id # w

\* prepare_activation, in a thread; building the runtime may fail.
Prepare(t) ==
    /\ task[t].pc = "prepare"
    /\ LET l == task[t].job.lease
           i == task[t].job.identity
           d == task[t].job.subdir
       IN  \E w \in WorkspaceLease, r \in Runtime :
             /\ R!SameRoot(reg, l, i) \/ NewId(w)
             /\ IF reg.runtimes[i] = None THEN NewRuntime(r) ELSE r = reg.runtimes[i]
             /\ reg' = R!Prepare(reg, l, i, w, r)
             /\ task' = [task EXCEPT ![t].pc = "refresh",
                                     ![t].prep = R!PreparedFor(reg, l, i, d, w, r)]
    /\ UNCHANGED <<lifecycle, lockQ, stops>>

PrepareFails(t) ==
    /\ task[t].pc = "prepare" /\ reg.runtimes[task[t].job.identity] = None
    /\ LeaveLock(t, {}, None)
    /\ UNCHANGED <<lifecycle, reg>>

\* _ensure_runtime_fresh, in a thread, and require_active again after it.
Refresh(t) ==
    LET l == task[t].job.lease
        p == task[t].prep
    IN  /\ task[t].pc = "refresh"
        /\ \/ /\ L!Live(l)
              /\ task' = [task EXCEPT ![t].pc = "commit"]
              /\ UNCHANGED <<lifecycle, reg, lockQ, stops>>
           \/ Rejected(t, Discarded(reg, l, p, FALSE), DiscardedRuntime(reg, l, p, FALSE))

RefreshFails(t) ==
    LET l == task[t].job.lease
        p == task[t].prep
    IN  /\ task[t].pc = "refresh"
        /\ reg' = Discarded(reg, l, p, FALSE)
        /\ LeaveLock(t, DiscardedRuntime(reg, l, p, FALSE), None)
        /\ UNCHANGED lifecycle

\* commit_activation, in a thread.  CommitNeverRefused: it always succeeds.
Commit(t) ==
    /\ task[t].pc = "commit"
    /\ reg' = R!Commit(reg, task[t].prep)
    /\ task' = [task EXCEPT ![t].pc = "rebind"]
    /\ UNCHANGED <<lifecycle, lockQ, stops>>

\* rebind: the lease may have ended since the commit was sent to its thread.
Rebind(t) ==
    LET l == task[t].job.lease
        p == task[t].prep
    IN  /\ task[t].pc = "rebind"
        /\ \/ L!Rebind(l, p.binding) /\ LeaveLock(t, {}, None) /\ UNCHANGED reg
           \/ Rejected(t, Discarded(reg, l, p, TRUE), DiscardedRuntime(reg, l, p, TRUE))

-----------------------------------------------------------------------------
\* _stop_runtimes of a coroutine that had to wait for the stop lock.
StopTurn(t) ==
    /\ task[t].pc = "stopwait" /\ Head(stopQ) = t
    /\ MergeStops(t, task[t].own, task[t].decided, stopQ)
    /\ UNCHANGED <<lifecycle, reg, lockQ>>

\* Mutant: the stop lock is not released.
StopsDone_KeepsLock(t, failed) ==
    /\ task[t].pc = "stopping" /\ failed \subseteq pending
    /\ pending' = failed
    /\ task' = [task EXCEPT ![t] = Returned(t, task[t].decided, task[t].own \cap failed = {})]
    /\ UNCHANGED <<lifecycle, reg, lockQ, stopQ>>

\* The stopper threads are done: the runtimes whose stop failed stay pending.
StopsDone(t, failed) ==
    /\ task[t].pc = "stopping" /\ failed \subseteq pending
    /\ pending' = failed
    /\ stopQ' = Tail(stopQ)
    /\ task' = [task EXCEPT ![t] =
                  Returned(t, task[t].decided, task[t].own \cap failed = {})]
    /\ UNCHANGED <<lifecycle, reg, lockQ>>

Return(t) ==
    /\ task[t].pc = "replied"
    /\ task' = [task EXCEPT ![t] = Idle]
    /\ UNCHANGED <<lifecycle, reg, lockQ, stops>>

Tick == L!Tick /\ UNCHANGED <<reg, task, lockQ, stops>>

\* What a request in service does next.
Serve(t) ==
    \/ Clean(t) \/ ReleaseLapsed(t) \/ ReleaseNothing(t) \/ ReleaseLease(t)
    \/ ReleaseWorkspace(t)
    \/ Resolve(t) \/ Admit(t) \/ Prepare(t) \/ PrepareFails(t) \/ Refresh(t)
    \/ RefreshFails(t) \/ Commit(t) \/ Rebind(t)
    \/ Return(t)

Stop(t) == StopTurn(t) \/ \E failed \in SUBSET pending : StopsDone(t, failed)

Call(t, l) ==
    \/ UseLapsed(t, l) \/ UseEnded(t, l)
    \/ \E kind \in {"release_lease", "release_workspace"}, immediate \in BOOLEAN :
          CallRelease(t, l, kind, immediate)
    \/ \E i \in Identity, d \in Subdir : CallActivate(t, l, i, d)

Next ==
    \/ \E l \in Lease : AcquireLease(l) \/ Heartbeat(l)
    \/ \E t \in Request, l \in Lease : Call(t, l)
    \/ \E t \in Request : Serve(t)
    \/ \E t \in Task : Stop(t)
    \/ StartSweep \/ Sweep
    \/ Tick

\* Coroutines and their threads make progress, the sweep loop keeps sweeping,
\* time passes; a stop that is retried for ever succeeds in the end.
Fairness ==
    /\ \A t \in Request : WF_vars(Serve(t))
    /\ \A t \in Task : WF_vars(Stop(t)) /\ SF_vars(StopsDone(t, {}))
    /\ WF_vars(StartSweep) /\ WF_vars(Sweep) /\ WF_vars(Tick)

Spec == Init /\ [][Next]_vars
FairSpec == Spec /\ Fairness

-----------------------------------------------------------------------------
\* The tables, the locals of every coroutine and the two locks have their types;
\* nothing but a runtime is ever queued to be stopped.
TypeOK ==
    /\ L!TypeOK
    /\ reg \in R!RegistryState
    /\ task \in [Task -> Local]
    /\ lockQ \in Seq(Task) /\ stopQ \in Seq(Task) /\ pending \subseteq Runtime

\* The lease an activation has published in the registry and not yet in the
\* lifecycle.
Publishing(l) == \E t \in Task : task[t].pc = "rebind" /\ task[t].job.lease = l

\* The two tables agree: an active lease has the same binding in the lifecycle
\* and in the registry, except between commit_activation and rebind of its own
\* activation; a registry binding of an ended lease is about to be cleaned.
TablesAgree ==
    \A l \in Lease :
        \/ reg.bindings[l] = binding[l]
        \/ Publishing(l)
        \/ l \notin active /\ Cleaning(reg.bindings[l])

\* No registry lease leaks: each belongs to the binding of an active lease, to
\* an activation in flight, or to a queued clean-up.
LeasesAccounted ==
    \A w \in WorkspaceLease : reg.leases[w] # None =>
        \/ \E l \in active : binding[l] # None /\ binding[l].id = w
        \/ \E t \in Task : task[t].prep # None /\ task[t].prep.binding.id = w
        \/ \E b \in Binding : b.id = w /\ Cleaning(b)

\* A workspace the lifecycle still has, held or warm, has its runtime in the
\* registry, so that a new holder gets that runtime and rebind never raises.
WarmRuntimeRegistered ==
    \A i \in Identity : workspaces[i] # None => reg.runtimes[i] = workspaces[i].runtime

\* The runtimes that are being stopped or wait for it.
GivenUp == pending \cup UNION {task[t].own : t \in Task}

\* A runtime that is being stopped serves nobody: no registry entry, no lease,
\* no warm workspace and no candidate of a running activation refers to it.
NeverStopInUse ==
    /\ \A i \in Identity : reg.runtimes[i] \notin GivenUp
    /\ \A i \in Identity : workspaces[i] # None => workspaces[i].runtime \notin GivenUp
    /\ \A t \in Task : task[t].prep # None => task[t].prep.binding.runtime \notin GivenUp

\* commit_activation is never refused: the binding lock keeps every release of
\* the session's binding out of a running activation, expiry included.
CommitNeverRefused ==
    \A t \in Task : task[t].pc = "commit" => R!CommitOK(reg, task[t].prep)

\* Seen from the lifecycle, the daemon is a client that keeps the contract:
\* it never rebinds a lease to a second runtime of an identity.
LifecycleContract == L!Init /\ [][L!Next]_lifecycle

\* In the daemon the lease lifecycle implements SharedWorkspaces: a runtime that some
\* lease is bound to is never dropped or replaced, and a lease never uses two workspaces.
ImplementsPromise == L!ImplementsPromise

\* A release that reports runtime_stopped has stopped the runtime: it is
\* neither registered nor waiting to be stopped.
StopTruth ==
    \A t \in Task : (task[t].pc = "replied" /\ task[t].stopped) =>
        /\ task[t].decided \notin GivenUp
        /\ \A i \in Identity : reg.runtimes[i] # task[t].decided

\* Every request is answered in the end, whatever the other ones do: each
\* coroutine is free again and again.
RequestsAnswered == \A t \in Request : []<>(task[t].pc = "idle")

\* A runtime that was given up is stopped in the end.
GivenUpIsStopped == \A r \in Runtime : []<>(r \notin GivenUp)
=============================================================================
