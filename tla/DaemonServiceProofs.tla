------------------------ MODULE DaemonServiceProofs ------------------------
(***************************************************************************)
(* The daemon service keeps the lease lifecycle and the runtime registry   *)
(* in step, for any number of clients, coroutines, workspaces and          *)
(* runtimes.  LeasesProofs, instantiated with the daemon's variables, says *)
(* what the lifecycle guarantees by itself; DaemonInvariant and            *)
(* DaemonActivation say that every action keeps the invariant; here the    *)
(* three are put together.                                                 *)
(***************************************************************************)
EXTENDS DaemonActivation, FiniteSetTheorems

USE Zenon  \* the default; SMT is named where it is needed

\* The finite sets of workspace leases have the sizes that the registry counts.
LEMMA SizesHold == Sizes
<1>1. ASSUME NEW S \in SUBSET WorkspaceLease PROVE IsFiniteSet(S)
  BY <1>1, FS_Subset, RegistryAssumption
<1>2. \A S \in SUBSET WorkspaceLease : Cardinality(S) \in Nat /\ (Cardinality(S) = 0 <=> S = {})
  BY <1>1, FS_CardinalityType, FS_EmptySet
<1>3. \A w \in WorkspaceLease : Cardinality({w}) = 1  BY FS_Singleton
<1>4. \A S, T \in SUBSET WorkspaceLease :
        Cardinality(S \ T) = Cardinality(S) - Cardinality(S \cap T)
  BY <1>1, FS_Difference
<1>. QED  BY <1>2, <1>3, <1>4 DEF Sizes

\* What a request does to the lifecycle is a step of the lifecycle: the candidate an
\* activation rebinds its lease to is on the runtime the identity already has.
LEMMA ServeLifecycle ==
    ASSUME Inv, NEW t \in Task, Serve(t)
    PROVE  [L!Next]_(L!vars)
<1>1. ASSUME NEW g, NEW own, Rejected(t, g, own), task[t].job.lease \in Lease
      PROVE  [L!Next]_(L!vars)
  BY <1>1 DEF Rejected, L!Next, L!Client, L!vars, lifecycle
<1>2. ASSUME Turn(t, "activate") \/ task[t].pc \in Holding PROVE task[t].job.lease \in Lease
  <2>1. CASE Turn(t, "activate")
    <3>1. task[t].job \in Job /\ task[t].job.kind = "activate"  BY <2>1 DEF Inv, JobOK, Turn
    <3>. QED  BY <3>1, JobType
  <2>. QED  BY <1>2, <2>1, ActivationFacts
<1>3. CASE Clean(t) \/ ReleaseNothing(t) \/ Resolve(t) \/ Prepare(t) \/ PrepareFails(t)
           \/ RefreshFails(t) \/ Commit(t) \/ Return(t)
  BY <1>3 DEF Clean, ReleaseNothing, Resolve, Prepare, PrepareFails, RefreshFails, Commit, Return,
              L!vars, lifecycle
<1>4. CASE ReleaseLapsed(t)
  <2>1. task[t].job.lease \in Lease  BY <1>4, ReleaseJob DEF ReleaseLapsed
  <2>. QED  BY <1>4, <2>1 DEF ReleaseLapsed, L!Next, L!Client
<1>5. CASE ReleaseLease(t)
  <2>1. task[t].job.lease \in Lease /\ task[t].job.immediate \in BOOLEAN
    BY <1>5, ReleaseJob DEF ReleaseLease
  <2>. QED  BY <1>5, <2>1 DEF ReleaseLease, L!Next, L!Client
<1>6. CASE ReleaseWorkspace(t)
  <2>1. task[t].job.lease \in Lease /\ task[t].job.immediate \in BOOLEAN
    BY <1>6, ReleaseJob DEF ReleaseWorkspace
  <2>. QED  BY <1>6, <2>1 DEF ReleaseWorkspace, L!Next, L!Client
<1>7. CASE Admit(t)  BY <1>1, <1>2, <1>7 DEF Admit, L!vars, lifecycle
<1>8. CASE Refresh(t)
  <2>1. task[t].job.lease \in Lease  BY <1>2, <1>8 DEF Refresh, Holding
  <2>. QED  BY <1>1, <1>8, <2>1 DEF Refresh, L!vars, lifecycle
<1>9. CASE Rebind(t)
  <2>1. task[t].pc = "rebind" /\ task[t].job.lease \in Lease  BY <1>2, <1>9 DEF Rebind, Holding
  <2>2. CASE L!Rebind(task[t].job.lease, task[t].prep.binding)
    <3>1. task[t].prep.binding \in Binding /\ L!Accepts(task[t].job.lease, task[t].prep.binding)
      BY <2>1, RebindAccepted
    <3>. QED  BY <2>1, <2>2, <3>1 DEF L!Next, L!Client, L!Binding, Binding
  <2>. QED  BY <1>1, <1>9, <2>1, <2>2 DEF Rebind
<1>. QED  BY <1>3, <1>4, <1>5, <1>6, <1>7, <1>8, <1>9 DEF Serve

\* Seen from the lifecycle, every step of the daemon is a step of the lifecycle.
LEMMA StepLifecycle ==
    ASSUME Inv, [Next]_vars
    PROVE  [L!Next]_(L!vars)
<1>1. CASE UNCHANGED vars  BY <1>1 DEF vars, lifecycle, L!vars
<1>2. ASSUME NEW l \in Lease, AcquireLease(l) \/ Heartbeat(l) PROVE [L!Next]_(L!vars)
  BY <1>2 DEF AcquireLease, Heartbeat, L!Next, L!Client
<1>3. ASSUME NEW t \in Request, NEW l \in Lease, Call(t, l) PROVE [L!Next]_(L!vars)
  <2>1. CASE UseLapsed(t, l)  BY <2>1 DEF UseLapsed, L!Next, L!Client
  <2>2. CASE UseEnded(t, l)  BY <2>2 DEF UseEnded, L!vars, lifecycle
  <2>3. ASSUME NEW kind, NEW immediate, CallRelease(t, l, kind, immediate) PROVE [L!Next]_(L!vars)
    BY <2>3 DEF CallRelease, L!vars, lifecycle
  <2>4. ASSUME NEW i, NEW d, CallActivate(t, l, i, d) PROVE [L!Next]_(L!vars)
    BY <2>4 DEF CallActivate, L!vars, lifecycle
  <2>. QED  BY <1>3, <2>1, <2>2, <2>3, <2>4 DEF Call
<1>4. ASSUME NEW t \in Request, Serve(t) PROVE [L!Next]_(L!vars)
  <2>1. t \in Task  BY DEF Task
  <2>. QED  BY <1>4, <2>1, ServeLifecycle
<1>5. ASSUME NEW t \in Task, Stop(t) PROVE [L!Next]_(L!vars)
  BY <1>5 DEF Stop, StopTurn, StopsDone, L!vars, lifecycle
<1>6. CASE StartSweep  BY <1>6 DEF StartSweep, L!vars, lifecycle
<1>7. CASE Sweep  BY <1>7 DEF Sweep, L!Next
<1>8. CASE Tick  BY <1>8 DEF Tick, L!Next
<1>. QED  BY <1>1, <1>2, <1>3, <1>4, <1>5, <1>6, <1>7, <1>8 DEF Next

\* The steps of a coroutine keep the invariant.
LEMMA ServeInv ==
    ASSUME Inv, LifecycleOK', NEW t \in Task, Serve(t)
    PROVE  Inv'
<1>1. CASE Clean(t)  BY <1>1, CleanInv
<1>2. CASE ReleaseLapsed(t)  BY <1>2, ReleaseLapsedInv
<1>3. CASE ReleaseNothing(t)  BY <1>3, ReleaseNothingInv
<1>4. CASE ReleaseLease(t)  BY <1>4, ReleaseLeaseInv
<1>5. CASE ReleaseWorkspace(t)  BY <1>5, ReleaseWorkspaceInv
<1>6. CASE Resolve(t)  BY <1>6, ResolveInv
<1>7. CASE Admit(t)  BY <1>7, AdmitOkInv, AdmitRejectedInv DEF Admit
<1>8. CASE Prepare(t)  BY <1>8, PrepareInv
<1>9. CASE PrepareFails(t)  BY <1>9, PrepareFailsInv
<1>10. CASE Refresh(t)  BY <1>10, RefreshOkInv, RefreshRejectedInv DEF Refresh
<1>11. CASE RefreshFails(t)
  <2>1. task[t].pc = "refresh"  BY <1>11 DEF RefreshFails
  <2>. QED  BY <1>11, <2>1, RefreshRejectedInv
<1>12. CASE Commit(t)  BY <1>12, CommitInv
<1>13. CASE Rebind(t)  BY <1>13, RebindOkInv, RebindRejectedInv DEF Rebind
<1>14. CASE Return(t)  BY <1>14, ReturnInv
<1>. QED
  BY <1>1, <1>2, <1>3, <1>4, <1>5, <1>6, <1>7, <1>8, <1>9, <1>10, <1>11, <1>12, <1>13, <1>14
  DEF Serve

\* A step that changes nothing keeps it.
LEMMA StutterInv == ASSUME Inv, UNCHANGED vars PROVE Inv'
<1>1. UNCHANGED <<active, issued, binding, workspaces, reg, task, lockQ, stopQ, pending>>
  BY DEF vars, lifecycle, stops
<1>2. LifecycleOK'  BY LifecycleSame DEF Inv, vars
<1>3. UNCHANGED <<active, issued, binding, workspaces>> /\ UNCHANGED <<reg, task, lockQ, stops>>
  BY <1>1 DEF stops
<1>4. \A b : Cleaning(b)' => Cleaning(b)  BY <1>1 DEF Cleaning
<1>5. Quiet  BY <1>3, <1>4 DEF Quiet
<1>. QED  BY <1>2, <1>3, <1>5, LifecycleOnly

-----------------------------------------------------------------------------
\* The invariant has what the runs check.
LEMMA InvAccounts == Inv => LeasesAccounted
<1>. SUFFICES ASSUME Inv, NEW w \in WorkspaceLease, reg.leases[w] # None
              PROVE  \/ \E l \in active : binding[l] # None /\ binding[l].id = w
                     \/ \E t \in Task : task[t].prep # None /\ task[t].prep.binding.id = w
                     \/ \E b \in Binding : b.id = w /\ Cleaning(b)
  BY DEF LeasesAccounted
<1>1. Types /\ Backed /\ TablesAgree  BY InvTypes DEF Inv
<1>2. CASE \E t \in Task : /\ task[t].pc \in {"refresh", "commit"} /\ task[t].prep.provisional
                           /\ task[t].prep.binding.id = w
  <2>1. PICK t \in Task : task[t].pc \in {"refresh", "commit"} /\ task[t].prep.binding.id = w
    BY <1>2
  <2>2. task[t].prep # None  BY <2>1 DEF Inv, JobOK, Preparing
  <2>. QED  BY <2>1, <2>2
<1>3. CASE \E s \in Lease : Bound(s, w)
  <2>1. PICK s \in Lease : Bound(s, w)  BY <1>3
  <2>2. PICK b \in Binding : b = reg.bindings[s] /\ b.id = w /\ reg.bindings[s] # None
    BY <1>1, <2>1 DEF Types, Bound
  <2>3. CASE reg.bindings[s] = binding[s]
    <3>1. s \in active  BY <1>1, <2>2, <2>3 DEF Types
    <3>. QED  BY <2>2, <2>3, <3>1
  <2>4. CASE Publishing(s)
    <3>1. PICK t \in Task : task[t].pc = "rebind" /\ task[t].job.lease = s  BY <2>4 DEF Publishing
    <3>2. task[t].pc \in Holding /\ task[t].pc \in Preparing  BY <3>1 DEF Holding, Preparing
    <3>3. task[t].prep # None /\ task[t].prep.session = s  BY <3>1, <3>2, ActivationFacts
    <3>4. Committed(t)  BY <3>1 DEF Inv, ActivationOK
    <3>5. task[t].prep.binding.id = w  BY <2>2, <3>3, <3>4 DEF Committed
    <3>. QED  BY <3>3, <3>5
  <2>5. CASE Cleaning(reg.bindings[s])  BY <2>2, <2>5
  <2>. QED  BY <1>1, <2>3, <2>4, <2>5 DEF TablesAgree
<1>. QED  BY <1>1, <1>2, <1>3 DEF Backed

\* A runtime in use is registered, and what is registered has not been given up.
LEMMA InvNeverStops == Inv => NeverStopInUse
<1>. SUFFICES ASSUME Inv PROVE NeverStopInUse  OBVIOUS
<1>1. \A i \in Identity : reg.runtimes[i] \notin GivenUp  BY DEF Inv, StoppedUnregistered
<1>2. \A i \in Identity : workspaces[i] # None => workspaces[i].runtime \notin GivenUp
  BY <1>1 DEF Inv, WarmRuntimeRegistered
<1>3. ASSUME NEW t \in Task, task[t].prep # None PROVE task[t].prep.binding.runtime \notin GivenUp
  <2>1. task[t].pc \in Preparing  BY <1>3 DEF Inv, JobOK
  <2>2. /\ task[t].prep.binding.identity \in Identity
        /\ reg.runtimes[task[t].prep.binding.identity] = task[t].prep.binding.runtime
    BY <2>1, CandidateRuntime
  <2>. QED  BY <1>1, <2>2
<1>. QED  BY <1>1, <1>2, <1>3 DEF NeverStopInUse

\* An uncommitted candidate meets both conditions of commit_activation.
LEMMA InvCommits == Inv => CommitNeverRefused
BY DEF Inv, ActivationOK, PreparedOK, Uncommitted, Preparing, CommitNeverRefused, R!CommitOK

-----------------------------------------------------------------------------
\* What Leases guarantees, of the daemon's variables.
LOCAL LP == INSTANCE LeasesProofs

\* LeasesProofs is instantiated with the daemon's variables: its invariant is the one above.
LEMMA SameLifecycle == LifecycleOK <=> LP!IndInv
<1>1. L!TypeOK <=> LP!TypeOK
  BY DEF L!TypeOK, LP!TypeOK, L!Binding, LP!Binding, L!WorkspaceState, LP!WorkspaceState,
         L!NoDeadline, LP!NoDeadline
<1>2. \A i : BoundTo(i) = LP!BoundTo(binding, i)  BY DEF BoundTo, LP!BoundTo
<1>. QED
  BY <1>1, <1>2 DEF LifecycleOK, LP!IndInv, LP!LeaseTableOK, LP!Agree, LP!NoDeadline, NoDeadline

\* The same for the steps of the lifecycle.
LEMMA SameNext == [L!Next]_(L!vars) => [LP!Next]_(LP!vars)
<1>1. L!Sweep => LP!Sweep
  BY DEF L!Sweep, LP!Sweep, L!Lapsed, LP!Lapsed, L!GraceOver, LP!GraceOver, L!AfterExpiry, LP!AfterExpiry
<1>2. L!Tick => LP!Tick
  BY DEF L!Tick, LP!Tick, L!Live, LP!Live
<1>3. \A ws, l, i, im : L!RemoveHolder(ws, l, i, im) = LP!RemoveHolder(ws, l, i, im)
  BY DEF L!RemoveHolder, LP!RemoveHolder
<1>4. \A ws, l, b : L!AddHolder(ws, l, b) = LP!AddHolder(ws, l, b)
  BY DEF L!AddHolder, LP!AddHolder, L!NoDeadline, LP!NoDeadline
<1>5. \A l, im : L!EndLease(l, im) => LP!EndLease(l, im)
  BY <1>3 DEF L!EndLease, LP!EndLease
<1>6. \A l, b : (L!Issue(l, b) => LP!Issue(l, b)) /\ (L!Rebind(l, b) => LP!Rebind(l, b))
  BY <1>3, <1>4 DEF L!Issue, LP!Issue, L!Rebind, LP!Rebind, L!Live, LP!Live
<1>7. \A l : (L!Heartbeat(l) => LP!Heartbeat(l)) /\ (L!Expire(l) => LP!Expire(l))
  BY <1>5 DEF L!Heartbeat, LP!Heartbeat, L!Expire, LP!Expire, L!Live, LP!Live, L!Lapsed, LP!Lapsed
<1>8. \A l, im : /\ L!Release(l, im) => LP!Release(l, im)
                 /\ L!ReleaseWorkspace(l, im) => LP!ReleaseWorkspace(l, im)
  BY <1>3, <1>5 DEF L!Release, LP!Release, L!ReleaseWorkspace, LP!ReleaseWorkspace, L!Live, LP!Live
<1>9. \A l \in Lease : L!Client(l) => LP!Client(l)
  BY <1>6, <1>7, <1>8 DEF L!Client, LP!Client, L!Accepts, LP!Accepts, L!Binding, LP!Binding
<1>. QED  BY <1>1, <1>2, <1>9 DEF L!Next, LP!Next, L!vars, LP!vars

\* The empty lifecycle is in order.
LEMMA LifecycleInit == L!Init => LifecycleOK
<1>1. L!Init => LP!Init  BY DEF L!Init, LP!Init
<1>2. LP!Init => LP!IndInv
  BY LP!InitIndInv, IntervalAssumption, NoneAssumption, RegistryAssumption
  DEF Binding, LP!Binding, WorkspaceState, LP!WorkspaceState, Handle, LP!Handle, Prepared, LP!Prepared,
      NoDeadline, LP!NoDeadline, Session, LP!Session, IsFiniteSet, LP!IsFiniteSet
<1>. QED  BY <1>1, <1>2, SameLifecycle

\* Every step of the lifecycle leaves it in order.
LEMMA LifecycleStep == ASSUME LifecycleOK, [L!Next]_(L!vars) PROVE LifecycleOK'
<1>1. LP!IndInv /\ [LP!Next]_(LP!vars) => LP!IndInv'
  BY LP!NextIndInv, IntervalAssumption, NoneAssumption, RegistryAssumption
  DEF Binding, LP!Binding, WorkspaceState, LP!WorkspaceState, Handle, LP!Handle, Prepared, LP!Prepared,
      NoDeadline, LP!NoDeadline, Session, LP!Session, IsFiniteSet, LP!IsFiniteSet
<1>2. LP!IndInv' => LifecycleOK'  BY SameLifecycle, PTL
<1>. QED  BY <1>1, <1>2, SameLifecycle, SameNext

\* Every step of the lifecycle is one of SharedWorkspaces, or changes nothing there.
LEMMA LifecycleRefines ==
    ASSUME LifecycleOK, LifecycleOK', [L!Next]_(L!vars)
    PROVE  [L!Promise!Next]_(L!Promise!vars)
<1>1. LP!IndInv /\ LP!IndInv' /\ [LP!Next]_(LP!vars) => [LP!Promise!Next]_(LP!Promise!vars)
  BY LP!NextRefines, IntervalAssumption, NoneAssumption, RegistryAssumption
  DEF Binding, LP!Binding, WorkspaceState, LP!WorkspaceState, Handle, LP!Handle, Prepared, LP!Prepared,
      NoDeadline, LP!NoDeadline, Session, LP!Session, IsFiniteSet, LP!IsFiniteSet
<1>2. LifecycleOK' => LP!IndInv'  BY SameLifecycle, PTL
<1>3. [LP!Promise!Next]_(LP!Promise!vars) => [L!Promise!Next]_(L!Promise!vars)
  BY DEF LP!Promise!Next, LP!Promise!Attach, LP!Promise!Leave, LP!Promise!vars,
         L!Promise!Next, L!Promise!Attach, L!Promise!Leave, L!Promise!vars
<1>. QED  BY <1>1, <1>2, <1>3, SameLifecycle, SameNext

-----------------------------------------------------------------------------
\* The daemon starts with empty tables.
LEMMA InitInv == Init => Inv
<1>. SUFFICES ASSUME Init PROVE Inv  OBVIOUS
<1>1. /\ task = [t \in Task |-> Idle] /\ lockQ = <<>> /\ stopQ = <<>> /\ pending = {}
      /\ reg = R!EmptyRegistry /\ L!Init
  BY DEF Init
<1>2. LifecycleOK  BY <1>1, LifecycleInit
<1>3. Idle \in Local /\ Idle.pc = "idle" /\ Idle.prep = None /\ Idle.own = {}
  BY DEF Idle, Local, PC
<1>4. /\ task \in [Task -> Local] /\ lockQ \in Seq(Task) /\ stopQ \in Seq(Task)
      /\ pending \subseteq Runtime
      /\ \A t \in Task : task[t].pc = "idle" /\ task[t].prep = None /\ task[t].own = {}
  BY SMT, <1>1, <1>3
<1>5. /\ reg.runtimes = [i \in Identity |-> None] /\ reg.refcount = [i \in Identity |-> 0]
      /\ reg.leases = [w \in WorkspaceLease |-> None] /\ reg.bindings = [s \in Lease |-> None]
  BY <1>1 DEF R!EmptyRegistry, R!Session
<1>6. /\ binding = [l \in Lease |-> None] /\ workspaces = [i \in Identity |-> None]
      /\ active = {}
  BY <1>1 DEF L!Init
<1>7. RegistryOK(reg)  BY <1>1, SizesHold, EmptyRegistryOK
<1>8. TypeOK  BY <1>2, <1>4, <1>7 DEF TypeOK, LifecycleOK, RegistryOK
<1>9. Exclusive /\ StopTurns  BY <1>4 DEF Exclusive, StopTurns, Holding
<1>10. \A t \in Task : JobOK(t) /\ ActivationOK(t)
  BY <1>4 DEF JobOK, ActivationOK, Holding, Preparing
<1>11. Backed /\ TablesAgree  BY <1>5, <1>6 DEF Backed, TablesAgree, Bound
<1>12. CleaningSafe /\ WarmRuntimeRegistered
  BY <1>4, <1>6 DEF CleaningSafe, Cleaning, WarmRuntimeRegistered
<1>13. RuntimesDistinct  BY <1>5 DEF RuntimesDistinct
<1>14. StoppedUnregistered
  <2>1. GivenUp = {}  BY <1>1, <1>4 DEF GivenUp
  <2>. QED  BY <2>1 DEF StoppedUnregistered
<1>. QED
  BY <1>2, <1>7, <1>8, <1>9, <1>10, <1>11, <1>12, <1>13, <1>14 DEF Inv

\* The invariant is inductive.
LEMMA NextInv == Inv /\ [Next]_vars => Inv'
<1>. SUFFICES ASSUME Inv, [Next]_vars PROVE Inv'  OBVIOUS
<1>1. LifecycleOK'  BY StepLifecycle, LifecycleStep DEF Inv
<1>2. CASE UNCHANGED vars  BY <1>2, StutterInv
<1>3. ASSUME NEW l \in Lease, AcquireLease(l) \/ Heartbeat(l) PROVE Inv'
  BY <1>1, <1>3, AcquireLeaseInv, HeartbeatInv
<1>4. ASSUME NEW t \in Request, NEW l \in Lease, Call(t, l) PROVE Inv'
  <2>1. t \in Task  BY DEF Task
  <2>2. CASE UseLapsed(t, l)  BY <1>1, <2>1, <2>2, UseLapsedInv
  <2>3. CASE UseEnded(t, l)  BY <1>1, <2>1, <2>3, UseEndedInv
  <2>4. ASSUME NEW kind \in {"release_lease", "release_workspace"}, NEW immediate \in BOOLEAN,
               CallRelease(t, l, kind, immediate)
        PROVE  Inv'
    BY <1>1, <2>1, <2>4, CallReleaseInv
  <2>5. ASSUME NEW i \in Identity, NEW d \in Subdir, CallActivate(t, l, i, d) PROVE Inv'
    BY <1>1, <2>1, <2>5, CallActivateInv
  <2>. QED  BY <1>4, <2>2, <2>3, <2>4, <2>5 DEF Call
<1>5. ASSUME NEW t \in Request, Serve(t) PROVE Inv'
  <2>1. t \in Task  BY DEF Task
  <2>. QED  BY <1>1, <1>5, <2>1, ServeInv
<1>6. ASSUME NEW t \in Task, Stop(t) PROVE Inv'
  BY <1>1, <1>6, StopTurnInv, StopsDoneInv DEF Stop
<1>7. CASE StartSweep  BY <1>1, <1>7, StartSweepInv
<1>8. CASE Sweep  BY <1>1, <1>8, SweepInv
<1>9. CASE Tick  BY <1>1, <1>9, TickInv
<1>. QED  BY <1>2, <1>3, <1>4, <1>5, <1>6, <1>7, <1>8, <1>9 DEF Next

\* So it holds in every reachable state.
LEMMA InvAlways == Spec => []Inv
BY InitInv, NextInv, PTL DEF Spec

-----------------------------------------------------------------------------
\* The tables, the locals of every coroutine and the two asyncio locks keep their types.
THEOREM TypeCorrect == Spec => []TypeOK
<1>1. Inv => TypeOK  BY DEF Inv
<1>. QED  BY <1>1, InvAlways, PTL

\* Whatever the coroutines do between two awaits, the lifecycle and the registry agree
\* on the binding of every active lease, except while its own activation is between
\* commit_activation and rebind.
THEOREM TablesAgreeAlways == Spec => []TablesAgree
<1>1. Inv => TablesAgree  BY DEF Inv
<1>. QED  BY <1>1, InvAlways, PTL

\* No lease of the registry leaks, whichever of the many ways an activation or a release
\* ends: each belongs to an active lease, an activation in flight or a queued clean-up.
THEOREM LeasesAccountedAlways == Spec => []LeasesAccounted
BY InvAccounts, InvAlways, PTL

\* The runtime that _stop_runtimes is about to stop serves nobody, for any number of
\* clients and workspaces.
THEOREM NeverStopInUseAlways == Spec => []NeverStopInUse
BY InvNeverStops, InvAlways, PTL

\* commit_activation finds the binding it was prepared against: the binding lock keeps
\* every release and every clean-up out of a running activation.
THEOREM CommitNeverRefusedAlways == Spec => []CommitNeverRefused
BY InvCommits, InvAlways, PTL

\* The daemon is a client the lifecycle can rely on: it never rebinds a lease to a second
\* runtime of an identity.
THEOREM LifecycleContractKept == Spec => LifecycleContract
<1>1. Init => L!Init  BY DEF Init
<1>2. Inv /\ [Next]_vars => [L!Next]_lifecycle  BY StepLifecycle DEF L!vars, lifecycle
<1>. QED  BY <1>1, <1>2, InvAlways, PTL DEF Spec, LifecycleContract

\* So the daemon as a whole keeps the promise of SharedWorkspaces: a runtime some lease
\* is bound to is neither dropped nor replaced.
THEOREM Refinement == Spec => ImplementsPromise
<1>1. Init => L!Promise!Init  BY DEF Init, L!Init, L!Promise!Init
<1>2. Inv /\ Inv' /\ [Next]_vars => [L!Promise!Next]_(L!Promise!vars)
  <2>. SUFFICES ASSUME Inv, Inv', [Next]_vars PROVE [L!Promise!Next]_(L!Promise!vars)  OBVIOUS
  <2>1. LifecycleOK /\ LifecycleOK'  BY DEF Inv
  <2>. QED  BY <2>1, StepLifecycle, LifecycleRefines
<1>. QED  BY <1>1, <1>2, InvAlways, PTL DEF Spec, ImplementsPromise, L!ImplementsPromise, L!Promise!Spec
=============================================================================
