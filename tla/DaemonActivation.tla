------------------------- MODULE DaemonActivation -------------------------
(***************************************************************************)
(* The daemon's invariant survives an activation: admitted, prepared,      *)
(* refreshed, committed and rebound, or rejected and undone on the way.    *)
(***************************************************************************)
EXTENDS DaemonInvariant

USE Zenon  \* the default; SMT is named where it is needed

-----------------------------------------------------------------------------
\* An activation that finds its lease ended releases what it has prepared, the leases
\* W, and the binding of the lease if it has just expired.
LEMMA RejectedInv ==
    ASSUME Inv, LifecycleOK', NEW t \in Task, lockQ # <<>>, Head(lockQ) = t,
           task[t].pc \in {"lock", "refresh", "rebind"}, task[t].job.kind = "activate",
           task[t].job.lease \in Lease, NEW W, NEW X, NEW g, NEW own \in SUBSET Runtime,
           Rejected(t, g, own), Shrinks(reg, g, W, X), GivesUp(own, X), Covers(t, W),
           \A m \in Lease \ {task[t].job.lease} : binding[m] # None => binding[m].id \notin W,
           \A i \in Identity : i \in X => workspaces[i] = None,
           task[t].pc = "rebind" => reg.bindings[task[t].job.lease] # None
                                    /\ reg.bindings[task[t].job.lease].id \in W
    PROVE  Inv'
<1>1. Types  BY InvTypes
<1>2. PICK l \in Lease : l = task[t].job.lease  OBVIOUS
<1>3. LeaveLock(t, own, None) /\ None \in Runtime \cup {None}  BY DEF Rejected
<1>4. WarmRuntimeRegistered  BY DEF Inv
<1>5. RegistryOK(reg) /\ Backs(reg)  BY InvBacks
<1>6. RegistryOK(g) /\ Backs(g)  BY <1>5, ShrinksBacks DEF Shrinks
<1>7. CASE l \notin active /\ UNCHANGED lifecycle /\ reg' = g
  <2>1. /\ active' \subseteq active /\ issued' = issued /\ binding' = binding
        /\ workspaces' = workspaces /\ binding[l] = None
    BY <1>1, <1>7 DEF lifecycle, Types
  <2>2. Shrinks(reg, reg', W, X)  BY <1>7
  <2>3. task[t].pc = "rebind" => reg'.bindings[l] = None  BY <1>2, <2>2 DEF Shrinks
  <2>4. Follows(t, W)  BY <1>2, <2>1, <2>3 DEF Follows
  <2>5. WarmRuntimeRegistered'  BY SMT, <1>4, <2>1, <2>2 DEF WarmRuntimeRegistered, Shrinks
  <2>. QED  BY <1>3, <2>1, <2>2, <2>4, <2>5, Finish
<1>8. CASE L!Expire(l) /\ reg' = Unleased(g, binding[l])
  <2>1. /\ l \in active /\ active' = active \ {l} /\ issued' = issued
        /\ \A m \in Lease : binding'[m] = IF m = l THEN None ELSE binding[m]
        /\ \A i \in Identity :
              /\ workspaces'[i] = None <=> workspaces[i] = None
              /\ workspaces[i] # None => workspaces'[i].runtime = workspaces[i].runtime
    BY <1>8, ExpireEffect
  <2>2. active' \subseteq active /\ issued' = issued  BY <2>1
  <2>3. PICK V : V = W \cup IF binding[l] = None THEN {} ELSE {binding[l].id}  OBVIOUS
  <2>4. Shrinks(reg, reg', V, X)
    <3>1. CASE binding[l] = None
      <4>1. reg' = g /\ V = W  BY <1>8, <2>3, <3>1 DEF Unleased
      <4>. QED  BY <4>1
    <3>2. CASE binding[l] # None
      <4>1. binding[l].id \in WorkspaceLease  BY <3>2, BoundHolds, BindingType
      <4>2. PICK w \in WorkspaceLease : w = binding[l].id  BY <4>1
      <4>6. PICK h : h = R!ReleaseLease(g, w)  OBVIOUS
      <4>3. Shrinks(g, h, {w}, {})  BY <1>6, <4>6, ReleaseLeaseShrinks
      <4>4. Shrinks(reg, h, W \cup {w}, X \cup {})  BY <1>5, <4>3, ShrinksTwice
      <4>5. reg' = h /\ V = W \cup {w} /\ X = X \cup {}  BY <1>8, <2>3, <3>2, <4>2, <4>6 DEF Unleased
      <4>. QED  BY <4>4, <4>5
    <3>. QED  BY <3>1, <3>2
  <2>5. task[t].pc = "rebind" => reg'.bindings[l] = None  BY <1>2, <2>3, <2>4 DEF Shrinks
  <2>6. ASSUME NEW m \in Lease, m # l, binding[m] # None PROVE binding[m].id \notin V
    <3>1. binding[m].id \notin W  BY <1>2, <2>6
    <3>2. reg.bindings[m] = binding[m]  BY <1>2, <2>6, TablesEqual
    <3>3. ASSUME binding[l] # None, binding[m].id = binding[l].id PROVE FALSE
      <4>1. Bound(m, binding[l].id)  BY <2>6, <3>2, <3>3 DEF Bound
      <4>. QED  BY <2>1, <2>6, <3>3, <4>1, NotShared
    <3>. QED  BY <2>3, <3>1, <3>3
  <2>7. Follows(t, V)
    <3>1. binding'[l] = None /\ \A m \in Lease \ {l} : binding'[m] = binding[m]  BY <2>1
    <3>2. binding[l] # None => binding[l].id \in V  BY <2>3
    <3>. QED  BY <1>2, <2>5, <2>6, <3>1, <3>2 DEF Follows
  <2>8. WarmRuntimeRegistered'  BY SMT, <1>4, <2>1, <2>4 DEF WarmRuntimeRegistered, Shrinks
  <2>9. Covers(t, V)  BY <2>3 DEF Covers
  <2>. QED  BY <1>3, <2>2, <2>4, <2>7, <2>8, <2>9, Finish
<1>. QED  BY <1>2, <1>7, <1>8 DEF Rejected

\* What is prepared while a coroutine is at one of the points after prepare.
LEMMA ActivationFacts ==
    ASSUME Inv, NEW t \in Task, task[t].pc \in Holding
    PROVE  /\ lockQ # <<>> /\ Head(lockQ) = t /\ task[t].job \in Job
           /\ task[t].job.kind = "activate" /\ task[t].job.lease \in Lease
           /\ task[t].job.lease \in issued /\ task[t].job.identity \in Identity
           /\ task[t].job.subdir \in Subdir
           /\ task[t].pc \in Preparing =>
                 /\ task[t].prep \in Prepared /\ task[t].prep # None /\ PreparedOK(t)
                 /\ task[t].prep.session = task[t].job.lease
                 /\ task[t].prep.binding \in Binding /\ task[t].prep.binding.identity \in Identity
                 /\ task[t].prep.binding.runtime \in Runtime
                 /\ task[t].prep.binding.id \in WorkspaceLease
<1>1. Types /\ JobOK(t) /\ ActivationOK(t) /\ Exclusive  BY InvTypes DEF Inv
<1>2. /\ lockQ # <<>> /\ Head(lockQ) = t /\ task[t].job \in Job /\ task[t].job.kind = "activate"
      /\ task[t].job.lease \in issued
  BY <1>1 DEF Exclusive, JobOK
<1>3. /\ task[t].job.lease \in Lease /\ task[t].job.identity \in Identity
      /\ task[t].job.subdir \in Subdir
  BY <1>2, JobType
<1>4. ASSUME task[t].pc \in Preparing
      PROVE  /\ task[t].prep \in Prepared /\ task[t].prep # None /\ PreparedOK(t)
             /\ task[t].prep.session = task[t].job.lease
  <2>1. task[t].prep \in Prepared \cup {None}  BY <1>1 DEF Types, Local
  <2>2. task[t].prep # None /\ PreparedOK(t)  BY <1>1, <1>4 DEF JobOK, ActivationOK
  <2>. QED  BY <2>1, <2>2 DEF PreparedOK
<1>5. ASSUME task[t].pc \in Preparing
      PROVE  /\ task[t].prep.binding \in Binding /\ task[t].prep.binding.identity \in Identity
             /\ task[t].prep.binding.runtime \in Runtime
             /\ task[t].prep.binding.id \in WorkspaceLease
  BY <1>4, <1>5, PreparedType, BindingType
<1>. QED  BY <1>2, <1>3, <1>4, <1>5

-----------------------------------------------------------------------------
\* _discard_prepared_activation_locked: after the candidate's lease has been given
\* back, a runtime that was created for it goes too.
LEMMA DiscardShrinks ==
    ASSUME Inv, NEW p \in Prepared, NEW l \in Lease, NEW committed \in BOOLEAN, NEW h, NEW W,
           h = IF committed THEN R!Release(reg, l) ELSE R!Abort(reg, p),
           Shrinks(reg, h, W, {}), p.created => workspaces[p.binding.identity] = None
    PROVE  \E X \in SUBSET Identity :
              /\ Shrinks(reg, Discarded(reg, l, p, committed), W, X)
              /\ GivesUp(DiscardedRuntime(reg, l, p, committed), X)
              /\ DiscardedRuntime(reg, l, p, committed) \in SUBSET Runtime
              /\ \A i \in Identity : i \in X => workspaces[i] = None
<1>1. PICK b \in Binding : b = p.binding  BY PreparedType
<1>2. b.identity \in Identity /\ b.runtime \in Runtime  BY BindingType
<1>3. RegistryOK(reg) /\ RegistryOK(h) /\ h.runtimes[b.identity] = reg.runtimes[b.identity]
  BY <1>2, InvBacks DEF Shrinks
<1>4. CASE p.created /\ R!Retirable(h, b.identity, b.runtime)
  <2>1. PICK k : k = R!RetireIdle(h, b.identity, b.runtime)  OBVIOUS
  <2>2. Discarded(reg, l, p, committed) = k  BY <1>1, <1>4, <2>1 DEF Discarded
  <2>3. DiscardedRuntime(reg, l, p, committed) = {b.runtime}  BY <1>1, <1>4 DEF DiscardedRuntime
  <2>4. Shrinks(h, R!RetireIdle(h, b.identity, b.runtime), {},
                IF R!Retirable(h, b.identity, b.runtime) THEN {b.identity} ELSE {})
    BY <1>2, <1>3, RetireShrinks
  <2>5. Shrinks(h, k, {}, {b.identity})  BY <1>4, <2>1, <2>4
  <2>6. Shrinks(reg, k, W \cup {}, {} \cup {b.identity})  BY <1>3, <2>5, ShrinksTwice
  <2>7. W \cup {} = W /\ {} \cup {b.identity} = {b.identity}  OBVIOUS
  <2>8. Shrinks(reg, k, W, {b.identity})  BY <2>6, <2>7
  <2>9. reg.runtimes[b.identity] = b.runtime  BY <1>3, <1>4 DEF R!Retirable
  <2>10. GivesUp({b.runtime}, {b.identity})  BY <1>2, <2>9 DEF GivesUp
  <2>11. \A i \in Identity : i \in {b.identity} => workspaces[i] = None  BY <1>1, <1>4
  <2>12. {b.identity} \in SUBSET Identity /\ {b.runtime} \in SUBSET Runtime  BY <1>2
  <2>. QED  BY <2>2, <2>3, <2>8, <2>10, <2>11, <2>12
<1>5. CASE ~(p.created /\ R!Retirable(h, b.identity, b.runtime))
  <2>1. Discarded(reg, l, p, committed) = h  BY <1>1, <1>5 DEF Discarded, R!RetireIdle
  <2>2. DiscardedRuntime(reg, l, p, committed) = {}  BY <1>1, <1>5 DEF DiscardedRuntime
  <2>3. {} \in SUBSET Identity /\ {} \in SUBSET Runtime /\ GivesUp({}, {})  BY DEF GivesUp
  <2>. QED  BY <2>1, <2>2, <2>3
<1>. QED  BY <1>4, <1>5

\* The lease of a candidate that was not committed is nobody else's.
LEMMA AbortShrinks ==
    ASSUME Inv, NEW t \in Task, task[t].pc \in {"refresh", "commit"}
    PROVE  \E W : /\ Shrinks(reg, R!Abort(reg, task[t].prep), W, {}) /\ Covers(t, W)
                  /\ \A m \in Lease : binding[m] # None => binding[m].id \notin W
<1>1. task[t].pc \in Preparing /\ task[t].pc \in Holding  BY DEF Preparing, Holding
<1>2. PICK p \in Prepared : p = task[t].prep  BY <1>1, ActivationFacts
<1>3. Head(lockQ) = t /\ p.binding.id \in WorkspaceLease  BY <1>1, <1>2, ActivationFacts
<1>4. Uncommitted(t)  BY DEF Inv, ActivationOK
<1>5. RegistryOK(reg)  BY InvBacks
<1>6. CASE p.provisional
  <2>1. PICK w \in WorkspaceLease : w = p.binding.id  BY <1>3
  <2>2. \A s \in Lease : reg.bindings[s] # None => reg.bindings[s].id # w
    BY <1>2, <1>4, <1>6, <2>1 DEF Uncommitted, Bound
  <2>3. Shrinks(reg, R!ReleaseLocked(reg, w), {w}, {})  BY <1>5, <2>2, ReleaseLockedShrinks
  <2>4. R!Abort(reg, task[t].prep) = R!ReleaseLocked(reg, w)  BY <1>2, <1>6, <2>1 DEF R!Abort
  <2>5. Covers(t, {w})  BY <1>2, <2>1 DEF Covers
  <2>6. \A m \in Lease : binding[m] # None => binding[m].id \notin {w}
    BY <1>3, <2>2, TablesEqual
  <2>. QED  BY <2>3, <2>4, <2>5, <2>6
<1>7. CASE ~p.provisional
  <2>1. R!Abort(reg, task[t].prep) = reg  BY <1>2, <1>7 DEF R!Abort
  <2>2. Covers(t, {})  BY <1>2, <1>7 DEF Covers
  <2>. QED  BY SMT, <1>5, <2>1, <2>2, ShrinksNothing
<1>. QED  BY <1>6, <1>7

-----------------------------------------------------------------------------
\* An activation is turned away, fails, or is given up.
LEMMA RefreshRejectedInv ==
    ASSUME Inv, LifecycleOK', NEW t \in Task, task[t].pc = "refresh",
           \/ Rejected(t, Discarded(reg, task[t].job.lease, task[t].prep, FALSE),
                       DiscardedRuntime(reg, task[t].job.lease, task[t].prep, FALSE))
           \/ RefreshFails(t)
    PROVE  Inv'
<1>1. task[t].pc \in Preparing /\ task[t].pc \in Holding  BY DEF Preparing, Holding
<1>2. /\ lockQ # <<>> /\ Head(lockQ) = t /\ task[t].job.kind = "activate"
      /\ task[t].job.lease \in Lease /\ task[t].prep \in Prepared /\ PreparedOK(t)
  BY <1>1, ActivationFacts
<1>3. PICK l \in Lease : l = task[t].job.lease  BY <1>2
<1>4. PICK p \in Prepared : p = task[t].prep  BY <1>2
<1>5. PICK W : /\ Shrinks(reg, R!Abort(reg, task[t].prep), W, {}) /\ Covers(t, W)
               /\ \A m \in Lease : binding[m] # None => binding[m].id \notin W
  BY AbortShrinks
<1>6. p.created => workspaces[p.binding.identity] = None  BY <1>2, <1>4 DEF PreparedOK
<1>7. \E X \in SUBSET Identity :
        /\ Shrinks(reg, Discarded(reg, l, p, FALSE), W, X)
        /\ GivesUp(DiscardedRuntime(reg, l, p, FALSE), X)
        /\ DiscardedRuntime(reg, l, p, FALSE) \in SUBSET Runtime
        /\ \A i \in Identity : i \in X => workspaces[i] = None
  <2>1. PICK h : h = IF FALSE THEN R!Release(reg, l) ELSE R!Abort(reg, p)  OBVIOUS
  <2>2. Shrinks(reg, h, W, {})  BY <1>4, <1>5, <2>1
  <2>. QED  BY <1>6, <2>1, <2>2, DiscardShrinks
<1>8. PICK X \in SUBSET Identity :
        /\ Shrinks(reg, Discarded(reg, l, p, FALSE), W, X)
        /\ GivesUp(DiscardedRuntime(reg, l, p, FALSE), X)
        /\ DiscardedRuntime(reg, l, p, FALSE) \in SUBSET Runtime
        /\ \A i \in Identity : i \in X => workspaces[i] = None
  BY <1>7
<1>9. PICK own \in SUBSET Runtime : own = DiscardedRuntime(reg, l, p, FALSE)  BY <1>8
<1>10. PICK g : g = Discarded(reg, l, p, FALSE)  OBVIOUS
<1>11. Shrinks(reg, g, W, X) /\ GivesUp(own, X)  BY <1>8, <1>9, <1>10
<1>12. CASE Rejected(t, g, own)
  <2>1. /\ \A m \in Lease \ {task[t].job.lease} : binding[m] # None => binding[m].id \notin W
        /\ task[t].pc \in {"lock", "refresh", "rebind"}
        /\ task[t].pc = "rebind" => reg.bindings[task[t].job.lease] # None
                                    /\ reg.bindings[task[t].job.lease].id \in W
    BY <1>5
  <2>. QED  BY <1>2, <1>5, <1>8, <1>11, <1>12, <2>1, RejectedInv
<1>13. CASE RefreshFails(t)
  <2>1. /\ reg' = g /\ LeaveLock(t, own, None) /\ UNCHANGED lifecycle
    BY <1>3, <1>4, <1>9, <1>10, <1>13 DEF RefreshFails
  <2>2. /\ active' \subseteq active /\ issued' = issued /\ binding' = binding
        /\ workspaces' = workspaces
    BY <2>1 DEF lifecycle
  <2>3. Shrinks(reg, reg', W, X)  BY <1>11, <2>1
  <2>4. Follows(t, W)  BY <1>5, <2>2 DEF Follows
  <2>5. WarmRuntimeRegistered'
    BY <1>8, <2>2, <2>3 DEF Inv, WarmRuntimeRegistered, Shrinks
  <2>6. None \in Runtime \cup {None}  OBVIOUS
  <2>. QED  BY <1>2, <1>5, <1>11, <2>1, <2>2, <2>3, <2>4, <2>5, <2>6, Finish
<1>. QED  BY <1>3, <1>4, <1>9, <1>10, <1>12, <1>13

\* The lease ended between commit and rebind: the committed binding is released again.
LEMMA RebindRejectedInv ==
    ASSUME Inv, LifecycleOK', NEW t \in Task, task[t].pc = "rebind",
           Rejected(t, Discarded(reg, task[t].job.lease, task[t].prep, TRUE),
                    DiscardedRuntime(reg, task[t].job.lease, task[t].prep, TRUE))
    PROVE  Inv'
<1>1. task[t].pc \in Preparing /\ task[t].pc \in Holding  BY DEF Preparing, Holding
<1>2. /\ lockQ # <<>> /\ Head(lockQ) = t /\ task[t].job.kind = "activate"
      /\ task[t].job.lease \in Lease /\ task[t].prep \in Prepared /\ PreparedOK(t)
      /\ task[t].prep.session = task[t].job.lease
      /\ task[t].prep.binding \in Binding /\ task[t].prep.binding.id \in WorkspaceLease
  BY <1>1, ActivationFacts
<1>3. PICK l \in Lease : l = task[t].job.lease  BY <1>2
<1>4. PICK p \in Prepared : p = task[t].prep  BY <1>2
<1>5. Committed(t)  BY DEF Inv, ActivationOK
<1>6. /\ reg.bindings[l] = p.binding /\ reg.bindings[l] # None
      /\ reg.bindings[l].id \in WorkspaceLease
  BY <1>2, <1>3, <1>4, <1>5, NoneAssumption DEF Committed
<1>7. PICK W : W = {reg.bindings[l].id}  OBVIOUS
<1>8. p.created => workspaces[p.binding.identity] = None  BY <1>2, <1>4 DEF PreparedOK
<1>9. \E X \in SUBSET Identity :
        /\ Shrinks(reg, Discarded(reg, l, p, TRUE), W, X)
        /\ GivesUp(DiscardedRuntime(reg, l, p, TRUE), X)
        /\ DiscardedRuntime(reg, l, p, TRUE) \in SUBSET Runtime
        /\ \A i \in Identity : i \in X => workspaces[i] = None
  <2>1. PICK h : h = IF TRUE THEN R!Release(reg, l) ELSE R!Abort(reg, p)  OBVIOUS
  <2>2. Shrinks(reg, R!Release(reg, l), {reg.bindings[l].id}, {})
    BY <1>6, InvBacks, ReleaseShrinks
  <2>3. Shrinks(reg, h, W, {})  BY <1>7, <2>1, <2>2
  <2>. QED  BY <1>8, <2>1, <2>3, DiscardShrinks
<1>10. PICK X \in SUBSET Identity :
        /\ Shrinks(reg, Discarded(reg, l, p, TRUE), W, X)
        /\ GivesUp(DiscardedRuntime(reg, l, p, TRUE), X)
        /\ DiscardedRuntime(reg, l, p, TRUE) \in SUBSET Runtime
        /\ \A i \in Identity : i \in X => workspaces[i] = None
  BY <1>9
<1>11. PICK own \in SUBSET Runtime : own = DiscardedRuntime(reg, l, p, TRUE)  BY <1>10
<1>12. PICK g : g = Discarded(reg, l, p, TRUE)  OBVIOUS
<1>13. Shrinks(reg, g, W, X) /\ GivesUp(own, X) /\ Rejected(t, g, own)
  BY <1>3, <1>4, <1>10, <1>11, <1>12
<1>14. ASSUME NEW m \in Lease \ {task[t].job.lease}, binding[m] # None PROVE binding[m].id \notin W
  <2>1. m # l /\ reg.bindings[m] = binding[m]  BY <1>2, <1>3, <1>14, TablesEqual
  <2>. QED  BY SMT, <1>6, <1>7, <1>14, <2>1 DEF Inv, Backed, Bound
<1>15. /\ \A m \in Lease \ {task[t].job.lease} : binding[m] # None => binding[m].id \notin W
       /\ task[t].pc \in {"lock", "refresh", "rebind"} /\ Covers(t, W)
       /\ task[t].pc = "rebind" => reg.bindings[task[t].job.lease] # None
                                   /\ reg.bindings[task[t].job.lease].id \in W
  BY <1>3, <1>6, <1>7, <1>14 DEF Covers
<1>. QED  BY <1>2, <1>10, <1>13, <1>15, RejectedInv

\* The lease ended before the activation got the lock.
LEMMA AdmitRejectedInv ==
    ASSUME Inv, LifecycleOK', NEW t \in Task, Turn(t, "activate"), Rejected(t, reg, {})
    PROVE  Inv'
<1>1. /\ lockQ # <<>> /\ Head(lockQ) = t /\ task[t].pc = "lock" /\ task[t].job.kind = "activate"
  BY DEF Turn
<1>2. task[t].job \in Job  BY <1>1 DEF Inv, JobOK
<1>3. task[t].job.lease \in Lease /\ task[t].pc \in {"lock", "refresh", "rebind"}
  BY <1>1, <1>2, JobType
<1>4. PICK g, W, X : g = reg /\ W = {} /\ X = {}  OBVIOUS
<1>5. Shrinks(reg, g, W, X)  BY <1>4, InvBacks, ShrinksNothing
<1>6. PICK own \in SUBSET Runtime : own = {}  OBVIOUS
<1>7. Rejected(t, g, own) /\ GivesUp(own, X) /\ Covers(t, W)  BY <1>1, <1>4, <1>6 DEF GivesUp, Covers
<1>8. /\ \A m \in Lease \ {task[t].job.lease} : binding[m] # None => binding[m].id \notin W
      /\ \A i \in Identity : i \in X => workspaces[i] = None
      /\ task[t].pc = "rebind" => reg.bindings[task[t].job.lease] # None
                                  /\ reg.bindings[task[t].job.lease].id \in W
  BY <1>1, <1>4
<1>. QED  BY <1>1, <1>3, <1>5, <1>7, <1>8, RejectedInv

\* runtime_factory raised: nothing was acquired.
LEMMA PrepareFailsInv ==
    ASSUME Inv, LifecycleOK', NEW t \in Task, PrepareFails(t)
    PROVE  Inv'
<1>1. task[t].pc = "prepare" /\ LeaveLock(t, {}, None) /\ UNCHANGED lifecycle /\ reg' = reg
  BY DEF PrepareFails
<1>2. lockQ # <<>> /\ Head(lockQ) = t  BY <1>1, ActivationFacts DEF Holding
<1>3. /\ active' \subseteq active /\ issued' = issued /\ binding' = binding
      /\ workspaces' = workspaces
  BY <1>1 DEF lifecycle
<1>4. Shrinks(reg, reg', {}, {})  BY <1>1, InvBacks, ShrinksNothing
<1>5. Follows(t, {}) /\ Covers(t, {})  BY <1>1, <1>3 DEF Follows, Covers
<1>6. WarmRuntimeRegistered'  BY <1>1, <1>3 DEF Inv, WarmRuntimeRegistered
<1>7. {} \in SUBSET Runtime /\ None \in Runtime \cup {None} /\ GivesUp({}, {})  BY DEF GivesUp
<1>. QED  BY <1>1, <1>2, <1>3, <1>4, <1>5, <1>6, <1>7, Finish

-----------------------------------------------------------------------------
\* The runtime of a candidate is the one the registry has, and the one the lifecycle
\* has if it knows the workspace.
LEMMA CandidateRuntime ==
    ASSUME Inv, NEW t \in Task, task[t].pc \in Preparing, NEW b, b = task[t].prep.binding
    PROVE  /\ b \in Binding /\ b.identity \in Identity /\ b.runtime \in Runtime
           /\ reg.runtimes[b.identity] = b.runtime
           /\ workspaces[b.identity] # None => workspaces[b.identity].runtime = b.runtime
<1>1. task[t].pc \in Holding  BY DEF Preparing, Holding
<1>2. PreparedOK(t) /\ b \in Binding  BY <1>1, ActivationFacts
<1>3. /\ b.id \in WorkspaceLease /\ b.identity \in Identity /\ b.runtime \in Runtime
      /\ R!HandleOf(b) # None /\ R!HandleOf(b).identity = b.identity
      /\ R!HandleOf(b).runtime = b.runtime
  BY <1>2, BindingType
<1>4. reg.leases[b.id] = R!HandleOf(b)  BY <1>2 DEF PreparedOK
<1>5. reg.runtimes[b.identity] = b.runtime  BY <1>3, <1>4, InvTypes DEF Types
<1>. QED  BY <1>2, <1>3, <1>5 DEF Inv, WarmRuntimeRegistered

\* rebind never raises: the daemon keeps the contract of the lifecycle.
LEMMA RebindAccepted ==
    ASSUME Inv, NEW t \in Task, task[t].pc = "rebind"
    PROVE  task[t].prep.binding \in Binding /\ L!Accepts(task[t].job.lease, task[t].prep.binding)
<1>1. task[t].pc \in Preparing /\ task[t].pc \in Holding  BY DEF Preparing, Holding
<1>2. PICK l \in Lease : l = task[t].job.lease  BY <1>1, ActivationFacts
<1>3. PICK b : b = task[t].prep.binding  OBVIOUS
<1>4. /\ b \in Binding
      /\ workspaces[b.identity] # None => workspaces[b.identity].runtime = b.runtime
  BY <1>1, <1>3, CandidateRuntime
<1>5. binding[l] # None => /\ workspaces[binding[l].identity] # None
                           /\ workspaces[binding[l].identity].runtime = binding[l].runtime
  BY BoundHolds
<1>6. L!Accepts(l, b)  BY <1>4, <1>5 DEF L!Accepts
<1>. QED  BY <1>2, <1>3, <1>4, <1>6

\* rebind publishes in the lifecycle what commit_activation has put in the registry.
LEMMA RebindOkInv ==
    ASSUME Inv, LifecycleOK', NEW t \in Task, task[t].pc = "rebind",
           L!Rebind(task[t].job.lease, task[t].prep.binding), LeaveLock(t, {}, None), reg' = reg
    PROVE  Inv'
<1>1. task[t].pc \in Preparing /\ task[t].pc \in Holding  BY DEF Preparing, Holding
<1>2. /\ lockQ # <<>> /\ Head(lockQ) = t /\ task[t].prep.session = task[t].job.lease
      /\ task[t].job.lease \in Lease
  BY <1>1, ActivationFacts
<1>3. PICK l \in Lease : l = task[t].job.lease  BY <1>2
<1>4. PICK b : b = task[t].prep.binding  OBVIOUS
<1>5. /\ b \in Binding /\ b.identity \in Identity /\ b.runtime \in Runtime
      /\ reg.runtimes[b.identity] = b.runtime
  BY <1>1, <1>4, CandidateRuntime
<1>6. Types /\ Committed(t) /\ WarmRuntimeRegistered  BY InvTypes DEF Inv, ActivationOK
<1>7. PICK left : left = IF binding[l] = None THEN workspaces
                         ELSE L!RemoveHolder(workspaces, l, binding[l].identity, FALSE)
  OBVIOUS
<1>8. /\ active' = active /\ issued' = issued /\ binding' = [binding EXCEPT ![l] = b]
      /\ workspaces' = workspaces \/ workspaces' = L!AddHolder(left, l, b)
  BY <1>3, <1>4, <1>7 DEF L!Rebind
<1>9. active' \subseteq active /\ \A m \in Lease : binding'[m] = IF m = l THEN b ELSE binding[m]
  BY <1>6, <1>8 DEF Types
<1>10. Shrinks(reg, reg', {}, {})  BY InvBacks, ShrinksNothing
<1>11. reg'.bindings[l] = b  BY <1>2, <1>3, <1>4, <1>6 DEF Committed
<1>12. Follows(t, {}) /\ Covers(t, {})  BY <1>3, <1>9, <1>11 DEF Follows, Covers
<1>13. \A i \in Identity : left[i] # None => left[i].runtime = reg.runtimes[i]
  <2>1. CASE binding[l] = None  BY <1>6, <1>7, <2>1 DEF WarmRuntimeRegistered
  <2>2. CASE binding[l] # None
    <3>1. left = L!RemoveHolder(workspaces, l, binding[l].identity, FALSE)  BY <1>7, <2>2
    <3>2. \A i \in Identity :
             left[i] # None => workspaces[i] # None /\ left[i].runtime = workspaces[i].runtime
      BY <2>2, <3>1, RemoveEffect
    <3>. QED  BY <1>6, <3>2 DEF WarmRuntimeRegistered
  <2>. QED  BY <2>1, <2>2
<1>14. DOMAIN left = Identity
  BY <1>6, <1>7 DEF Types, L!RemoveHolder
<1>15. WarmRuntimeRegistered'
  <2>1. CASE workspaces' = workspaces  BY <1>6, <2>1 DEF WarmRuntimeRegistered
  <2>2. CASE workspaces' = L!AddHolder(left, l, b)
    <3>. SUFFICES ASSUME NEW i \in Identity, workspaces'[i] # None
                  PROVE  reg.runtimes[i] = workspaces'[i].runtime
      BY DEF WarmRuntimeRegistered
    <3>1. CASE i # b.identity
      <4>1. workspaces'[i] = left[i]  BY <1>14, <2>2, <3>1 DEF L!AddHolder
      <4>. QED  BY <1>13, <4>1
    <3>2. CASE i = b.identity
      <4>1. workspaces'[i] = IF left[i] = None
                             THEN [runtime |-> b.runtime, holders |-> {l}, grace |-> L!NoDeadline]
                             ELSE [runtime |-> left[i].runtime, holders |-> left[i].holders \cup {l},
                                   grace |-> L!NoDeadline]
        BY <1>14, <2>2, <3>2 DEF L!AddHolder
      <4>2. workspaces'[i].runtime = IF left[i] = None THEN b.runtime ELSE left[i].runtime
        BY SMT, <4>1
      <4>. QED  BY <1>5, <1>13, <3>2, <4>2
    <3>. QED  BY <3>1, <3>2
  <2>. QED  BY <1>8, <2>1, <2>2
<1>16. {} \in SUBSET Runtime /\ None \in Runtime \cup {None} /\ GivesUp({}, {})  BY DEF GivesUp
<1>. QED  BY <1>2, <1>8, <1>9, <1>10, <1>12, <1>15, <1>16, Finish

-----------------------------------------------------------------------------
\* The holder of the lock goes from one point to the next.
LEMMA SetPc ==
    ASSUME NEW e \in Local, NEW a \in PC
    PROVE  /\ [e EXCEPT !.pc = a] \in Local /\ [e EXCEPT !.pc = a].pc = a
           /\ [e EXCEPT !.pc = a].job = e.job /\ [e EXCEPT !.pc = a].own = e.own
           /\ [e EXCEPT !.pc = a].prep = e.prep
BY DEF Local

\* It has prepared p.
Advanced(e, p) == [e EXCEPT !.pc = "refresh", !.prep = p]

\* These locals are well formed.
LEMMA AdvancedType ==
    ASSUME NEW e \in Local, NEW p \in Prepared
    PROVE  /\ Advanced(e, p) \in Local /\ Advanced(e, p).pc = "refresh"
           /\ Advanced(e, p).job = e.job /\ Advanced(e, p).own = e.own /\ Advanced(e, p).prep = p
BY DEF Local, Advanced, PC

\* f are the locals of the holder after its step.
LEMMA AdvanceEffect ==
    ASSUME Inv, NEW t \in Task, lockQ # <<>>, Head(lockQ) = t,
           task[t].pc \in Holding \cup {"lock"}, task[t].job.kind = "activate",
           NEW f \in Local, task' = [task EXCEPT ![t] = f], f.job = task[t].job,
           f.own = task[t].own, f.pc \in Holding, f.prep # None <=> f.pc \in Preparing,
           UNCHANGED <<lifecycle, lockQ, stops>>
    PROVE  /\ task' \in [Task -> Local] /\ lockQ' \in Seq(Task) /\ stopQ' \in Seq(Task)
           /\ pending' \subseteq Runtime /\ LifecycleOK'
           /\ task'[t] = f /\ \A u \in Task \ {t} : task'[u] = task[u]
           /\ Exclusive' /\ StopTurns' /\ \A u \in Task : JobOK(u)'
           /\ \A u \in Task \ {t} : ActivationOK(u)' /\ task'[u].pc \notin Holding
           /\ GivenUp' = GivenUp /\ \A b : Cleaning(b)' <=> Cleaning(b)
<1>1. Types /\ StopTurns /\ LifecycleOK  BY InvTypes DEF Inv
<1>2. /\ task' \in [Task -> Local] /\ task'[t] = f /\ \A u \in Task \ {t} : task'[u] = task[u]
  BY <1>1 DEF Types
<1>3. /\ lockQ' = lockQ /\ stopQ' = stopQ /\ pending' = pending /\ issued' = issued
      /\ UNCHANGED lifecycle
  BY DEF stops, lifecycle
<1>4. /\ lockQ' \in Seq(Task) /\ stopQ' \in Seq(Task) /\ pending' \subseteq Runtime
  BY <1>1, <1>3 DEF Types
<1>5. LifecycleOK'  BY <1>1, <1>3, LifecycleSame
<1>6. \A u \in Task \ {t} : task[u].pc \notin Holding /\ task'[u].pc \notin Holding
  BY <1>2, OneHolder
<1>7. Exclusive'  BY <1>3, <1>6 DEF Exclusive
<1>8. StopTurns'  BY <1>1, <1>2, <1>3 DEF StopTurns, Holding
<1>9. ASSUME NEW u \in Task PROVE JobOK(u)'
  <2>1. JobOK(u)  BY DEF Inv
  <2>2. CASE u = t  BY <1>2, <1>3, <2>1, <2>2 DEF JobOK
  <2>3. CASE u # t  BY <1>2, <1>3, <2>1, <2>3 DEF JobOK
  <2>. QED  BY <2>2, <2>3
<1>10. \A u \in Task \ {t} : ActivationOK(u)'
  BY <1>6 DEF ActivationOK, Holding, Preparing
<1>11. GivenUp' = GivenUp
  <2>1. \A u \in Task : task'[u].own = task[u].own  BY <1>2
  <2>2. {task'[u].own : u \in Task} = {task[u].own : u \in Task}  BY <2>1
  <2>. QED  BY <1>3, <2>2 DEF GivenUp
<1>12. \A b : Cleaning(b)' <=> Cleaning(b)
  <2>1. f.pc # "lock"  BY DEF Holding
  <2>. QED  BY <1>2, <2>1 DEF Cleaning
<1>. QED  BY <1>2, <1>4, <1>5, <1>6, <1>7, <1>8, <1>9, <1>10, <1>11, <1>12

\* The holder has been admitted, or its runtime is fresh.
LEMMA StepKeeps ==
    ASSUME Inv, NEW t \in Task, lockQ # <<>>, Head(lockQ) = t,
           task[t].pc \in Holding \cup {"lock"}, task[t].job.kind = "activate",
           NEW f \in Local, task' = [task EXCEPT ![t] = f], f.job = task[t].job,
           f.own = task[t].own, f.pc \in Holding, f.prep # None <=> f.pc \in Preparing,
           UNCHANGED <<lifecycle, lockQ, stops>>, reg' = reg, ActivationOK(t)',
           task[t].pc # "rebind",
           (task[t].pc \in {"refresh", "commit"} /\ task[t].prep.provisional)
              => f.pc \in {"refresh", "commit"} /\ f.prep = task[t].prep
    PROVE  Inv'
<1>1. /\ task' \in [Task -> Local] /\ lockQ' \in Seq(Task) /\ stopQ' \in Seq(Task)
      /\ pending' \subseteq Runtime /\ LifecycleOK'
      /\ task'[t] = f /\ \A u \in Task \ {t} : task'[u] = task[u]
      /\ Exclusive' /\ StopTurns' /\ \A u \in Task : JobOK(u)'
      /\ \A u \in Task \ {t} : ActivationOK(u)' /\ task'[u].pc \notin Holding
      /\ GivenUp' = GivenUp /\ \A b : Cleaning(b)' <=> Cleaning(b)
  BY AdvanceEffect
<1>2. active' = active /\ issued' = issued /\ binding' = binding /\ workspaces' = workspaces
  BY DEF lifecycle
<1>3. RegistryOK(reg)'  BY DEF Inv, RegistryOK, Counted, Stays, R!LeasesOf
<1>4. \A s, w : Bound(s, w)' <=> Bound(s, w)  BY DEF Bound
<1>5. Backed'
  <2>1. ASSUME NEW w \in WorkspaceLease, NEW u \in Task, task[u].pc \in {"refresh", "commit"},
               task[u].prep.provisional, task[u].prep.binding.id = w
        PROVE  /\ task'[t].pc \in {"refresh", "commit"} /\ task'[t].prep.provisional
               /\ task'[t].prep.binding.id = w
    <3>1. u = t  BY <2>1, OneHolder DEF Holding
    <3>. QED  BY <1>1, <2>1, <3>1
  <2>. QED  BY <1>2, <1>4, <2>1 DEF Inv, Backed
<1>6. TablesAgree'
  <2>1. \A l \in Lease : reg.bindings[l] = binding[l] \/ (l \notin active /\ Cleaning(reg.bindings[l]))
    BY TablesEqual
  <2>2. \A l \in Lease : Cleaning(reg.bindings[l]) => Cleaning(reg.bindings[l])'
    <3>. SUFFICES ASSUME NEW l \in Lease, NEW b, b = reg.bindings[l], Cleaning(b)
                  PROVE  Cleaning(reg.bindings[l])'
      OBVIOUS
    <3>1. Cleaning(b)'  BY <1>1
    <3>. QED  BY <3>1 DEF Cleaning
  <2>. QED  BY <1>2, <2>1, <2>2 DEF TablesAgree
<1>7. CleaningSafe'  BY <1>1, <1>2, <1>4 DEF Inv, CleaningSafe
<1>8. WarmRuntimeRegistered' /\ RuntimesDistinct' /\ StoppedUnregistered'
  BY <1>1, <1>2 DEF Inv, WarmRuntimeRegistered, RuntimesDistinct, StoppedUnregistered
<1>9. TypeOK'  BY <1>1, <1>3 DEF TypeOK, LifecycleOK, RegistryOK
<1>. QED  BY <1>1, <1>3, <1>5, <1>6, <1>7, <1>8, <1>9 DEF Inv

\* The lease is live when the activation gets the lock.
LEMMA AdmitOkInv ==
    ASSUME Inv, NEW t \in Task, Turn(t, "activate"), task' = [task EXCEPT ![t].pc = "prepare"],
           UNCHANGED <<lifecycle, reg, lockQ, stops>>
    PROVE  Inv'
<1>1. /\ lockQ # <<>> /\ Head(lockQ) = t /\ task[t].pc = "lock" /\ task[t].job.kind = "activate"
  BY DEF Turn
<1>2. Types /\ JobOK(t)  BY InvTypes DEF Inv
<1>3. task[t] \in Local /\ task[t].prep = None  BY <1>1, <1>2 DEF Types, JobOK, Preparing
<1>4. PICK f : f = [task[t] EXCEPT !.pc = "prepare"]  OBVIOUS
<1>5. /\ f \in Local /\ f.pc = "prepare" /\ f.job = task[t].job /\ f.own = task[t].own
      /\ f.prep = None
  <2>1. "prepare" \in PC  BY DEF PC
  <2>. QED  BY <1>3, <1>4, <2>1, SetPc
<1>6. task' = [task EXCEPT ![t] = f]  BY <1>4
<1>7. /\ f.pc \in Holding /\ (f.prep # None <=> f.pc \in Preparing)
      /\ UNCHANGED <<lifecycle, lockQ, stops>> /\ reg' = reg /\ task[t].pc # "rebind"
      /\ task[t].pc \in Holding \cup {"lock"}
      /\ (task[t].pc \in {"refresh", "commit"} /\ task[t].prep.provisional)
              => f.pc \in {"refresh", "commit"} /\ f.prep = task[t].prep
  BY <1>1, <1>5 DEF Holding, Preparing
<1>8. task'[t].pc = "prepare"  BY <1>2, <1>5, <1>6 DEF Types
<1>9. ActivationOK(t)'  BY <1>8 DEF ActivationOK, Preparing
<1>. QED  BY <1>1, <1>5, <1>6, <1>7, <1>9, StepKeeps

\* The lease is still live when its runtime is fresh.
LEMMA RefreshOkInv ==
    ASSUME Inv, NEW t \in Task, task[t].pc = "refresh", task' = [task EXCEPT ![t].pc = "commit"],
           UNCHANGED <<lifecycle, reg, lockQ, stops>>
    PROVE  Inv'
<1>1. task[t].pc \in Preparing /\ task[t].pc \in Holding  BY DEF Preparing, Holding
<1>2. /\ lockQ # <<>> /\ Head(lockQ) = t /\ task[t].job.kind = "activate"
      /\ task[t].prep # None /\ PreparedOK(t)
  BY <1>1, ActivationFacts
<1>3. Types /\ Uncommitted(t)  BY InvTypes DEF Inv, ActivationOK
<1>4. task[t] \in Local  BY <1>3 DEF Types
<1>5. PICK f : f = [task[t] EXCEPT !.pc = "commit"]  OBVIOUS
<1>6. /\ f \in Local /\ f.pc = "commit" /\ f.job = task[t].job /\ f.own = task[t].own
      /\ f.prep = task[t].prep
  <2>1. "commit" \in PC  BY DEF PC
  <2>. QED  BY <1>4, <1>5, <2>1, SetPc
<1>7. task' = [task EXCEPT ![t] = f]  BY <1>5
<1>8. /\ f.pc \in Holding /\ (f.prep # None <=> f.pc \in Preparing)
      /\ UNCHANGED <<lifecycle, lockQ, stops>> /\ reg' = reg /\ task[t].pc # "rebind"
      /\ task[t].pc \in Holding \cup {"lock"}
      /\ (task[t].pc \in {"refresh", "commit"} /\ task[t].prep.provisional)
              => f.pc \in {"refresh", "commit"} /\ f.prep = task[t].prep
  BY <1>2, <1>6 DEF Holding, Preparing
<1>9. /\ task'[t].pc = "commit" /\ task'[t].prep = task[t].prep /\ task'[t].job = task[t].job
      /\ \A u \in Task \ {t} : task'[u] = task[u]
  BY <1>3, <1>6, <1>7 DEF Types
<1>10. /\ active' = active /\ binding' = binding /\ workspaces' = workspaces  BY DEF lifecycle
<1>11. PreparedOK(t)'  BY SMT, <1>2, <1>8, <1>9, <1>10 DEF PreparedOK
<1>12. \A b \in Binding : Cleaning(b)' => Cleaning(b)  BY <1>9 DEF Cleaning
<1>13. Uncommitted(t)'  BY <1>3, <1>8, <1>9, <1>12 DEF Uncommitted, Bound
<1>14. ActivationOK(t)'  BY <1>9, <1>11, <1>13 DEF ActivationOK
<1>. QED  BY <1>1, <1>2, <1>6, <1>7, <1>8, <1>14, StepKeeps

\* commit_activation swaps the binding of the session for the candidate; the lease it
\* replaces is released in the same step.
LEMMA CommitInv ==
    ASSUME Inv, NEW t \in Task, Commit(t)
    PROVE  Inv'
<1>1. /\ task[t].pc = "commit" /\ reg' = R!Commit(reg, task[t].prep)
      /\ task' = [task EXCEPT ![t].pc = "rebind"] /\ UNCHANGED <<lifecycle, lockQ, stops>>
  BY DEF Commit
<1>2. task[t].pc \in Preparing /\ task[t].pc \in Holding  BY <1>1 DEF Preparing, Holding
<1>3. /\ lockQ # <<>> /\ Head(lockQ) = t /\ task[t].job.kind = "activate"
      /\ task[t].job.lease \in Lease /\ task[t].job.lease \in issued
      /\ task[t].prep \in Prepared /\ task[t].prep # None /\ PreparedOK(t)
      /\ task[t].prep.session = task[t].job.lease
  BY <1>2, ActivationFacts
<1>4. PICK p \in Prepared : p = task[t].prep  BY <1>3
<1>5. PICK l \in Lease : l = p.session  BY PreparedType
<1>6. PICK b \in Binding : b = p.binding  BY PreparedType
<1>7. PICK c \in Binding \cup {None} : c = p.expected  BY PreparedType
<1>8. Types /\ Uncommitted(t) /\ Backed  BY <1>1, InvTypes DEF Inv, ActivationOK
<1>9. b # None /\ b.id \in WorkspaceLease /\ (c # None => c.id \in WorkspaceLease)
  BY <1>7, BindingType
<1>10. /\ reg.bindings[l] = c /\ reg.leases[b.id] = R!HandleOf(b)
       /\ p.provisional => /\ \A s \in Lease : ~Bound(s, b.id)
                           /\ \A d \in Binding : Cleaning(d) => d.id # b.id
       /\ ~p.provisional => c # None /\ c.id = b.id
       /\ l = task[t].job.lease /\ l \in issued
       /\ l \in active => binding[l] = c
       /\ p.created => p.provisional /\ workspaces[b.identity] = None
       /\ ~p.provisional => R!HandleOf(c) = R!HandleOf(b)
  BY <1>3, <1>4, <1>5, <1>6, <1>7, <1>8 DEF PreparedOK, Uncommitted
<1>11. /\ RegistryOK(reg') /\ reg'.runtimes = reg.runtimes
       /\ reg'.bindings = [reg.bindings EXCEPT ![l] = b]
       /\ reg'.leases = IF c # None /\ p.provisional
                        THEN [reg.leases EXCEPT ![c.id] = None] ELSE reg.leases
  <2>1. reg' = R!Commit(reg, p)  BY <1>1, <1>4
  <2>. QED  BY <1>5, <1>6, <1>7, <2>1, InvBacks, CommitEffect
<1>12. /\ \A s \in Lease : reg'.bindings[s] = IF s = l THEN b ELSE reg.bindings[s]
       /\ \A w \in WorkspaceLease : reg'.leases[w] =
              IF c # None /\ p.provisional /\ w = c.id THEN None ELSE reg.leases[w]
  BY SMT, <1>8, <1>9, <1>11 DEF Types
<1>13. c # None => Bound(l, c.id)  BY <1>10 DEF Bound
<1>14. c # None /\ p.provisional => c.id # b.id  BY <1>10, <1>13
<1>15. \A w : \A s \in Lease : Bound(s, w)' <=> IF s = l THEN w = b.id ELSE Bound(s, w)
  BY <1>9, <1>12 DEF Bound
<1>16. PICK f : f = [task[t] EXCEPT !.pc = "rebind"]  OBVIOUS
<1>17. /\ f \in Local /\ f.pc = "rebind" /\ f.job = task[t].job /\ f.own = task[t].own
       /\ f.prep = p
  <2>1. "rebind" \in PC /\ task[t] \in Local
    BY <1>8 DEF PC, Types
  <2>. QED  BY <1>4, <1>16, <2>1, SetPc
<1>18. task' = [task EXCEPT ![t] = f]  BY <1>1, <1>16
<1>19. /\ f.pc \in Holding /\ (f.prep # None <=> f.pc \in Preparing)
       /\ task[t].pc \in Holding \cup {"lock"}
  BY <1>2, <1>3, <1>4, <1>17 DEF Holding, Preparing
<1>20. /\ task' \in [Task -> Local] /\ lockQ' \in Seq(Task) /\ stopQ' \in Seq(Task)
       /\ pending' \subseteq Runtime /\ LifecycleOK'
       /\ task'[t] = f /\ \A u \in Task \ {t} : task'[u] = task[u]
       /\ Exclusive' /\ StopTurns' /\ \A u \in Task : JobOK(u)'
       /\ \A u \in Task \ {t} : ActivationOK(u)' /\ task'[u].pc \notin Holding
       /\ GivenUp' = GivenUp /\ \A d : Cleaning(d)' <=> Cleaning(d)
  BY <1>1, <1>3, <1>17, <1>18, <1>19, AdvanceEffect
<1>21. active' = active /\ issued' = issued /\ binding' = binding /\ workspaces' = workspaces
  BY <1>1 DEF lifecycle
<1>22. ActivationOK(t)'
  <2>1. task'[t].pc = "rebind" /\ task'[t].prep = p /\ task'[t].job = task[t].job
    BY <1>17, <1>20
  <2>2. reg'.leases[b.id] = R!HandleOf(b)  BY <1>9, <1>10, <1>12, <1>14
  <2>3. PreparedOK(t)'
    BY <1>5, <1>6, <1>7, <1>10, <1>21, <2>1, <2>2 DEF PreparedOK
  <2>4. Committed(t)'  BY <1>5, <1>6, <1>7, <1>9, <1>12, <2>1 DEF Committed
  <2>. QED  BY <2>1, <2>3, <2>4 DEF ActivationOK
<1>23. Backed'
  <2>1. ASSUME NEW s \in Lease, reg'.bindings[s] # None
        PROVE  s \in issued' /\ reg'.leases[reg'.bindings[s].id] = R!HandleOf(reg'.bindings[s])
    <3>1. CASE s = l  BY <1>9, <1>10, <1>12, <1>14, <1>21, <3>1
    <3>2. CASE s # l
      <4>1. PICK d \in Binding : d = reg.bindings[s] /\ reg'.bindings[s] = d
        BY <1>8, <1>12, <2>1, <3>2 DEF Types
      <4>2. d.id \in WorkspaceLease /\ Bound(s, d.id)
        BY <1>12, <2>1, <3>2, <4>1, BindingType DEF Bound
      <4>3. c # None => c.id # d.id  BY <1>8, <1>9, <1>13, <3>2, <4>2 DEF Backed
      <4>4. s \in issued /\ reg.leases[d.id] = R!HandleOf(d)
        BY SMT, <1>8, <1>12, <2>1, <3>2, <4>1 DEF Backed
      <4>. QED  BY <1>12, <1>21, <4>1, <4>2, <4>3, <4>4
    <3>. QED  BY <3>1, <3>2
  <2>2. ASSUME NEW s \in Lease, NEW u \in Lease, NEW w \in WorkspaceLease, Bound(s, w)', Bound(u, w)'
        PROVE  s = u
    <3>1. ASSUME NEW v \in Lease, v # l, Bound(v, b.id) PROVE FALSE
      BY <1>8, <1>9, <1>10, <1>13, <3>1 DEF Backed
    <3>. QED  BY SMT, <1>8, <1>15, <2>2, <3>1 DEF Backed
  <2>3. ASSUME NEW w \in WorkspaceLease, reg'.leases[w] # None PROVE \E s \in Lease : Bound(s, w)'
    <3>1. reg.leases[w] # None /\ ~(c # None /\ p.provisional /\ w = c.id)  BY <1>12, <2>3
    <3>2. CASE \E s \in Lease : Bound(s, w)
      <4>1. PICK s \in Lease : Bound(s, w)  BY <3>2
      <4>2. CASE s # l  BY <1>15, <4>1, <4>2
      <4>3. CASE s = l
        <5>1. c # None /\ w = c.id  BY <1>10, <4>1, <4>3 DEF Bound
        <5>2. w = b.id  BY <1>10, <3>1, <5>1
        <5>. QED  BY <1>15, <5>2
      <4>. QED  BY <4>2, <4>3
    <3>3. CASE \E u \in Task : /\ task[u].pc \in {"refresh", "commit"} /\ task[u].prep.provisional
                               /\ task[u].prep.binding.id = w
      <4>1. w = b.id  BY <1>3, <1>4, <1>6, <3>3, OneHolder DEF Holding
      <4>. QED  BY <1>15, <4>1
    <3>. QED  BY <1>8, <3>1, <3>2, <3>3 DEF Backed
  <2>. QED  BY <2>1, <2>2, <2>3 DEF Backed
<1>24. TablesAgree'
  <2>. SUFFICES ASSUME NEW s \in Lease
                PROVE  \/ reg'.bindings[s] = binding'[s]
                       \/ Publishing(s)'
                       \/ s \notin active' /\ Cleaning(reg.bindings[s])'
    BY DEF TablesAgree
  <2>1. CASE s = l
    <3>1. task'[t].pc = "rebind" /\ task'[t].job.lease = s  BY <1>10, <1>17, <1>20, <2>1
    <3>. QED  BY <3>1 DEF Publishing
  <2>2. CASE s # l
    <3>1. reg.bindings[s] = binding[s] \/ (s \notin active /\ Cleaning(reg.bindings[s]))
      BY <1>1, <1>3, TablesEqual
    <3>2. CASE reg.bindings[s] = binding[s]  BY <1>12, <1>21, <2>2, <3>2
    <3>3. CASE s \notin active /\ Cleaning(reg.bindings[s])
      <4>1. PICK d : d = reg.bindings[s] /\ reg'.bindings[s] = d  BY <1>12, <2>2
      <4>2. Cleaning(d)'  BY <1>20, <3>3, <4>1
      <4>. QED  BY <1>21, <3>3, <4>1, <4>2 DEF Cleaning
    <3>. QED  BY <3>1, <3>2, <3>3
  <2>. QED  BY <2>1, <2>2
<1>25. CleaningSafe'
  <2>. SUFFICES ASSUME NEW d \in Binding, NEW s \in Lease, Cleaning(d), Bound(s, d.id)' PROVE s \notin active
    BY <1>20, <1>21 DEF CleaningSafe
  <2>1. Bound(s, d.id)  BY <1>10, <1>13, <1>15
  <2>. QED  BY <2>1 DEF Inv, CleaningSafe
<1>26. WarmRuntimeRegistered' /\ RuntimesDistinct' /\ StoppedUnregistered'
  BY SMT, <1>11, <1>20, <1>21 DEF Inv, WarmRuntimeRegistered, RuntimesDistinct, StoppedUnregistered
<1>27. RegistryOK(reg)'  BY <1>11 DEF RegistryOK, Counted, Stays, R!LeasesOf
<1>28. TypeOK'  BY <1>20, <1>27 DEF TypeOK, LifecycleOK, RegistryOK
<1>29. \A u \in Task : JobOK(u)' /\ ActivationOK(u)'  BY <1>20, <1>22
<1>. QED  BY <1>20, <1>23, <1>24, <1>25, <1>26, <1>27, <1>28, <1>29 DEF Inv

\* The fields of what prepare_activation returns.
LEMMA PreparedFields ==
    ASSUME NEW l \in Lease, NEW i \in Identity, NEW d \in Subdir, NEW w \in WorkspaceLease,
           NEW r \in Runtime, RegistryOK(reg), ~R!SameRoot(reg, l, i), NEW p,
           p = R!PreparedFor(reg, l, i, d, w, r), NEW q,
           q = IF reg.runtimes[i] = None THEN r ELSE reg.runtimes[i]
    PROVE  /\ p \in Prepared /\ p.session = l /\ p.expected = reg.bindings[l]
           /\ p.binding = [id |-> w, identity |-> i, runtime |-> q, subdir |-> d]
           /\ p.provisional /\ (p.created <=> reg.runtimes[i] = None)
           /\ q \in Runtime /\ q # None
           /\ LET h == R!Acquire(reg, i, w, r)
              IN  /\ h.runtimes = [reg.runtimes EXCEPT ![i] = q]
                  /\ h.leases = [reg.leases EXCEPT ![w] = [identity |-> i, runtime |-> q]]
                  /\ h.bindings = reg.bindings
<1>1. /\ reg.runtimes \in [Identity -> Runtime \cup {None}]
      /\ reg.bindings \in [Lease -> Binding \cup {None}]
  BY RegistryTypes
<1>2. q \in Runtime /\ q # None  BY <1>1, NoneAssumption
<1>3. [id |-> w, identity |-> i, runtime |-> q, subdir |-> d] \in Binding  BY <1>2 DEF Binding
<1>4. PICK c \in Binding \cup {None}, b \in Binding, n \in BOOLEAN :
         /\ c = reg.bindings[l] /\ b = [id |-> w, identity |-> i, runtime |-> q, subdir |-> d]
         /\ n = (reg.runtimes[i] = None)
  BY <1>1, <1>3
<1>5. p = [session |-> l, expected |-> c, binding |-> b, provisional |-> TRUE, created |-> n]
  BY <1>4 DEF R!PreparedFor
<1>6. p \in Prepared  BY SMT, <1>5 DEF Prepared, Session
<1>7. /\ p.session = l /\ p.expected = c /\ p.binding = b /\ p.provisional /\ p.created = n
  BY SMT, <1>5
<1>8. R!Acquire(reg, i, w, r) =
         [runtimes |-> [reg.runtimes EXCEPT ![i] = q], refcount |-> [reg.refcount EXCEPT ![i] = @ + 1],
          leases |-> [reg.leases EXCEPT ![w] = [identity |-> i, runtime |-> q]],
          bindings |-> reg.bindings]
  BY DEF R!Acquire
<1>9. LET h == R!Acquire(reg, i, w, r)
      IN  /\ h.runtimes = [reg.runtimes EXCEPT ![i] = q]
          /\ h.leases = [reg.leases EXCEPT ![w] = [identity |-> i, runtime |-> q]]
          /\ h.bindings = reg.bindings
  BY SMT, <1>8
<1>10. p.created <=> reg.runtimes[i] = None  BY <1>4, <1>7
<1>. QED  BY <1>2, <1>4, <1>6, <1>7, <1>9, <1>10

\* The fields of what it returns inside the root of the current binding.
LEMMA SameRootFields ==
    ASSUME NEW l \in Lease, NEW i \in Identity, NEW d \in Subdir, NEW w, NEW r,
           RegistryOK(reg), R!SameRoot(reg, l, i), NEW p, p = R!PreparedFor(reg, l, i, d, w, r)
    PROVE  /\ p \in Prepared /\ p.session = l /\ p.expected = reg.bindings[l]
           /\ p.expected # None /\ ~p.provisional /\ ~p.created
           /\ p.binding.id = reg.bindings[l].id
           /\ R!HandleOf(p.binding) = R!HandleOf(reg.bindings[l])
<1>1. PICK c \in Binding : c = reg.bindings[l] /\ c.identity = i
  BY RegistryTypes DEF R!SameRoot
<1>2. PICK b \in Binding : b = [id |-> c.id, identity |-> i, runtime |-> c.runtime, subdir |-> d]
  BY DEF Binding
<1>3. p = [session |-> l, expected |-> c, binding |-> b, provisional |-> FALSE, created |-> FALSE]
  BY <1>1, <1>2 DEF R!PreparedFor
<1>4. p \in Prepared  BY SMT, <1>3 DEF Prepared, Session
<1>5. R!HandleOf(b) = R!HandleOf(c) /\ b.id = c.id  BY <1>1, <1>2 DEF R!HandleOf
<1>6. c # None  BY NoneAssumption
<1>. QED  BY SMT, <1>1, <1>3, <1>4, <1>5, <1>6

\* Inside the root of its binding the session gets the same lease in another
\* subdirectory, and the registry stays as it is.
LEMMA PrepareSameRoot ==
    ASSUME Inv, NEW t \in Task, task[t].pc = "prepare", NEW p,
           R!SameRoot(reg, task[t].job.lease, task[t].job.identity),
           NEW w, NEW r,
           p = R!PreparedFor(reg, task[t].job.lease, task[t].job.identity, task[t].job.subdir, w, r),
           task' = [task EXCEPT ![t].pc = "refresh", ![t].prep = p],
           UNCHANGED <<lifecycle, reg, lockQ, stops>>
    PROVE  Inv'
<1>1. task[t].pc \in Holding /\ task[t].pc \notin Preparing  BY DEF Holding, Preparing
<1>2. /\ lockQ # <<>> /\ Head(lockQ) = t /\ task[t].job.kind = "activate"
      /\ task[t].job.lease \in Lease /\ task[t].job.identity \in Identity
      /\ task[t].job.subdir \in Subdir
  BY <1>1, ActivationFacts
<1>3. Types /\ RegistryOK(reg) /\ Backed  BY InvTypes DEF Inv
<1>4. PICK l \in Lease : l = task[t].job.lease  BY <1>2
<1>5. PICK c \in Binding : c = reg.bindings[l]  BY <1>3, <1>4 DEF Types, R!SameRoot
<1>6. /\ p \in Prepared /\ p.session = l /\ p.expected = c /\ ~p.provisional /\ ~p.created
      /\ p.binding.id = c.id /\ R!HandleOf(p.binding) = R!HandleOf(c)
  <2>1. PICK i \in Identity, d \in Subdir : i = task[t].job.identity /\ d = task[t].job.subdir
    BY <1>2
  <2>2. R!SameRoot(reg, l, i) /\ p = R!PreparedFor(reg, l, i, d, w, r)  BY <1>4, <2>1
  <2>. QED  BY <1>3, <1>5, <2>2, SameRootFields, SMT
<1>7. c # None /\ p # None  BY <1>6, BindingType, PreparedType
<1>8. PICK f : f = Advanced(task[t], p)  OBVIOUS
<1>9. /\ f \in Local /\ f.pc = "refresh" /\ f.job = task[t].job /\ f.own = task[t].own
      /\ f.prep = p
  <2>1. task[t] \in Local  BY <1>3 DEF Types
  <2>. QED  BY <1>6, <1>8, <2>1, AdvancedType
<1>10. task' = [task EXCEPT ![t] = f]  BY <1>3, <1>8 DEF Types, Advanced
<1>11. /\ f.pc \in Holding /\ (f.prep # None <=> f.pc \in Preparing)
       /\ UNCHANGED <<lifecycle, lockQ, stops>> /\ reg' = reg /\ task[t].pc # "rebind"
       /\ task[t].pc \in Holding \cup {"lock"}
       /\ (task[t].pc \in {"refresh", "commit"} /\ task[t].prep.provisional)
              => f.pc \in {"refresh", "commit"} /\ f.prep = task[t].prep
  BY <1>1, <1>7, <1>9 DEF Holding, Preparing
<1>12. task'[t].pc = "refresh" /\ task'[t].prep = p /\ task'[t].job = task[t].job
  BY <1>3, <1>9, <1>10 DEF Types
<1>13. active' = active /\ binding' = binding  BY DEF lifecycle
<1>14. reg'.leases[c.id] = R!HandleOf(c)  BY <1>3, <1>5, <1>7, <1>11 DEF Backed
<1>15. l \in active => binding[l] = c  BY <1>2, <1>5, TablesEqual
<1>16. PreparedOK(t)'
  <2>1. p.session = task'[t].job.lease  BY <1>4, <1>6, <1>12
  <2>2. reg'.leases[p.binding.id] = R!HandleOf(p.binding)  BY <1>6, <1>14
  <2>3. p.session \in active' => binding'[p.session] = p.expected  BY <1>6, <1>13, <1>15
  <2>4. p.expected # None /\ p.expected.id = p.binding.id /\ R!HandleOf(p.expected) = R!HandleOf(p.binding)
    BY <1>6, <1>7
  <2>. QED  BY <1>6, <1>12, <2>1, <2>2, <2>3, <2>4 DEF PreparedOK
<1>17. Uncommitted(t)'  BY <1>5, <1>6, <1>11, <1>12 DEF Uncommitted
<1>18. ActivationOK(t)'  BY <1>12, <1>16, <1>17 DEF ActivationOK
<1>. QED  BY <1>2, <1>9, <1>10, <1>11, <1>18, StepKeeps

\* In another root the activation acquires a lease nobody else knows, on the runtime
\* of that root or on one that was just built.
LEMMA PrepareAcquires ==
    ASSUME Inv, NEW t \in Task, task[t].pc = "prepare", NEW p, NEW w \in WorkspaceLease,
           NEW r \in Runtime, NewId(w),
           ~R!SameRoot(reg, task[t].job.lease, task[t].job.identity),
           reg.runtimes[task[t].job.identity] = None => NewRuntime(r),
           p = R!PreparedFor(reg, task[t].job.lease, task[t].job.identity, task[t].job.subdir, w, r),
           reg' = R!Acquire(reg, task[t].job.identity, w, r),
           task' = [task EXCEPT ![t].pc = "refresh", ![t].prep = p],
           UNCHANGED <<lifecycle, lockQ, stops>>
    PROVE  Inv'
<1>1. task[t].pc \in Holding /\ task[t].pc \notin Preparing  BY DEF Holding, Preparing
<1>2. /\ lockQ # <<>> /\ Head(lockQ) = t /\ task[t].job.kind = "activate"
      /\ task[t].job.lease \in Lease /\ task[t].job.identity \in Identity
      /\ task[t].job.subdir \in Subdir
  BY <1>1, ActivationFacts
<1>3. Types /\ RegistryOK(reg) /\ Backed  BY InvTypes DEF Inv
<1>4. PICK l \in Lease : l = task[t].job.lease  BY <1>2
<1>5. PICK i \in Identity : i = task[t].job.identity  BY <1>2
<1>6. PICK d \in Subdir : d = task[t].job.subdir  BY <1>2
<1>7. PICK q : q = IF reg.runtimes[i] = None THEN r ELSE reg.runtimes[i]  OBVIOUS
<1>8. /\ p \in Prepared /\ p.session = l /\ p.expected = reg.bindings[l]
      /\ p.binding = [id |-> w, identity |-> i, runtime |-> q, subdir |-> d]
      /\ p.provisional /\ (p.created <=> reg.runtimes[i] = None) /\ q \in Runtime /\ q # None
      /\ reg'.runtimes = [reg.runtimes EXCEPT ![i] = q]
      /\ reg'.leases = [reg.leases EXCEPT ![w] = [identity |-> i, runtime |-> q]]
      /\ reg'.bindings = reg.bindings
  <2>1. ~R!SameRoot(reg, l, i) /\ p = R!PreparedFor(reg, l, i, d, w, r) /\ reg' = R!Acquire(reg, i, w, r)
    BY SMT, <1>4, <1>5, <1>6
  <2>. QED  BY <1>3, <1>7, <2>1, PreparedFields, SMT
<1>9. /\ p.binding.id = w /\ p.binding.identity = i /\ p # None
      /\ R!HandleOf(p.binding) = [identity |-> i, runtime |-> q]
  <2>1. p # None  BY <1>8, PreparedType
  <2>2. p.binding.id = w /\ p.binding.identity = i /\ p.binding.runtime = q  BY SMT, <1>8
  <2>. QED  BY <2>1, <2>2 DEF R!HandleOf
<1>10. /\ \A j \in Identity : reg'.runtimes[j] = IF j = i THEN q ELSE reg.runtimes[j]
      /\ \A v \in WorkspaceLease :
            reg'.leases[v] = IF v = w THEN R!HandleOf(p.binding) ELSE reg.leases[v]
  BY SMT, <1>3, <1>8, <1>9 DEF Types
<1>11. reg.leases[w] = None /\ \A b \in Binding : Cleaning(b) => b.id # w
  BY DEF NewId, R!Fresh
<1>12. \A s \in Lease : ~Bound(s, w)
  <2>. SUFFICES ASSUME NEW s \in Lease, Bound(s, w) PROVE FALSE  OBVIOUS
  <2>1. reg.bindings[s] # None /\ reg.bindings[s].id = w  BY DEF Bound
  <2>2. reg.leases[w] = R!HandleOf(reg.bindings[s])  BY <1>3, <2>1 DEF Backed
  <2>3. reg.bindings[s] \in Binding  BY <1>3, <2>1 DEF Types
  <2>. QED  BY <1>11, <2>2, <2>3, BindingType
<1>13. RegistryOK(reg') /\ RegistryOK(reg)'
  <2>1. RegistryOK(reg')  BY <1>3, <1>5, <1>11, AcquireCore
  <2>. QED  BY <2>1 DEF RegistryOK, Counted, Stays, R!LeasesOf
<1>14. \A s, v : Bound(s, v)' <=> Bound(s, v)  BY <1>8 DEF Bound
<1>15. PICK f : f = Advanced(task[t], p)  OBVIOUS
<1>16. /\ f \in Local /\ f.pc = "refresh" /\ f.job = task[t].job /\ f.own = task[t].own
       /\ f.prep = p
  <2>1. task[t] \in Local  BY <1>3 DEF Types
  <2>. QED  BY <1>8, <1>15, <2>1, AdvancedType
<1>17. task' = [task EXCEPT ![t] = f]  BY <1>3, <1>15 DEF Types, Advanced
<1>18. /\ f.pc \in Holding /\ (f.prep # None <=> f.pc \in Preparing)
       /\ task[t].pc \in Holding \cup {"lock"}
  BY <1>1, <1>9, <1>16 DEF Holding, Preparing
<1>19. /\ task' \in [Task -> Local] /\ lockQ' \in Seq(Task) /\ stopQ' \in Seq(Task)
       /\ pending' \subseteq Runtime /\ LifecycleOK'
       /\ task'[t] = f /\ \A u \in Task \ {t} : task'[u] = task[u]
       /\ Exclusive' /\ StopTurns' /\ \A u \in Task : JobOK(u)'
       /\ \A u \in Task \ {t} : ActivationOK(u)' /\ task'[u].pc \notin Holding
       /\ GivenUp' = GivenUp /\ \A b : Cleaning(b)' <=> Cleaning(b)
  BY <1>2, <1>16, <1>17, <1>18, AdvanceEffect
<1>20. active' = active /\ issued' = issued /\ binding' = binding /\ workspaces' = workspaces
  BY DEF lifecycle
<1>21. task'[t].pc = "refresh" /\ task'[t].prep = p /\ task'[t].job = task[t].job
  BY <1>16, <1>19
<1>22. reg.runtimes[i] = None => workspaces[i] = None
  <2>. SUFFICES ASSUME reg.runtimes[i] = None, workspaces[i] # None PROVE FALSE  OBVIOUS
  <2>1. workspaces[i] \in WorkspaceState  BY <1>3 DEF Types
  <2>2. workspaces[i].runtime \in Runtime  BY <2>1 DEF WorkspaceState
  <2>3. reg.runtimes[i] = workspaces[i].runtime  BY DEF Inv, WarmRuntimeRegistered
  <2>. QED  BY <2>2, <2>3, NoneAssumption
<1>23. ActivationOK(t)'
  <2>1. l \in active => binding[l] = reg.bindings[l]  BY <1>2, TablesEqual
  <2>2. reg'.leases[w] = R!HandleOf(p.binding)  BY <1>10
  <2>3. PreparedOK(t)'
    <3>1. p.session = task'[t].job.lease  BY <1>4, <1>8, <1>21
    <3>2. reg'.leases[p.binding.id] = R!HandleOf(p.binding)  BY <1>9, <2>2
    <3>3. p.session \in active' => binding'[p.session] = p.expected  BY <1>8, <1>20, <2>1
    <3>4. p.created => workspaces'[p.binding.identity] = None  BY <1>8, <1>9, <1>20, <1>22
    <3>. QED  BY <1>8, <1>21, <3>1, <3>2, <3>3, <3>4 DEF PreparedOK
  <2>4. Uncommitted(t)'
    <3>1. reg'.bindings[p.session] = p.expected  BY SMT, <1>8
    <3>2. \A s \in Lease : ~Bound(s, p.binding.id)'  BY SMT, <1>8, <1>9, <1>12 DEF Bound
    <3>3. \A b \in Binding : Cleaning(b)' => b.id # p.binding.id  BY <1>9, <1>11, <1>19
    <3>. QED  BY <1>21, <3>1, <3>2, <3>3 DEF Uncommitted, Bound
  <2>. QED  BY <1>21, <2>3, <2>4 DEF ActivationOK
<1>24. Backed'
  <2>1. ASSUME NEW s \in Lease, reg'.bindings[s] # None
        PROVE  s \in issued' /\ reg'.leases[reg'.bindings[s].id] = R!HandleOf(reg'.bindings[s])
    <3>1. PICK b \in Binding : b = reg.bindings[s] /\ reg'.bindings[s] = b
      BY SMT, <1>3, <1>8, <2>1 DEF Types
    <3>2. b.id \in WorkspaceLease /\ b # None  BY <1>8, <2>1, <3>1, BindingType
    <3>3. b.id # w  BY <1>12, <3>1, <3>2 DEF Bound
    <3>4. s \in issued /\ reg.leases[b.id] = R!HandleOf(b)  BY SMT, <1>3, <3>1, <3>2 DEF Backed
    <3>. QED  BY <1>10, <1>20, <3>1, <3>2, <3>3, <3>4
  <2>2. \A s, u \in Lease, v \in WorkspaceLease : Bound(s, v)' /\ Bound(u, v)' => s = u
    BY <1>3, <1>14 DEF Backed
  <2>3. ASSUME NEW v \in WorkspaceLease, reg'.leases[v] # None
        PROVE  \/ \E s \in Lease : Bound(s, v)'
               \/ \E u \in Task : /\ task'[u].pc \in {"refresh", "commit"}
                                  /\ task'[u].prep.provisional /\ task'[u].prep.binding.id = v
    <3>1. CASE v = w
      <4>1. /\ task'[t].pc \in {"refresh", "commit"} /\ task'[t].prep.provisional
            /\ task'[t].prep.binding.id = v
        BY <1>8, <1>9, <1>21, <3>1
      <4>. QED  BY <4>1
    <3>2. CASE v # w
      <4>1. reg.leases[v] # None  BY <1>10, <2>3, <3>2
      <4>2. \A u \in Task : task[u].pc \notin {"refresh", "commit"}
        BY <1>2, OneHolder DEF Holding
      <4>. QED  BY <1>3, <1>14, <4>1, <4>2 DEF Backed
    <3>. QED  BY <3>1, <3>2
  <2>. QED  BY <2>1, <2>2, <2>3 DEF Backed
<1>25. TablesAgree'
  <2>. SUFFICES ASSUME NEW s \in Lease
                PROVE  \/ reg'.bindings[s] = binding'[s]
                       \/ s \notin active' /\ Cleaning(reg.bindings[s])'
    BY DEF TablesAgree
  <2>1. reg.bindings[s] = binding[s] \/ (s \notin active /\ Cleaning(reg.bindings[s]))
    BY <1>2, TablesEqual
  <2>2. CASE reg.bindings[s] = binding[s]  BY <1>8, <1>20, <2>2
  <2>3. CASE s \notin active /\ Cleaning(reg.bindings[s])
    <3>1. PICK b : b = reg.bindings[s] /\ reg'.bindings[s] = b  BY <1>8
    <3>2. Cleaning(b)'  BY <1>19, <2>3, <3>1
    <3>. QED  BY <1>20, <2>3, <3>1, <3>2 DEF Cleaning
  <2>. QED  BY <2>1, <2>2, <2>3
<1>26. CleaningSafe'  BY <1>14, <1>19, <1>20 DEF Inv, CleaningSafe
<1>27. WarmRuntimeRegistered'
  <2>1. \A j \in Identity : reg.runtimes[j] # None => reg'.runtimes[j] = reg.runtimes[j]
    BY <1>7, <1>10
  <2>2. \A j \in Identity : workspaces[j] # None => reg.runtimes[j] # None
    <3>1. ASSUME NEW j \in Identity, workspaces[j] # None PROVE reg.runtimes[j] # None
      <4>1. workspaces[j] \in WorkspaceState  BY <1>3, <3>1 DEF Types
      <4>2. workspaces[j].runtime \in Runtime  BY <4>1 DEF WorkspaceState
      <4>3. reg.runtimes[j] = workspaces[j].runtime  BY <3>1 DEF Inv, WarmRuntimeRegistered
      <4>. QED  BY <4>2, <4>3, NoneAssumption
    <3>. QED  BY <3>1
  <2>. QED  BY <1>20, <2>1, <2>2 DEF Inv, WarmRuntimeRegistered
<1>28. q = reg.runtimes[i] \/ NewRuntime(q)  BY <1>5, <1>7
<1>29. RuntimesDistinct'
  <2>. SUFFICES ASSUME NEW j \in Identity, NEW k \in Identity, reg'.runtimes[j] # None,
                       reg'.runtimes[j] = reg'.runtimes[k]
                PROVE  j = k
    BY DEF RuntimesDistinct
  <2>1. CASE q = reg.runtimes[i]
    <3>1. reg'.runtimes[j] = reg.runtimes[j] /\ reg'.runtimes[k] = reg.runtimes[k]  BY <1>10, <2>1
    <3>2. RuntimesDistinct  BY DEF Inv
    <3>. QED  BY <3>1, <3>2 DEF RuntimesDistinct
  <2>2. CASE NewRuntime(q)
    <3>1. \A m \in Identity : reg'.runtimes[m] = IF m = i THEN q ELSE reg.runtimes[m]  BY <1>10
    <3>2. \A m \in Identity : reg.runtimes[m] # q  BY <2>2 DEF NewRuntime
    <3>3. RuntimesDistinct  BY DEF Inv
    <3>. QED  BY <3>1, <3>2, <3>3 DEF RuntimesDistinct
  <2>. QED  BY <1>28, <2>1, <2>2
<1>30. StoppedUnregistered'
  <2>1. q \notin GivenUp
    <3>1. CASE q = reg.runtimes[i]  BY <3>1 DEF Inv, StoppedUnregistered
    <3>2. CASE NewRuntime(q)  BY <3>2 DEF NewRuntime, GivenUp
    <3>. QED  BY <1>28, <3>1, <3>2
  <2>. QED  BY <1>10, <1>19, <2>1 DEF Inv, StoppedUnregistered
<1>31. TypeOK'  BY <1>13, <1>19 DEF TypeOK, LifecycleOK, RegistryOK
<1>32. \A u \in Task : JobOK(u)' /\ ActivationOK(u)'  BY <1>19, <1>23
<1>. QED  BY <1>13, <1>19, <1>24, <1>25, <1>26, <1>27, <1>29, <1>30, <1>31, <1>32 DEF Inv

\* prepare_activation keeps the invariant, in either root.
LEMMA PrepareInv ==
    ASSUME Inv, NEW t \in Task, Prepare(t)
    PROVE  Inv'
<1>1. PICK w \in WorkspaceLease, r \in Runtime :
        /\ R!SameRoot(reg, task[t].job.lease, task[t].job.identity) \/ NewId(w)
        /\ IF reg.runtimes[task[t].job.identity] = None THEN NewRuntime(r)
           ELSE r = reg.runtimes[task[t].job.identity]
        /\ reg' = R!Prepare(reg, task[t].job.lease, task[t].job.identity, w, r)
        /\ task' = [task EXCEPT ![t].pc = "refresh",
                       ![t].prep = R!PreparedFor(reg, task[t].job.lease, task[t].job.identity,
                                                 task[t].job.subdir, w, r)]
  BY DEF Prepare
<1>2. task[t].pc = "prepare" /\ UNCHANGED <<lifecycle, lockQ, stops>>  BY DEF Prepare
<1>3. PICK p : p = R!PreparedFor(reg, task[t].job.lease, task[t].job.identity,
                                 task[t].job.subdir, w, r)
  OBVIOUS
<1>4. task' = [task EXCEPT ![t].pc = "refresh", ![t].prep = p]  BY <1>1, <1>3
<1>5. CASE R!SameRoot(reg, task[t].job.lease, task[t].job.identity)
  <2>1. UNCHANGED <<lifecycle, reg, lockQ, stops>>  BY <1>1, <1>2, <1>5 DEF R!Prepare
  <2>. QED  BY <1>2, <1>3, <1>4, <1>5, <2>1, PrepareSameRoot
<1>6. CASE ~R!SameRoot(reg, task[t].job.lease, task[t].job.identity)
  <2>1. /\ NewId(w) /\ reg' = R!Acquire(reg, task[t].job.identity, w, r)
        /\ reg.runtimes[task[t].job.identity] = None => NewRuntime(r)
    BY <1>1, <1>6 DEF R!Prepare
  <2>. QED  BY <1>2, <1>3, <1>4, <1>6, <2>1, PrepareAcquires
<1>. QED  BY <1>5, <1>6
=============================================================================
