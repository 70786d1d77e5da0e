------------------------------ MODULE Registry ------------------------------
(***************************************************************************)
(* WorkspaceRuntimeRegistry (workspace/registry.py): one warm runtime per  *)
(* identity, reference-counted workspace leases, and the binding of each   *)
(* session.  Every method runs under one RLock, so a method is a function  *)
(* from registry state to registry state; the daemon service calls several *)
(* of them in one step, which is then a composition of these functions.    *)
(*                                                                         *)
(* The module's own specification lets several callers prepare, commit and *)
(* abort activations of the same sessions concurrently, without the daemon *)
(* service's binding lock.                                                 *)
(***************************************************************************)
EXTENDS WorkspaceTypes

CONSTANT Caller  \* concurrent users of the registry

RegistryState ==
    [runtimes: [Identity -> Runtime \cup {None}],      \* _runtimes[i].runtime
     refcount: [Identity -> Int],                      \* _runtimes[i].reference_count
     leases: [WorkspaceLease -> Handle \cup {None}],   \* _leases
     bindings: [Session -> Binding \cup {None}]]       \* _bindings

EmptyRegistry ==
    [runtimes |-> [i \in Identity |-> None], refcount |-> [i \in Identity |-> 0],
     leases |-> [w \in WorkspaceLease |-> None], bindings |-> [s \in Session |-> None]]

\* The WorkspaceLease object inside a binding.
HandleOf(b) == [identity |-> b.identity, runtime |-> b.runtime]

LeasesOf(g, i) == {w \in WorkspaceLease : g.leases[w] # None /\ g.leases[w].identity = i}

-----------------------------------------------------------------------------
\* _acquire_locked: r is used only when the identity has no runtime yet.
Acquire(g, i, w, r) ==
    LET runtime == IF g.runtimes[i] = None THEN r ELSE g.runtimes[i]
    IN  [runtimes |-> [g.runtimes EXCEPT ![i] = runtime],
         refcount |-> [g.refcount EXCEPT ![i] = @ + 1],
         leases   |-> [g.leases EXCEPT ![w] = [identity |-> i, runtime |-> runtime]],
         bindings |-> g.bindings]

\* _release_locked: a second release of the same id changes nothing.
ReleaseLocked(g, w) ==
    IF g.leases[w] = None THEN g
    ELSE [runtimes |-> g.runtimes,
          refcount |-> [g.refcount EXCEPT ![g.leases[w].identity] = @ - 1],
          leases   |-> [g.leases EXCEPT ![w] = None],
          bindings |-> g.bindings]

Bind(g, s, b) == [g EXCEPT !.bindings = [g.bindings EXCEPT ![s] = b]]

\* prepare_activation: the current binding is reused inside the same identity;
\* otherwise a provisional lease (id w) is acquired.
SameRoot(g, s, i) == g.bindings[s] # None /\ g.bindings[s].identity = i

PreparedFor(g, s, i, d, w, r) ==
    IF SameRoot(g, s, i)
    THEN [session |-> s, expected |-> g.bindings[s],
          binding |-> [id |-> g.bindings[s].id, identity |-> i,
                       runtime |-> g.bindings[s].runtime, subdir |-> d],
          provisional |-> FALSE, created |-> FALSE]
    ELSE [session |-> s, expected |-> g.bindings[s],
          binding |-> [id |-> w, identity |-> i,
                       runtime |-> IF g.runtimes[i] = None THEN r ELSE g.runtimes[i],
                       subdir |-> d],
          provisional |-> TRUE, created |-> g.runtimes[i] = None]

Prepare(g, s, i, w, r) == IF SameRoot(g, s, i) THEN g ELSE Acquire(g, i, w, r)

\* abort_activation: only a provisional candidate is given back.
Abort(g, p) == IF p.provisional THEN ReleaseLocked(g, p.binding.id) ELSE g

\* commit_activation publishes only over the binding it was prepared against,
\* and only while its provisional lease is still registered.
CommitOK(g, p) ==
    /\ g.bindings[p.session] = p.expected
    /\ p.provisional => g.leases[p.binding.id] = HandleOf(p.binding)

Commit(g, p) ==
    LET h == Bind(g, p.session, p.binding)
    IN  IF p.expected # None /\ p.provisional THEN ReleaseLocked(h, p.expected.id) ELSE h

\* activate: acquire, swap, release the old lease.
Activate(g, s, i, d, w, r) ==
    LET p == PreparedFor(g, s, i, d, w, r) IN Commit(Prepare(g, s, i, w, r), p)

\* release: the session's binding and its lease.
Release(g, s) ==
    IF g.bindings[s] = None THEN g
    ELSE ReleaseLocked(Bind(g, s, None), g.bindings[s].id)

\* release_lease: every session bound through the lease is detached.
ReleaseLease(g, w) ==
    IF g.leases[w] = None THEN g
    ELSE ReleaseLocked([g EXCEPT !.bindings =
            [s \in Session |-> IF g.bindings[s] # None /\ g.bindings[s].id = w
                               THEN None ELSE g.bindings[s]]], w)

\* retire_idle: compare-and-remove of an unleased runtime.
Retirable(g, i, r) == r # None /\ g.runtimes[i] = r /\ g.refcount[i] = 0

RetireIdle(g, i, r) ==
    IF Retirable(g, i, r) THEN [g EXCEPT !.runtimes = [g.runtimes EXCEPT ![i] = None]] ELSE g

-----------------------------------------------------------------------------
VARIABLES
    reg,       \* the registry
    prepared   \* the activation each caller has prepared and not yet settled

vars == <<reg, prepared>>

Init ==
    /\ reg = EmptyRegistry
    /\ prepared = [c \in Caller |-> None]

\* uuid4: an id that nothing refers to.
Fresh(w) ==
    /\ reg.leases[w] = None
    /\ \A c \in Caller : prepared[c] # None =>
          /\ prepared[c].binding.id # w
          /\ prepared[c].expected # None => prepared[c].expected.id # w

\* The entry of i, or what runtime_factory returns: an instance nothing refers to.
Constructed(i) ==
    IF reg.runtimes[i] # None THEN {reg.runtimes[i]}
    ELSE {r \in Runtime :
            /\ \A j \in Identity : reg.runtimes[j] # r
            /\ \A c \in Caller : prepared[c] # None => prepared[c].binding.runtime # r}

PrepareActivation(c, s, i, d) ==
    /\ prepared[c] = None
    /\ \E w \in WorkspaceLease, r \in Constructed(i) :
          /\ SameRoot(reg, s, i) \/ Fresh(w)
          /\ reg' = Prepare(reg, s, i, w, r)
          /\ prepared' = [prepared EXCEPT ![c] = PreparedFor(reg, s, i, d, w, r)]

CommitActivation(c) ==
    /\ prepared[c] # None /\ CommitOK(reg, prepared[c])
    /\ reg' = Commit(reg, prepared[c])
    /\ prepared' = [prepared EXCEPT ![c] = None]

\* commit_activation raises, after it has aborted the candidate itself.
CommitRefused(c) ==
    /\ prepared[c] # None /\ ~CommitOK(reg, prepared[c])
    /\ reg' = Abort(reg, prepared[c])
    /\ prepared' = [prepared EXCEPT ![c] = None]

AbortActivation(c) ==
    /\ prepared[c] # None
    /\ reg' = Abort(reg, prepared[c])
    /\ prepared' = [prepared EXCEPT ![c] = None]

ActivateDirectly(s, i, d) ==
    /\ \E w \in WorkspaceLease, r \in Constructed(i) :
          /\ SameRoot(reg, s, i) \/ Fresh(w)
          /\ reg' = Activate(reg, s, i, d, w, r)
    /\ UNCHANGED prepared

ReleaseSession(s) ==
    /\ reg.bindings[s] # None
    /\ reg' = Release(reg, s)
    /\ UNCHANGED prepared

\* Callers know the ids of published bindings only.
ReleaseById(s) ==
    /\ reg.bindings[s] # None
    /\ reg' = ReleaseLease(reg, reg.bindings[s].id)
    /\ UNCHANGED prepared

Retire(i) ==
    /\ Retirable(reg, i, reg.runtimes[i])
    /\ reg' = RetireIdle(reg, i, reg.runtimes[i])
    /\ UNCHANGED prepared

Next ==
    \/ \E c \in Caller, s \in Session, i \in Identity, d \in Subdir : PrepareActivation(c, s, i, d)
    \/ \E c \in Caller : CommitActivation(c) \/ CommitRefused(c) \/ AbortActivation(c)
    \/ \E s \in Session, i \in Identity, d \in Subdir : ActivateDirectly(s, i, d)
    \/ \E s \in Session : ReleaseSession(s) \/ ReleaseById(s)
    \/ \E i \in Identity : Retire(i)

Spec == Init /\ [][Next]_vars

-----------------------------------------------------------------------------
\* The registry and the prepared activations hold values of their types; a
\* lease always names a runtime.
TypeOK ==
    /\ reg \in RegistryState
    /\ prepared \in [Caller -> Prepared \cup {None}]

\* The reference count of a runtime is the number of live leases on it, so that
\* neither an underflow nor a retirement under a lease is possible, however
\* prepare, commit, abort and release interleave.
RefcountExact == \A i \in Identity : reg.refcount[i] = Cardinality(LeasesOf(reg, i))

\* A leased runtime stays in the registry: retire_idle never takes it away and
\* no second runtime is constructed beside it.
LeasedRuntimeStays ==
    \A w \in WorkspaceLease : reg.leases[w] # None =>
        reg.runtimes[reg.leases[w].identity] = reg.leases[w].runtime

\* Every session binding is backed by a live lease of its own on the runtime
\* that the binding names.
BindingsBacked ==
    /\ \A s \in Session : reg.bindings[s] # None =>
          reg.leases[reg.bindings[s].id] = HandleOf(reg.bindings[s])
    /\ \A s, t \in Session :
          (s # t /\ reg.bindings[s] # None /\ reg.bindings[t] # None)
             => reg.bindings[s].id # reg.bindings[t].id

\* No lease leaks: every live lease belongs to a session binding or to a
\* provisional candidate whose caller has still to commit or abort it.
NoLeakedLease ==
    \A w \in WorkspaceLease : reg.leases[w] # None =>
        \/ \E s \in Session : reg.bindings[s] # None /\ reg.bindings[s].id = w
        \/ \E c \in Caller : /\ prepared[c] # None /\ prepared[c].provisional
                             /\ prepared[c].binding.id = w
=============================================================================
