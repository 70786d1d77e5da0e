-------------------------- MODULE DaemonInvariant --------------------------
(***************************************************************************)
(* The inductive invariant of the daemon service.  To what the lifecycle   *)
(* and the registry keep in order by themselves it adds what holds between *)
(* them: who has the binding lock, what an activation in flight has        *)
(* already published, and which bindings wait for their clean-up.          *)
(*                                                                         *)
(* The lemmas say what a step that gives up the lock, takes leases out of  *)
(* the registry or ends a lease does to it, and then that every action     *)
(* keeps it but those of an activation under the binding lock: calls and   *)
(* their ends, stops, releases, clean-ups and the sweep.  The lifecycle is *)
(* taken as given until DaemonServiceProofs: a lemma on a step assumes     *)
(* that the lifecycle is in order after it.                                *)
(***************************************************************************)
EXTENDS DaemonService, TLAPS

USE Zenon  \* the default; SMT is named where it is needed

BoundTo(i) == {l \in Lease : binding[l] # None /\ binding[l].identity = i}

\* The inductive invariant of the lifecycle: its two tables agree.
LifecycleOK ==
    /\ L!TypeOK
    /\ \A l \in Lease \ active : binding[l] = None
    /\ active \subseteq issued /\ expired \subseteq issued /\ active \cap expired = {}
    /\ \A i \in Identity :
          IF workspaces[i] = None
          THEN BoundTo(i) = {}
          ELSE /\ workspaces[i].holders = BoundTo(i)
               /\ \A l \in BoundTo(i) : binding[l].runtime = workspaces[i].runtime
               /\ workspaces[i].holders = {} <=> workspaces[i].grace # NoDeadline

\* The counts of registry g are exact and its leased runtimes registered.
Counted(g) == \A i \in Identity : g.refcount[i] = Cardinality(R!LeasesOf(g, i))

Stays(g) ==
    \A w \in WorkspaceLease : g.leases[w] # None =>
        g.runtimes[g.leases[w].identity] = g.leases[w].runtime

\* What is used of Cardinality: a fact of finite sets, shown in DaemonServiceProofs.
\* It is carried along here because loading the theory of finite sets slows every
\* other proof down.
Sizes ==
    /\ \A S \in SUBSET WorkspaceLease : Cardinality(S) \in Nat /\ (Cardinality(S) = 0 <=> S = {})
    /\ \A w \in WorkspaceLease : Cardinality({w}) = 1
    /\ \A S, T \in SUBSET WorkspaceLease :
          Cardinality(S \ T) = Cardinality(S) - Cardinality(S \cap T)

RegistryOK(g) == Sizes /\ g \in R!RegistryState /\ Counted(g) /\ Stays(g)

\* Steps that leave the lifecycle alone leave it in order.
LEMMA LifecycleSame == ASSUME LifecycleOK, UNCHANGED lifecycle PROVE LifecycleOK'
  BY SMT DEF lifecycle, LifecycleOK, BoundTo, L!TypeOK

\* How adding or removing one lease changes a count.
LEMMA CountOne ==
    ASSUME Sizes, NEW S \in SUBSET WorkspaceLease, NEW w \in WorkspaceLease
    PROVE  /\ w \notin S => Cardinality(S \cup {w}) = Cardinality(S) + 1
           /\ w \in S => Cardinality(S \ {w}) = Cardinality(S) - 1
<1>1. ASSUME NEW T \in SUBSET WorkspaceLease, w \in T
      PROVE  Cardinality(T \ {w}) = Cardinality(T) - 1
  <2>1. T \cap {w} = {w} /\ {w} \in SUBSET WorkspaceLease  BY <1>1
  <2>2. Cardinality(T \ {w}) = Cardinality(T) - Cardinality(T \cap {w})  BY <2>1 DEF Sizes
  <2>3. Cardinality({w}) = 1  BY DEF Sizes
  <2>. QED  BY <2>1, <2>2, <2>3
<1>2. ASSUME w \notin S PROVE Cardinality(S \cup {w}) = Cardinality(S) + 1
  <2>1. (S \cup {w}) \ {w} = S /\ S \cup {w} \in SUBSET WorkspaceLease  BY <1>2
  <2>2. Cardinality(S) = Cardinality(S \cup {w}) - 1  BY <1>1, <2>1
  <2>3. Cardinality(S) \in Nat /\ Cardinality(S \cup {w}) \in Nat  BY <2>1 DEF Sizes
  <2>. QED  BY SMT, <2>2, <2>3
<1>. QED  BY <1>1, <1>2

\* The registry of a new daemon.
LEMMA EmptyRegistryOK == Sizes => RegistryOK(R!EmptyRegistry)
<1>. SUFFICES ASSUME Sizes PROVE RegistryOK(R!EmptyRegistry)  OBVIOUS
<1>. DEFINE g == R!EmptyRegistry
<1>1. /\ g.leases = [w \in WorkspaceLease |-> None] /\ g.refcount = [i \in Identity |-> 0]
      /\ g \in R!RegistryState
  BY SMT DEF R!EmptyRegistry, R!RegistryState, R!Session
<1>2. \A i \in Identity : R!LeasesOf(g, i) = {}  BY <1>1 DEF R!LeasesOf
<1>3. Counted(g)  BY <1>1, <1>2 DEF Counted, Sizes
<1>4. Stays(g)  BY <1>1 DEF Stays
<1>. QED  BY <1>1, <1>3, <1>4 DEF RegistryOK

\* A new lease is counted once.
LEMMA AcquireCore ==
    ASSUME NEW g, RegistryOK(g), NEW i \in Identity, NEW w \in WorkspaceLease,
           NEW r \in Runtime, g.leases[w] = None
    PROVE  RegistryOK(R!Acquire(g, i, w, r))
<1>. DEFINE h == R!Acquire(g, i, w, r)
<1>. DEFINE rt == IF g.runtimes[i] = None THEN r ELSE g.runtimes[i]
<1>1. /\ rt \in Runtime
      /\ h = [runtimes |-> [g.runtimes EXCEPT ![i] = rt],
              refcount |-> [g.refcount EXCEPT ![i] = @ + 1],
              leases |-> [g.leases EXCEPT ![w] = [identity |-> i, runtime |-> rt]],
              bindings |-> g.bindings]
  BY DEF RegistryOK, Counted, R!RegistryState, R!Acquire
<1>. HIDE DEF h, rt
<1>2. [identity |-> i, runtime |-> rt] \in Handle /\ [identity |-> i, runtime |-> rt] # None
  BY SMT, <1>1, RegistryAssumption DEF Handle
<1>3. h \in R!RegistryState
  BY SMT, <1>1, <1>2 DEF RegistryOK, Counted, R!RegistryState, R!Handle, Handle, R!Binding, Binding, R!Session, Session
<1>4. Stays(h)
  BY SMT, <1>1, <1>2, RegistryAssumption DEF RegistryOK, Counted, Stays, R!RegistryState, Handle, h, rt, R!Acquire, R!Handle, R!Binding, Binding, R!Session, Session
<1>5. ASSUME NEW j \in Identity PROVE h.refcount[j] = Cardinality(R!LeasesOf(h, j))
  <2>1. CASE j = i
    <3>1. R!LeasesOf(h, i) = R!LeasesOf(g, i) \cup {w}
      BY <1>1, <1>2 DEF RegistryOK, Counted, R!RegistryState, R!LeasesOf
    <3>2. w \notin R!LeasesOf(g, i)  BY DEF R!LeasesOf
    <3>3. Cardinality(R!LeasesOf(g, i) \cup {w}) = Cardinality(R!LeasesOf(g, i)) + 1
      BY <3>2, CountOne, SMT DEF RegistryOK, R!LeasesOf
    <3>4. h.refcount[i] = g.refcount[i] + 1  BY <1>1 DEF RegistryOK, Counted, R!RegistryState
    <3>. QED  BY <2>1, <3>1, <3>3, <3>4 DEF RegistryOK, Counted
  <2>2. CASE j # i
    <3>1. R!LeasesOf(h, j) = R!LeasesOf(g, j)
      BY <1>1, <1>2, <2>2 DEF RegistryOK, Counted, R!RegistryState, R!LeasesOf
    <3>2. h.refcount[j] = g.refcount[j]  BY <1>1, <2>2 DEF RegistryOK, Counted, R!RegistryState
    <3>. QED  BY <3>1, <3>2 DEF RegistryOK, Counted
  <2>. QED  BY <2>1, <2>2
<1>. QED  BY <1>3, <1>4, <1>5 DEF RegistryOK, Counted, h

\* So is a lease that goes, and a second release counts nothing.
LEMMA ReleaseCore ==
    ASSUME NEW g, RegistryOK(g), NEW w \in WorkspaceLease
    PROVE  RegistryOK(R!ReleaseLocked(g, w))
<1>. DEFINE h == R!ReleaseLocked(g, w)
<1>1. CASE g.leases[w] = None  BY <1>1 DEF R!ReleaseLocked
<1>2. CASE g.leases[w] # None
  <2>0. PICK i \in Identity : i = g.leases[w].identity
    BY <1>2 DEF RegistryOK, Counted, R!RegistryState, Handle, R!Handle, R!Binding, Binding, R!Session, Session
  <2>1. w \in R!LeasesOf(g, i)
    BY <1>2, <2>0 DEF R!LeasesOf
  <2>2. h = [runtimes |-> g.runtimes, refcount |-> [g.refcount EXCEPT ![i] = @ - 1],
             leases |-> [g.leases EXCEPT ![w] = None], bindings |-> g.bindings]
    BY <1>2, <2>0 DEF R!ReleaseLocked
  <2>. HIDE DEF h
  <2>3. h \in R!RegistryState  BY SMT, <2>1, <2>2 DEF RegistryOK, Counted, R!RegistryState
  <2>4. Stays(h)  BY <2>2 DEF RegistryOK, Counted, Stays, R!RegistryState
  <2>5. ASSUME NEW j \in Identity PROVE h.refcount[j] = Cardinality(R!LeasesOf(h, j))
    <3>1. CASE j = i
      <4>1. R!LeasesOf(h, i) = R!LeasesOf(g, i) \ {w}
        BY <2>0, <2>2 DEF RegistryOK, Counted, R!RegistryState, R!LeasesOf
      <4>2. Cardinality(R!LeasesOf(g, i) \ {w}) = Cardinality(R!LeasesOf(g, i)) - 1
        BY <2>1, CountOne, SMT DEF RegistryOK, R!LeasesOf
      <4>3. h.refcount[i] = g.refcount[i] - 1  BY <2>1, <2>2 DEF RegistryOK, Counted, R!RegistryState
      <4>. QED  BY <2>1, <3>1, <4>1, <4>2, <4>3 DEF RegistryOK, Counted
    <3>2. CASE j # i
      <4>1. R!LeasesOf(h, j) = R!LeasesOf(g, j)
        BY <2>0, <2>2, <3>2 DEF RegistryOK, Counted, R!RegistryState, R!LeasesOf
      <4>2. h.refcount[j] = g.refcount[j]  BY <2>2, <3>2 DEF RegistryOK, Counted, R!RegistryState
      <4>. QED  BY <4>1, <4>2 DEF RegistryOK, Counted
    <3>. QED  BY <3>1, <3>2
  <2>. QED  BY <2>3, <2>4, <2>5 DEF RegistryOK, Counted, h
<1>. QED  BY <1>1, <1>2

\* Bindings are not counted.
LEMMA RebindCore ==
    ASSUME NEW g, RegistryOK(g), NEW bs \in [Session -> Binding \cup {None}]
    PROVE  RegistryOK([g EXCEPT !.bindings = bs])
<1>. DEFINE h == [g EXCEPT !.bindings = bs]
<1>1. h = [runtimes |-> g.runtimes, refcount |-> g.refcount, leases |-> g.leases,
           bindings |-> bs]
  BY SMT DEF RegistryOK, Counted, R!RegistryState
<1>. HIDE DEF h
<1>2. h \in R!RegistryState /\ Stays(h)  BY <1>1 DEF RegistryOK, Counted, R!RegistryState, Stays, R!Handle, Handle, R!Binding, Binding, R!Session, Session
<1>3. \A i \in Identity : R!LeasesOf(h, i) = R!LeasesOf(g, i)  BY <1>1 DEF R!LeasesOf
<1>. QED  BY <1>1, <1>2, <1>3 DEF RegistryOK, Counted, h

\* A runtime is retired only when no lease names it.
LEMMA RetireCore ==
    ASSUME NEW g, RegistryOK(g), NEW i \in Identity, NEW r, R!Retirable(g, i, r)
    PROVE  RegistryOK(R!RetireIdle(g, i, r))
<1>. DEFINE h == R!RetireIdle(g, i, r)
<1>1. h = [runtimes |-> [g.runtimes EXCEPT ![i] = None], refcount |-> g.refcount,
           leases |-> g.leases, bindings |-> g.bindings]
  BY DEF RegistryOK, Counted, R!RegistryState, R!RetireIdle
<1>. HIDE DEF h
<1>2. R!LeasesOf(g, i) = {}
  BY DEF RegistryOK, Counted, R!Retirable, Sizes, R!LeasesOf
<1>3. h \in R!RegistryState  BY <1>1 DEF RegistryOK, Counted, R!RegistryState
<1>4. Stays(h)  BY SMT, <1>1, <1>2 DEF RegistryOK, Counted, Stays, R!RegistryState, R!LeasesOf, Handle
<1>5. \A j \in Identity : R!LeasesOf(h, j) = R!LeasesOf(g, j)  BY <1>1 DEF R!LeasesOf
<1>. QED  BY SMT, <1>1, <1>3, <1>4, <1>5 DEF RegistryOK, Counted, h

-----------------------------------------------------------------------------
\* Registry h is g without the leases W and the bindings that go through them, and
\* without the runtimes of the identities X.
Shrinks(g, h, W, X) ==
    /\ RegistryOK(h)
    /\ \A w \in WorkspaceLease : h.leases[w] = IF w \in W THEN None ELSE g.leases[w]
    /\ \A s \in Lease : h.bindings[s] = IF g.bindings[s] # None /\ g.bindings[s].id \in W
                                        THEN None ELSE g.bindings[s]
    /\ \A i \in Identity : h.runtimes[i] = IF i \in X THEN None ELSE g.runtimes[i]

\* Every binding of g goes through a lease of its own.
Backs(g) ==
    /\ \A s \in Lease : g.bindings[s] # None => g.leases[g.bindings[s].id] # None
    /\ \A s, u \in Lease : (g.bindings[s] # None /\ g.bindings[u] # None
                              /\ g.bindings[s].id = g.bindings[u].id) => s = u

\* The types of the registry's tables.
LEMMA RegistryTypes ==
    ASSUME NEW g, RegistryOK(g)
    PROVE  /\ g.runtimes \in [Identity -> Runtime \cup {None}]
           /\ g.leases \in [WorkspaceLease -> Handle \cup {None}]
           /\ g.bindings \in [Lease -> Binding \cup {None}]
           /\ g.refcount \in [Identity -> Int]
           /\ g = [runtimes |-> g.runtimes, refcount |-> g.refcount, leases |-> g.leases,
                   bindings |-> g.bindings]
BY DEF RegistryOK, R!RegistryState, R!Session, R!Binding, R!Handle, Binding, Handle

\* A binding of the registry is well formed.
LEMMA BackedId ==
    ASSUME NEW g, RegistryOK(g), NEW s \in Lease, g.bindings[s] # None
    PROVE  /\ g.bindings[s] \in Binding /\ g.bindings[s].id \in WorkspaceLease
           /\ g.bindings[s].identity \in Identity
BY SMT, RegistryTypes DEF Binding

\* Shrinking twice is shrinking, and leaves every remaining binding its lease.
LEMMA ShrinksTwice ==
    ASSUME NEW g, NEW h, NEW k, NEW W, NEW V, NEW X, NEW Y,
           RegistryOK(g), Shrinks(g, h, W, X), Shrinks(h, k, V, Y)
    PROVE  Shrinks(g, k, W \cup V, X \cup Y)
<1>1. \A s \in Lease : k.bindings[s] = IF g.bindings[s] # None /\ g.bindings[s].id \in W \cup V
                                        THEN None ELSE g.bindings[s]
  BY DEF Shrinks
<1>2. \A w \in WorkspaceLease : k.leases[w] = IF w \in W \cup V THEN None ELSE g.leases[w]
  BY DEF Shrinks
<1>3. \A i \in Identity : k.runtimes[i] = IF i \in X \cup Y THEN None ELSE g.runtimes[i]
  BY DEF Shrinks
<1>. QED  BY <1>1, <1>2, <1>3 DEF Shrinks

\* What remains after a release still has a lease of its own.
LEMMA ShrinksBacks ==
    ASSUME NEW g, NEW h, NEW W, NEW X, RegistryOK(g), Backs(g), Shrinks(g, h, W, X)
    PROVE  Backs(h)
BY SMT, BackedId DEF Backs, Shrinks

\* Releasing nothing.
LEMMA ShrinksNothing == ASSUME NEW g, RegistryOK(g) PROVE Shrinks(g, g, {}, {})
BY DEF Shrinks

\* The fields after _release_locked.
LEMMA ReleaseLockedFields ==
    ASSUME NEW g, RegistryOK(g), NEW w \in WorkspaceLease
    PROVE  /\ R!ReleaseLocked(g, w).leases = [g.leases EXCEPT ![w] = None]
           /\ R!ReleaseLocked(g, w).bindings = g.bindings
           /\ R!ReleaseLocked(g, w).runtimes = g.runtimes
           /\ \A v \in WorkspaceLease :
                R!ReleaseLocked(g, w).leases[v] = IF v = w THEN None ELSE g.leases[v]
<1>0. \A v \in WorkspaceLease : [g.leases EXCEPT ![w] = None][v] = IF v = w THEN None ELSE g.leases[v]
  BY RegistryTypes
<1>1. CASE g.leases[w] = None
  BY <1>1, RegistryTypes DEF R!ReleaseLocked
<1>2. CASE g.leases[w] # None
  BY <1>0, <1>2 DEF R!ReleaseLocked
<1>. QED  BY <1>1, <1>2

\* The candidate of an aborted activation: no binding goes through its lease.
LEMMA ReleaseLockedShrinks ==
    ASSUME NEW g, RegistryOK(g), NEW w \in WorkspaceLease,
           \A s \in Lease : g.bindings[s] # None => g.bindings[s].id # w
    PROVE  Shrinks(g, R!ReleaseLocked(g, w), {w}, {})
<1>1. RegistryOK(R!ReleaseLocked(g, w))  BY ReleaseCore
<1>2. /\ R!ReleaseLocked(g, w).bindings = g.bindings /\ R!ReleaseLocked(g, w).runtimes = g.runtimes
      /\ \A v \in WorkspaceLease :
           R!ReleaseLocked(g, w).leases[v] = IF v = w THEN None ELSE g.leases[v]
  BY ReleaseLockedFields
<1>. QED  BY <1>1, <1>2 DEF Shrinks

\* The fields once bindings have been replaced.
LEMMA RebindFields ==
    ASSUME NEW g, RegistryOK(g), NEW bs \in [Lease -> Binding \cup {None}]
    PROVE  LET h == [g EXCEPT !.bindings = bs]
           IN  /\ RegistryOK(h) /\ h.leases = g.leases /\ h.runtimes = g.runtimes
               /\ h.bindings = bs
<1>1. RegistryOK([g EXCEPT !.bindings = bs])  BY RebindCore DEF Session
<1>. QED  BY <1>1 DEF RegistryOK, R!RegistryState

\* release_lease of any id, known or not.
LEMMA ReleaseLeaseShrinks ==
    ASSUME NEW g, RegistryOK(g), Backs(g), NEW w \in WorkspaceLease
    PROVE  Shrinks(g, R!ReleaseLease(g, w), {w}, {})
<1>. DEFINE bs == [s \in Lease |-> IF g.bindings[s] # None /\ g.bindings[s].id = w
                                   THEN None ELSE g.bindings[s]]
            h == [g EXCEPT !.bindings = bs]
<1>1. CASE g.leases[w] = None
  BY <1>1, RegistryTypes DEF R!ReleaseLease, Shrinks, Backs
<1>2. CASE g.leases[w] # None
  <2>1. R!ReleaseLease(g, w) = R!ReleaseLocked(h, w)  BY <1>2 DEF R!ReleaseLease, R!Session
  <2>2. bs \in [Lease -> Binding \cup {None}]  BY RegistryTypes
  <2>3. RegistryOK(h) /\ h.leases = g.leases /\ h.runtimes = g.runtimes /\ h.bindings = bs
    BY <2>2, RebindFields
  <2>4. bs = [s \in Lease |-> IF g.bindings[s] # None /\ g.bindings[s].id = w
                              THEN None ELSE g.bindings[s]]
    OBVIOUS
  <2>. HIDE DEF bs, h
  <2>5. RegistryOK(R!ReleaseLocked(h, w))  BY <2>3, ReleaseCore
  <2>6. /\ R!ReleaseLocked(h, w).bindings = h.bindings
        /\ R!ReleaseLocked(h, w).runtimes = h.runtimes
        /\ \A v \in WorkspaceLease :
             R!ReleaseLocked(h, w).leases[v] = IF v = w THEN None ELSE h.leases[v]
    BY <2>3, ReleaseLockedFields
  <2>. QED  BY SMT, <2>1, <2>3, <2>4, <2>5, <2>6 DEF Shrinks
<1>. QED  BY <1>1, <1>2

\* release of a session.
LEMMA ReleaseShrinks ==
    ASSUME NEW g, RegistryOK(g), Backs(g), NEW s \in Lease, g.bindings[s] # None
    PROVE  Shrinks(g, R!Release(g, s), {g.bindings[s].id}, {})
<1>. DEFINE bs == [g.bindings EXCEPT ![s] = None]
            h == [g EXCEPT !.bindings = bs]
<1>1. R!Release(g, s) = R!ReleaseLocked(h, g.bindings[s].id)  BY DEF R!Release, R!Bind
<1>2. bs \in [Lease -> Binding \cup {None}]  BY RegistryTypes
<1>3. RegistryOK(h) /\ h.leases = g.leases /\ h.runtimes = g.runtimes /\ h.bindings = bs
  BY <1>2, RebindFields
<1>4. \A u \in Lease : bs[u] = IF u = s THEN None ELSE g.bindings[u]  BY RegistryTypes
<1>. HIDE DEF bs, h
<1>5. PICK w \in WorkspaceLease : w = g.bindings[s].id  BY BackedId
<1>6. RegistryOK(R!ReleaseLocked(h, w))  BY <1>3, ReleaseCore
<1>7. \A u \in Lease : (g.bindings[u] # None /\ g.bindings[u].id = w) <=> u = s
  BY <1>5 DEF Backs
<1>8. /\ R!ReleaseLocked(h, w).bindings = h.bindings
      /\ R!ReleaseLocked(h, w).runtimes = h.runtimes
      /\ \A v \in WorkspaceLease :
           R!ReleaseLocked(h, w).leases[v] = IF v = w THEN None ELSE h.leases[v]
  BY <1>3, ReleaseLockedFields
<1>. QED  BY SMT, <1>1, <1>3, <1>4, <1>5, <1>6, <1>7, <1>8 DEF Shrinks

\* retire_idle, whether it finds the runtime idle or not.
LEMMA RetireShrinks ==
    ASSUME NEW g, RegistryOK(g), NEW i \in Identity, NEW r
    PROVE  Shrinks(g, R!RetireIdle(g, i, r), {}, IF R!Retirable(g, i, r) THEN {i} ELSE {})
<1>1. CASE R!Retirable(g, i, r)
  <2>1. RegistryOK(R!RetireIdle(g, i, r))  BY <1>1, RetireCore
  <2>2. R!RetireIdle(g, i, r) = [g EXCEPT !.runtimes = [g.runtimes EXCEPT ![i] = None]]
    BY <1>1 DEF R!RetireIdle
  <2>. QED  BY <1>1, <2>1, <2>2, RegistryTypes DEF Shrinks, RegistryOK, R!RegistryState
<1>2. CASE ~R!Retirable(g, i, r)  BY <1>2, ShrinksNothing DEF R!RetireIdle
<1>. QED  BY <1>1, <1>2

\* The releases of a sweep.
LEMMA UnleasedAllShrinks ==
    ASSUME NEW g, RegistryOK(g), Backs(g), NEW bs \in SUBSET Binding
    PROVE  Shrinks(g, UnleasedAll(g, bs), {b.id : b \in bs}, {})
<1>. DEFINE ids == {w \in WorkspaceLease : g.leases[w] # None /\ \E b \in bs : b.id = w}
            h == UnleasedAll(g, bs)
<1>1. h = [runtimes |-> g.runtimes,
           refcount |-> [i \in Identity |-> g.refcount[i] - Cardinality(ids \cap R!LeasesOf(g, i))],
           leases   |-> [w \in WorkspaceLease |-> IF w \in ids THEN None ELSE g.leases[w]],
           bindings |-> [s \in Lease |-> IF g.bindings[s] # None /\ g.bindings[s].id \in ids
                                         THEN None ELSE g.bindings[s]]]
  BY DEF UnleasedAll, Session
<1>. HIDE DEF h
<1>2. /\ \A w \in WorkspaceLease : h.leases[w] = IF w \in ids THEN None ELSE g.leases[w]
      /\ \A s \in Lease : h.bindings[s] = IF g.bindings[s] # None /\ g.bindings[s].id \in ids
                                          THEN None ELSE g.bindings[s]
      /\ h.runtimes = g.runtimes
  BY <1>1
<1>3. \A i \in Identity : Cardinality(ids \cap R!LeasesOf(g, i)) \in Nat
  <2>. TAKE i \in Identity
  <2>1. ids \cap R!LeasesOf(g, i) \in SUBSET WorkspaceLease  OBVIOUS
  <2>. QED  BY <2>1 DEF RegistryOK, Sizes
<1>4. h \in R!RegistryState
  BY SMT, <1>1, <1>3, RegistryTypes DEF R!RegistryState, R!Session, R!Binding, R!Handle, Binding, Handle
<1>5. Stays(h)  BY <1>1 DEF RegistryOK, Stays
<1>6. ASSUME NEW i \in Identity PROVE h.refcount[i] = Cardinality(R!LeasesOf(h, i))
  <2>1. R!LeasesOf(h, i) = R!LeasesOf(g, i) \ ids  BY SMT, <1>2 DEF R!LeasesOf
  <2>2. Cardinality(R!LeasesOf(g, i) \ ids)
          = Cardinality(R!LeasesOf(g, i)) - Cardinality(R!LeasesOf(g, i) \cap ids)
    <3>1. R!LeasesOf(g, i) \in SUBSET WorkspaceLease /\ ids \in SUBSET WorkspaceLease
      BY DEF R!LeasesOf
    <3>. HIDE DEF ids
    <3>. QED  BY <3>1 DEF RegistryOK, Sizes
  <2>3. R!LeasesOf(g, i) \cap ids = ids \cap R!LeasesOf(g, i)  OBVIOUS
  <2>4. h.refcount[i] = g.refcount[i] - Cardinality(ids \cap R!LeasesOf(g, i))  BY <1>1
  <2>. QED  BY <2>1, <2>2, <2>3, <2>4 DEF RegistryOK, Counted
<1>7. RegistryOK(h)  BY <1>4, <1>5, <1>6 DEF RegistryOK, Counted
<1>8. \A w \in WorkspaceLease : h.leases[w] = IF w \in {b.id : b \in bs} THEN None ELSE g.leases[w]
  BY SMT, <1>2
<1>9. \A s \in Lease : g.bindings[s] # None =>
        (g.bindings[s].id \in ids <=> g.bindings[s].id \in {b.id : b \in bs})
  BY BackedId DEF Backs
<1>. QED  BY <1>2, <1>7, <1>8, <1>9 DEF Shrinks, h

\* The runtimes a sweep takes out of the registry.
LEMMA RetireAllShrinks ==
    ASSUME NEW g, RegistryOK(g), NEW X \in SUBSET Identity, \A i \in X : g.refcount[i] = 0, NEW h,
           h = [g EXCEPT !.runtimes = [i \in Identity |-> IF i \in X THEN None ELSE g.runtimes[i]]]
    PROVE  Shrinks(g, h, {}, X)
<1>. DEFINE rs == [i \in Identity |-> IF i \in X THEN None ELSE g.runtimes[i]]
<1>1. /\ g.runtimes \in [Identity -> Runtime \cup {None}]
      /\ g.leases \in [WorkspaceLease -> Handle \cup {None}]
  BY RegistryTypes
<1>2. h = [runtimes |-> rs, refcount |-> g.refcount, leases |-> g.leases, bindings |-> g.bindings]
  BY SMT, RegistryTypes
<1>3. rs \in [Identity -> Runtime \cup {None}] /\ \A i \in Identity \ X : rs[i] = g.runtimes[i]
  BY <1>1
<1>. HIDE DEF rs
<1>4. \A i \in X : R!LeasesOf(g, i) = {}
  <2>. TAKE i \in X
  <2>1. R!LeasesOf(g, i) \in SUBSET WorkspaceLease  BY DEF R!LeasesOf
  <2>. QED  BY <2>1 DEF RegistryOK, Counted, Sizes
<1>5. h \in R!RegistryState
  <2>1. g \in R!RegistryState  BY DEF RegistryOK
  <2>. QED  BY SMT, <1>2, <1>3, <2>1 DEF R!RegistryState
<1>6. Stays(h)
  <2>. SUFFICES ASSUME NEW w \in WorkspaceLease, g.leases[w] # None
                PROVE  rs[g.leases[w].identity] = g.leases[w].runtime
    BY SMT, <1>2 DEF Stays
  <2>1. g.leases[w].identity \in Identity /\ w \in R!LeasesOf(g, g.leases[w].identity)
    BY <1>1 DEF Handle, R!LeasesOf
  <2>2. g.leases[w].identity \notin X  BY <1>4, <2>1
  <2>. QED  BY <1>3, <2>1, <2>2 DEF RegistryOK, Stays
<1>7. Counted(h)
  <2>1. \A j \in Identity : R!LeasesOf(h, j) = R!LeasesOf(g, j)  BY <1>2 DEF R!LeasesOf
  <2>. QED  BY <1>2, <2>1 DEF RegistryOK, Counted
<1>. QED  BY <1>2, <1>5, <1>6, <1>7 DEF Shrinks, RegistryOK, rs

\* commit_activation publishes the candidate and releases the lease it replaces.
LEMMA CommitEffect ==
    ASSUME NEW g, RegistryOK(g), NEW p \in Prepared
    PROVE  LET h == R!Commit(g, p)
           IN  /\ RegistryOK(h) /\ h.runtimes = g.runtimes
               /\ h.bindings = [g.bindings EXCEPT ![p.session] = p.binding]
               /\ h.leases = IF p.expected # None /\ p.provisional
                             THEN [g.leases EXCEPT ![p.expected.id] = None] ELSE g.leases
<1>. DEFINE bs == [g.bindings EXCEPT ![p.session] = p.binding]
            h == [g EXCEPT !.bindings = bs]
<1>1. /\ p.session \in Lease /\ p.binding \in Binding
      /\ p.expected # None => p.expected.id \in WorkspaceLease
  BY DEF Prepared, Session, Binding
<1>2. bs \in [Lease -> Binding \cup {None}]  BY <1>1, RegistryTypes
<1>3. RegistryOK(h) /\ h.leases = g.leases /\ h.runtimes = g.runtimes /\ h.bindings = bs
  BY <1>2, RebindFields
<1>4. R!Commit(g, p) = IF p.expected # None /\ p.provisional
                       THEN R!ReleaseLocked(h, p.expected.id) ELSE h
  BY DEF R!Commit, R!Bind
<1>5. bs = [g.bindings EXCEPT ![p.session] = p.binding]  OBVIOUS
<1>. HIDE DEF bs, h
<1>6. CASE p.expected # None /\ p.provisional
  <2>1. PICK w \in WorkspaceLease : w = p.expected.id  BY <1>1, <1>6
  <2>2. /\ RegistryOK(R!ReleaseLocked(h, w)) /\ R!ReleaseLocked(h, w).runtimes = h.runtimes
        /\ R!ReleaseLocked(h, w).bindings = h.bindings
        /\ R!ReleaseLocked(h, w).leases = [h.leases EXCEPT ![w] = None]
    BY <1>3, ReleaseCore, ReleaseLockedFields
  <2>. QED  BY <1>3, <1>4, <1>5, <1>6, <2>1, <2>2
<1>7. CASE ~(p.expected # None /\ p.provisional)
  BY <1>3, <1>4, <1>5, <1>7
<1>. QED  BY <1>6, <1>7

-----------------------------------------------------------------------------

\* The program points at which a coroutine owns the binding lock across an await,
\* and those at which it has an activation prepared.
Holding == {"prepare", "refresh", "commit", "rebind"}
Preparing == {"refresh", "commit", "rebind"}

Exclusive == \A t \in Task : task[t].pc \in Holding => lockQ # <<>> /\ Head(lockQ) = t

StopTurns ==
    \A t \in Task :
        /\ task[t].pc = "stopping" => stopQ # <<>> /\ Head(stopQ) = t
        /\ task[t].pc = "stopwait" => \E n \in 1..Len(stopQ) : stopQ[n] = t

\* A coroutine in service has a job; an activation works for a lease that was issued.
JobOK(t) ==
    /\ task[t].pc \in Holding \cup {"resolve", "lock"} => task[t].job \in Job
    /\ task[t].pc \in Holding \cup {"resolve"} => task[t].job.kind = "activate"
    /\ (task[t].pc \in Holding \cup {"resolve", "lock"} /\ task[t].job.kind = "activate")
          => task[t].job.lease \in issued
    /\ task[t].prep # None <=> task[t].pc \in Preparing

\* The binding of session s goes through workspace lease w.
Bound(s, w) == reg.bindings[s] # None /\ reg.bindings[s].id = w

\* What an activation has prepared: its lease is registered, a runtime it created
\* is unknown to the lifecycle, and a candidate without a lease of its own is the
\* binding it expects, in another subdirectory.
PreparedOK(t) ==
    LET p == task[t].prep
    IN  /\ p.session = task[t].job.lease
        /\ reg.leases[p.binding.id] = R!HandleOf(p.binding)
        /\ p.created => p.provisional /\ workspaces[p.binding.identity] = None
        /\ ~p.provisional => /\ p.expected # None /\ p.expected.id = p.binding.id
                             /\ R!HandleOf(p.expected) = R!HandleOf(p.binding)
        /\ p.session \in active => binding[p.session] = p.expected

\* Until it is committed, the registry has the expected binding and nobody uses the
\* candidate's own lease; afterwards the candidate is the binding and the lease of
\* the one it replaced is gone.
Uncommitted(t) ==
    LET p == task[t].prep
    IN  /\ reg.bindings[p.session] = p.expected
        /\ p.provisional => /\ \A s \in Lease : ~Bound(s, p.binding.id)
                            /\ \A b \in Binding : Cleaning(b) => b.id # p.binding.id

Committed(t) ==
    LET p == task[t].prep
    IN  /\ reg.bindings[p.session] = p.binding
        /\ (p.provisional /\ p.expected # None) => reg.leases[p.expected.id] = None

ActivationOK(t) ==
    /\ task[t].pc \in Preparing => PreparedOK(t)
    /\ task[t].pc \in {"refresh", "commit"} => Uncommitted(t)
    /\ task[t].pc = "rebind" => Committed(t)

\* Every binding has a lease of its own, every lease a binding or a candidate.
Backed ==
    /\ \A s \in Lease : reg.bindings[s] # None =>
          s \in issued /\ reg.leases[reg.bindings[s].id] = R!HandleOf(reg.bindings[s])
    /\ \A s, u \in Lease, w \in WorkspaceLease : Bound(s, w) /\ Bound(u, w) => s = u
    /\ \A w \in WorkspaceLease : reg.leases[w] # None =>
          \/ \E s \in Lease : Bound(s, w)
          \/ \E t \in Task : /\ task[t].pc \in {"refresh", "commit"} /\ task[t].prep.provisional
                             /\ task[t].prep.binding.id = w

\* A clean-up that waits for the lock will take nothing from an active lease.
CleaningSafe ==
    \A b \in Binding, s \in Lease : Cleaning(b) /\ Bound(s, b.id) => s \notin active

RuntimesDistinct ==
    \A i, j \in Identity : reg.runtimes[i] # None /\ reg.runtimes[i] = reg.runtimes[j] => i = j

StoppedUnregistered == \A i \in Identity : reg.runtimes[i] \notin GivenUp

Inv ==
    /\ TypeOK /\ LifecycleOK /\ RegistryOK(reg)
    /\ Exclusive /\ StopTurns
    /\ \A t \in Task : JobOK(t) /\ ActivationOK(t)
    /\ Backed /\ TablesAgree /\ CleaningSafe
    /\ WarmRuntimeRegistered /\ RuntimesDistinct /\ StoppedUnregistered

-----------------------------------------------------------------------------
\* What the kind of a job says about its fields.
LEMMA JobType ==
    ASSUME NEW j \in Job
    PROVE  /\ j.kind = "activate" => j.lease \in Lease /\ j.identity \in Identity /\ j.subdir \in Subdir
           /\ j.kind \in {"release_lease", "release_workspace"} => j.lease \in Lease /\ j.immediate \in BOOLEAN
           /\ j.kind = "clean" => j.binding \in Binding \cup {None}
BY DEF Job

\* The fields of a binding (WorkspaceBinding).
LEMMA BindingType ==
    ASSUME NEW b \in Binding
    PROVE  /\ b # None /\ b.id \in WorkspaceLease /\ b.identity \in Identity /\ b.runtime \in Runtime
           /\ R!HandleOf(b) # None
           /\ R!HandleOf(b).identity = b.identity /\ R!HandleOf(b).runtime = b.runtime
BY SMT, NoneAssumption, RegistryAssumption DEF Binding, R!HandleOf, Handle

\* The fields of what prepare_activation returns (PreparedActivation).
LEMMA PreparedType ==
    ASSUME NEW p \in Prepared
    PROVE  /\ p # None /\ p.session \in Lease /\ p.expected \in Binding \cup {None}
           /\ p.binding \in Binding /\ p.provisional \in BOOLEAN /\ p.created \in BOOLEAN
BY RegistryAssumption DEF Prepared, Session

\* The types that the other lemmas use, in one place.
Types ==
    /\ active \subseteq Lease /\ issued \subseteq Lease
    /\ binding \in [Lease -> Binding \cup {None}]
    /\ workspaces \in [Identity -> WorkspaceState \cup {None}]
    /\ reg.runtimes \in [Identity -> Runtime \cup {None}]
    /\ reg.leases \in [WorkspaceLease -> Handle \cup {None}]
    /\ reg.bindings \in [Lease -> Binding \cup {None}]
    /\ \A l \in Lease \ active : binding[l] = None
    /\ active \subseteq issued
    /\ \A w \in WorkspaceLease : reg.leases[w] # None =>
          reg.runtimes[reg.leases[w].identity] = reg.leases[w].runtime
    /\ task \in [Task -> Local] /\ lockQ \in Seq(Task) /\ stopQ \in Seq(Task)
    /\ pending \subseteq Runtime

\* The invariant gives the types the steps below need.
LEMMA InvTypes == Inv => Types
<1>. SUFFICES ASSUME Inv PROVE Types  OBVIOUS
<1>1. /\ L!TypeOK /\ reg \in R!RegistryState /\ task \in [Task -> Local]
      /\ lockQ \in Seq(Task) /\ stopQ \in Seq(Task) /\ pending \subseteq Runtime
  BY DEF Inv, TypeOK
<1>2. LifecycleOK /\ RegistryOK(reg)  BY DEF Inv
<1>3. /\ active \subseteq Lease /\ issued \subseteq Lease
      /\ binding \in [Lease -> Binding \cup {None}]
      /\ workspaces \in [Identity -> WorkspaceState \cup {None}]
  BY <1>1 DEF L!TypeOK, L!Binding, Binding, L!WorkspaceState, WorkspaceState, L!NoDeadline, NoDeadline
<1>4. /\ reg.runtimes \in [Identity -> Runtime \cup {None}]
      /\ reg.leases \in [WorkspaceLease -> Handle \cup {None}]
      /\ reg.bindings \in [Lease -> Binding \cup {None}]
  BY <1>1 DEF R!RegistryState, R!Session, R!Binding, R!Handle, Binding, Handle
<1>5. (\A l \in Lease \ active : binding[l] = None) /\ active \subseteq issued
  BY <1>2 DEF LifecycleOK
<1>6. Stays(reg)  BY <1>2 DEF RegistryOK
<1>. QED  BY <1>1, <1>3, <1>4, <1>5, <1>6 DEF Types, Stays

\* Where the binding lock is free of an activation, nothing is prepared.
LEMMA OneHolder ==
    ASSUME Inv, NEW t \in Task, Head(lockQ) = t
    PROVE  \A u \in Task \ {t} : task[u].pc \notin Holding
BY DEF Inv, Exclusive

\* What a coroutine looks like once it has left the binding lock.
Away(t) == task[t].pc \in {"idle", "stopwait", "stopping", "replied"} /\ task[t].prep = None

\* The locals of a coroutine that is about to start, and of one that stops runtimes.
LEMMA IdleType ==
    ASSUME NEW a \in PC, NEW j \in Job \cup {None}
    PROVE  /\ Idle \in Local /\ Idle.pc = "idle" /\ Idle.prep = None /\ Idle.own = {}
           /\ At(a, j) \in Local /\ At(a, j).pc = a /\ At(a, j).job = j
           /\ At(a, j).prep = None /\ At(a, j).own = {}
<1>1. Idle \in Local /\ Idle.pc = "idle" /\ Idle.prep = None /\ Idle.own = {}
  BY DEF Idle, Local, PC
<1>2. /\ At(a, j) \in Local /\ At(a, j).pc = a /\ At(a, j).job = j
      /\ At(a, j).prep = None /\ At(a, j).own = {}
  BY <1>1 DEF At, Local
<1>. QED  BY <1>1, <1>2

Stopper(a, o, d) == [Idle EXCEPT !.pc = a, !.own = o, !.decided = d]

\* The locals of a coroutine in _stop_runtimes.
LEMMA StopperType ==
    ASSUME NEW a \in PC, NEW o \in SUBSET Runtime, NEW d \in Runtime \cup {None}
    PROVE  /\ Stopper(a, o, d) \in Local /\ Stopper(a, o, d).pc = a
           /\ Stopper(a, o, d).prep = None /\ Stopper(a, o, d).own = o
BY DEF Stopper, Idle, Local, PC

\* The locals of a coroutine whose call has returned.
LEMMA ReturnedType ==
    ASSUME NEW t, NEW decided \in Runtime \cup {None}, NEW ok \in BOOLEAN
    PROVE  /\ Returned(t, decided, ok) \in Local /\ Returned(t, decided, ok).own = {}
           /\ Returned(t, decided, ok).prep = None
           /\ Returned(t, decided, ok).pc \in {"idle", "replied"}
<1>1. "replied" \in PC  BY DEF PC
<1>2. CASE decided = None  BY <1>2 DEF Returned, Idle, Local, PC
<1>3. CASE decided # None
  <2>1. Returned(t, decided, ok) = [Idle EXCEPT !.pc = "replied", !.decided = decided, !.stopped = ok]
    BY <1>3 DEF Returned
  <2>2. Returned(t, decided, ok) = [pc |-> "replied", job |-> None, prep |-> None, own |-> {},
                                    decided |-> decided, stopped |-> ok]
    BY <2>1 DEF Idle
  <2>. QED  BY SMT, <1>1, <2>2 DEF Local
<1>. QED  BY <1>2, <1>3

-----------------------------------------------------------------------------
\* The stop lock passes to the next waiter.
LEMMA TailTurns ==
    ASSUME Types, StopTurns, NEW t \in Task, stopQ # <<>>, Head(stopQ) = t,
           stopQ' = Tail(stopQ), task'[t].pc \notin {"stopping", "stopwait"},
           \A u \in Task \ {t} : task'[u] = task[u]
    PROVE  StopTurns' /\ stopQ' \in Seq(Task)
<1>. stopQ \in Seq(Task)  BY DEF Types
<1>1. stopQ' \in Seq(Task)  BY SMT
<1>2. ASSUME NEW u \in Task, task'[u].pc = "stopping" PROVE FALSE
  <2>1. u # t /\ task[u].pc = "stopping"  BY <1>2
  <2>. QED  BY <2>1 DEF StopTurns
<1>3. ASSUME NEW u \in Task, task'[u].pc = "stopwait"
      PROVE  \E n \in 1..Len(stopQ') : stopQ'[n] = u
  <2>1. u # t /\ task[u].pc = "stopwait"  BY <1>3
  <2>2. PICK n \in 1..Len(stopQ) : stopQ[n] = u  BY <2>1 DEF StopTurns
  <2>3. n # 1  BY SMT, <2>1, <2>2
  <2>4. n - 1 \in 1..Len(stopQ') /\ stopQ'[n - 1] = u  BY SMT, <2>2, <2>3
  <2>. QED  BY <2>4
<1>. QED  BY <1>1, <1>2, <1>3 DEF StopTurns

\* The stop lock stays with its holder, and t may queue behind it.
LEMMA AppendTurns ==
    ASSUME Types, StopTurns, NEW t \in Task, stopQ # <<>>, stopQ' = Append(stopQ, t),
           task'[t].pc = "stopwait", \A u \in Task \ {t} : task'[u] = task[u]
    PROVE  StopTurns' /\ stopQ' \in Seq(Task)
<1>. stopQ \in Seq(Task)  BY DEF Types
<1>1. /\ stopQ' \in Seq(Task) /\ stopQ' # <<>> /\ Head(stopQ') = Head(stopQ)
      /\ Len(stopQ') = Len(stopQ) + 1 /\ stopQ'[Len(stopQ) + 1] = t
      /\ \A n \in 1..Len(stopQ) : stopQ'[n] = stopQ[n]
  BY SMT
<1>2. ASSUME NEW u \in Task, task'[u].pc = "stopping" PROVE stopQ' # <<>> /\ Head(stopQ') = u
  <2>1. u # t /\ task[u].pc = "stopping"  BY <1>2
  <2>. QED  BY <1>1, <2>1 DEF StopTurns
<1>3. ASSUME NEW u \in Task, task'[u].pc = "stopwait"
      PROVE  \E n \in 1..Len(stopQ') : stopQ'[n] = u
  <2>1. CASE u = t  BY SMT, <1>1, <2>1
  <2>2. CASE u # t
    <3>1. PICK n \in 1..Len(stopQ) : stopQ[n] = u  BY <1>3, <2>2 DEF StopTurns
    <3>. QED  BY SMT, <1>1, <3>1
  <2>. QED  BY <2>1, <2>2
<1>. QED  BY <1>1, <1>2, <1>3 DEF StopTurns

\* What _stop_runtimes does to the coroutine that has the stop lock.
LEMMA MergeEffect ==
    ASSUME Types, NEW t \in Task, NEW own \in SUBSET Runtime, NEW decided \in Runtime \cup {None},
           NEW queue, MergeStops(t, own, decided, queue)
    PROVE  /\ task' \in [Task -> Local] /\ pending' = pending \cup own
           /\ \A u \in Task \ {t} : task'[u] = task[u]
           /\ task'[t].prep = None /\ task'[t].own \subseteq own
           /\ \/ task'[t].pc \in {"idle", "replied"} /\ stopQ' = Tail(queue)
              \/ task'[t].pc = "stopping" /\ stopQ' = queue
<1>. task \in [Task -> Local] /\ "stopping" \in PC  BY DEF Types, PC
<1>1. CASE pending \cup own = {}
  <2>1. /\ pending' = pending \cup own /\ stopQ' = Tail(queue)
        /\ task' = [task EXCEPT ![t] = Returned(t, decided, TRUE)]
    BY <1>1 DEF MergeStops
  <2>2. /\ Returned(t, decided, TRUE) \in Local /\ Returned(t, decided, TRUE).own = {}
        /\ Returned(t, decided, TRUE).prep = None
        /\ Returned(t, decided, TRUE).pc \in {"idle", "replied"}
    BY ReturnedType
  <2>. QED  BY <2>1, <2>2
<1>2. CASE pending \cup own # {}
  <2>. DEFINE e == Stopper("stopping", own, decided)
  <2>1. /\ pending' = pending \cup own /\ stopQ' = queue /\ task' = [task EXCEPT ![t] = e]
    BY <1>2 DEF MergeStops, Stopper
  <2>2. e \in Local /\ e.pc = "stopping" /\ e.prep = None /\ e.own = own
    BY SMT, StopperType
  <2>. HIDE DEF e
  <2>. QED  BY <2>1, <2>2
<1>. QED  BY <1>1, <1>2

\* A coroutine that leaves the binding lock goes on to stop runtimes, its own first
\* of all, and holds nothing prepared any more.
LEMMA LeaveLockEffect ==
    ASSUME Types, StopTurns, NEW t \in Task, NEW own \in SUBSET Runtime,
           NEW decided \in Runtime \cup {None}, LeaveLock(t, own, decided), lockQ # <<>>
    PROVE  /\ task' \in [Task -> Local] /\ stopQ' \in Seq(Task) /\ pending' \subseteq Runtime
           /\ lockQ' \in Seq(Task) /\ StopTurns'
           /\ \A u \in Task \ {t} : task'[u] = task[u]
           /\ Away(t)' /\ GivenUp' \subseteq GivenUp \cup own
<1>. /\ task \in [Task -> Local] /\ stopQ \in Seq(Task) /\ pending \subseteq Runtime
     /\ lockQ \in Seq(Task) /\ "stopwait" \in PC
  BY DEF Types, PC
<1>1. lockQ' \in Seq(Task)  BY SMT DEF LeaveLock
<1>2. CASE stopQ = <<>>
  <2>1. MergeStops(t, own, decided, <<t>>)  BY <1>2 DEF LeaveLock
  <2>2. /\ task' \in [Task -> Local] /\ pending' = pending \cup own
        /\ \A u \in Task \ {t} : task'[u] = task[u]
        /\ task'[t].prep = None /\ task'[t].own \subseteq own
        /\ \/ task'[t].pc \in {"idle", "replied"} /\ stopQ' = Tail(<<t>>)
           \/ task'[t].pc = "stopping" /\ stopQ' = <<t>>
    BY <2>1, MergeEffect
  <2>3. \A u \in Task : task[u].pc \notin {"stopping", "stopwait"}  BY SMT, <1>2 DEF StopTurns
  <2>8. Tail(<<t>>) = <<>> /\ <<t>> \in Seq(Task) /\ Head(<<t>>) = t /\ <<t>> # <<>>
        /\ <<>> \in Seq(Task)
    BY SMT
  <2>4. stopQ' \in Seq(Task) /\ (task'[t].pc = "stopping" => stopQ' # <<>> /\ Head(stopQ') = t)
    BY <2>2, <2>8
  <2>5. StopTurns'  BY <2>2, <2>3, <2>4 DEF StopTurns
  <2>6. Away(t)'  BY <2>2 DEF Away
  <2>7. GivenUp' \subseteq GivenUp \cup own  BY <2>2 DEF GivenUp
  <2>. QED  BY <1>1, <2>2, <2>4, <2>5, <2>6, <2>7
<1>3. CASE stopQ # <<>>
  <2>. DEFINE e == Stopper("stopwait", own, decided)
  <2>1. stopQ' = Append(stopQ, t) /\ task' = [task EXCEPT ![t] = e] /\ pending' = pending
    BY <1>3 DEF LeaveLock, Stopper
  <2>2. e \in Local /\ e.pc = "stopwait" /\ e.prep = None /\ e.own = own
    BY SMT, StopperType
  <2>. HIDE DEF e
  <2>3. /\ task' \in [Task -> Local] /\ \A u \in Task \ {t} : task'[u] = task[u]
        /\ task'[t].pc = "stopwait" /\ task'[t].prep = None /\ task'[t].own = own
    BY <2>1, <2>2
  <2>4. StopTurns' /\ stopQ' \in Seq(Task)  BY <1>3, <2>1, <2>3, AppendTurns
  <2>5. Away(t)'  BY <2>3 DEF Away
  <2>6. GivenUp' \subseteq GivenUp \cup own  BY SMT, <2>1, <2>3 DEF GivenUp
  <2>. QED  BY <1>1, <2>1, <2>3, <2>4, <2>5, <2>6
<1>. QED  BY <1>2, <1>3

-----------------------------------------------------------------------------
\* Where a coroutine has the lock and is not between commit and rebind, every active
\* lease has the same binding in both tables, and no two leases share an id.
LEMMA TablesEqual ==
    ASSUME Inv, NEW t \in Task, Head(lockQ) = t, NEW l \in Lease,
           task[t].pc = "rebind" => l # task[t].job.lease
    PROVE  /\ reg.bindings[l] = binding[l] \/ (l \notin active /\ Cleaning(reg.bindings[l]))
           /\ binding[l] # None => l \in active /\ reg.bindings[l] = binding[l]
<1>1. Types  BY InvTypes
<1>2. ~Publishing(l)  BY OneHolder DEF Publishing, Holding
<1>3. reg.bindings[l] = binding[l] \/ (l \notin active /\ Cleaning(reg.bindings[l]))
  BY <1>2 DEF Inv, TablesAgree
<1>. QED  BY <1>1, <1>3 DEF Types

\* No two sessions are bound through one lease.
LEMMA OneBindingPerId ==
    ASSUME Inv, NEW t \in Task, Head(lockQ) = t, NEW l \in Lease, NEW m \in Lease,
           task[t].pc # "rebind", binding[l] # None, binding[m] # None,
           binding[l].id = binding[m].id
    PROVE  l = m
<1>1. Types  BY InvTypes
<1>2. reg.bindings[l] = binding[l] /\ reg.bindings[m] = binding[m]  BY TablesEqual
<1>3. binding[l] \in Binding  BY <1>1 DEF Types
<1>4. binding[l].id \in WorkspaceLease  BY <1>3, BindingType
<1>. QED  BY SMT, <1>2, <1>4 DEF Inv, Backed, Bound

\* How a handler that ends under the lock treats the leases W and the runtimes of X:
\* it gives up only runtimes of X; the lifecycle loses the bindings through W, as
\* the registry does, but for the lease t has just rebound; and W has the lease t was
\* to clean up, or the candidate t has not committed.
GivesUp(own, X) == \A r \in own : \E i \in Identity : i \in X /\ reg.runtimes[i] = r

Follows(t, W) ==
    \A l \in Lease :
        \/ /\ task[t].pc = "rebind" /\ l = task[t].job.lease
           /\ reg'.bindings[l] = binding'[l]
        \/ /\ task[t].pc = "rebind" => l # task[t].job.lease
           /\ binding'[l] = IF binding[l] # None /\ binding[l].id \in W THEN None ELSE binding[l]

Covers(t, W) ==
    /\ (task[t].pc = "lock" /\ task[t].job.kind = "clean" /\ task[t].job.binding # None)
          => task[t].job.binding.id \in W
    /\ (task[t].pc \in {"refresh", "commit"} /\ task[t].prep.provisional)
          => task[t].prep.binding.id \in W

\* The stops a coroutine takes on when it leaves the lock are of runtimes it has just
\* taken out of the registry.
LEMMA FinishRuntimes ==
    ASSUME Inv, NEW own \in SUBSET Runtime, NEW W, NEW X,
           Shrinks(reg, reg', W, X), \A r \in GivenUp' : r \in GivenUp \/ r \in own,
           GivesUp(own, X)
    PROVE  RuntimesDistinct' /\ StoppedUnregistered'
<1>1. Types /\ RuntimesDistinct /\ StoppedUnregistered  BY InvTypes DEF Inv
<1>2. \A i \in Identity : reg'.runtimes[i] = IF i \in X THEN None ELSE reg.runtimes[i]
  BY DEF Shrinks
<1>3. GivenUp \subseteq Runtime
  <2>1. \A u \in Task : task[u].own \subseteq Runtime  BY <1>1 DEF Types, Local
  <2>. QED  BY SMT, <1>1, <2>1 DEF Types, GivenUp
<1>4. ASSUME NEW i \in Identity, reg'.runtimes[i] \in GivenUp' PROVE FALSE
  <2>1. reg'.runtimes[i] \in Runtime  BY <1>3, <1>4
  <2>2. i \notin X /\ reg'.runtimes[i] = reg.runtimes[i]  BY <1>2, <2>1, NoneAssumption
  <2>3. reg.runtimes[i] \in own  BY <1>1, <1>4, <2>2 DEF StoppedUnregistered
  <2>4. PICK j \in Identity : j \in X /\ reg.runtimes[j] = reg.runtimes[i]  BY <2>3 DEF GivesUp
  <2>5. reg.runtimes[i] # None  BY <2>1, <2>2, NoneAssumption
  <2>. QED  BY <1>1, <2>2, <2>4, <2>5 DEF RuntimesDistinct
<1>5. RuntimesDistinct'  BY <1>1, <1>2 DEF RuntimesDistinct
<1>. QED  BY <1>4, <1>5 DEF StoppedUnregistered

\* The tables after a coroutine has released the leases W under the lock.
LEMMA FinishTables ==
    ASSUME Inv, NEW t \in Task, Head(lockQ) = t, NEW W, NEW X, Shrinks(reg, reg', W, X),
           LifecycleOK', active' \subseteq active, issued' = issued, Away(t)',
           \A u \in Task \ {t} : task'[u] = task[u],
           Follows(t, W), Covers(t, W)
    PROVE  TablesAgree' /\ Backed' /\ CleaningSafe'
<1>1. Types  BY InvTypes
<1>2. /\ \A w \in WorkspaceLease : reg'.leases[w] = IF w \in W THEN None ELSE reg.leases[w]
      /\ \A s \in Lease : reg'.bindings[s] = IF reg.bindings[s] # None /\ reg.bindings[s].id \in W
                                             THEN None ELSE reg.bindings[s]
  BY DEF Shrinks
<1>3. \A b : Cleaning(b)' => Cleaning(b)  BY DEF Cleaning, Away
<1>4. \A w : \A s \in Lease : Bound(s, w)' => Bound(s, w) /\ w \notin W  BY <1>2 DEF Bound
<1>5. \A s \in Lease : reg.bindings[s] # None => reg.bindings[s].id \in WorkspaceLease
  BY <1>1, BindingType DEF Types
<1>6. TablesAgree'
  <2>. SUFFICES ASSUME NEW l \in Lease
                PROVE  \/ reg'.bindings[l] = binding'[l]
                       \/ l \notin active' /\ Cleaning(reg.bindings[l])'
                          /\ reg'.bindings[l] = reg.bindings[l]
    BY DEF TablesAgree, Cleaning
  <2>1. CASE task[t].pc = "rebind" /\ l = task[t].job.lease  BY <2>1 DEF Follows
  <2>2. CASE ~(task[t].pc = "rebind" /\ l = task[t].job.lease)
    <3>1. binding'[l] = IF binding[l] # None /\ binding[l].id \in W THEN None ELSE binding[l]
      BY <2>2 DEF Follows
    <3>2. reg.bindings[l] = binding[l] \/ (l \notin active /\ Cleaning(reg.bindings[l]))
      BY <2>2, TablesEqual
    <3>3. CASE reg.bindings[l] = binding[l]  BY <1>2, <3>1, <3>3
    <3>4. CASE l \notin active /\ Cleaning(reg.bindings[l]) /\ reg.bindings[l] # binding[l]
      <4>1. binding[l] = None /\ binding'[l] = None /\ reg.bindings[l] # None
        BY <1>1, <3>1, <3>4 DEF Types
      <4>2. CASE reg.bindings[l].id \in W  BY <1>2, <4>1, <4>2
      <4>3. CASE reg.bindings[l].id \notin W
        <5>1. PICK u \in Task : /\ task[u].pc = "lock" /\ task[u].job.kind = "clean"
                                /\ task[u].job.binding = reg.bindings[l]
          BY <3>4 DEF Cleaning
        <5>2. u # t  BY <4>1, <4>3, <5>1 DEF Covers
        <5>3. \E v \in Task : /\ task'[v].pc = "lock" /\ task'[v].job.kind = "clean"
                              /\ task'[v].job.binding = reg.bindings[l]
          BY <5>1, <5>2
        <5>4. reg'.bindings[l] = reg.bindings[l]  BY <1>2, <4>3
        <5>. QED  BY <3>4, <5>3, <5>4 DEF Cleaning
      <4>. QED  BY <4>2, <4>3
    <3>. QED  BY <3>2, <3>3, <3>4
  <2>. QED  BY <2>1, <2>2
<1>7. Backed'
  <2>1. Backed  BY DEF Inv
  <2>2. ASSUME NEW s \in Lease, reg'.bindings[s] # None
        PROVE  s \in issued' /\ reg'.leases[reg'.bindings[s].id] = R!HandleOf(reg'.bindings[s])
    <3>1. /\ reg'.bindings[s] = reg.bindings[s] /\ reg.bindings[s] # None
          /\ reg.bindings[s].id \notin W
      BY <1>2, <2>2
    <3>. QED  BY SMT, <1>2, <1>5, <2>1, <3>1 DEF Backed
  <2>3. \A s, u \in Lease, w \in WorkspaceLease : Bound(s, w)' /\ Bound(u, w)' => s = u
    BY <1>4, <2>1 DEF Backed
  <2>4. ASSUME NEW w \in WorkspaceLease, reg'.leases[w] # None
        PROVE  \E s \in Lease : Bound(s, w)'
    <3>1. w \notin W /\ reg.leases[w] # None  BY <1>2, <2>4
    <3>2. ~ \E u \in Task : /\ task[u].pc \in {"refresh", "commit"} /\ task[u].prep.provisional
                            /\ task[u].prep.binding.id = w
      BY <3>1, OneHolder DEF Holding, Covers
    <3>3. PICK s \in Lease : Bound(s, w)  BY <2>1, <3>1, <3>2 DEF Backed
    <3>4. reg'.bindings[s] # None /\ reg'.bindings[s].id = w  BY <1>2, <3>1, <3>3 DEF Bound
    <3>. QED  BY <3>4 DEF Bound
  <2>. QED  BY <2>2, <2>3, <2>4 DEF Backed
<1>8. CleaningSafe'  BY <1>3, <1>4 DEF Inv, CleaningSafe
<1>. QED  BY <1>6, <1>7, <1>8

\* Every handler that ends under the binding lock preserves the invariant, if what it
\* takes from the lifecycle and from the registry matches.
LEMMA Finish ==
    ASSUME Inv, NEW t \in Task, lockQ # <<>>, Head(lockQ) = t, NEW W, NEW X,
           NEW own \in SUBSET Runtime, NEW decided \in Runtime \cup {None},
           LeaveLock(t, own, decided), Shrinks(reg, reg', W, X),
           GivesUp(own, X),
           LifecycleOK', active' \subseteq active, issued' = issued, WarmRuntimeRegistered',
           Follows(t, W), Covers(t, W)
    PROVE  Inv'
<1>1. Types /\ StopTurns  BY InvTypes DEF Inv
<1>2. /\ task' \in [Task -> Local] /\ stopQ' \in Seq(Task) /\ pending' \subseteq Runtime
      /\ lockQ' \in Seq(Task) /\ StopTurns'
      /\ \A u \in Task \ {t} : task'[u] = task[u]
      /\ Away(t)' /\ GivenUp' \subseteq GivenUp \cup own
  BY <1>1, LeaveLockEffect
<1>3. RuntimesDistinct' /\ StoppedUnregistered'
  <2>1. \A r \in GivenUp' : r \in GivenUp \/ r \in own  BY <1>2
  <2>. QED  BY <2>1, FinishRuntimes
<1>4. TablesAgree' /\ Backed' /\ CleaningSafe'  BY <1>2, FinishTables
<1>5. RegistryOK(reg)'  BY DEF Shrinks, RegistryOK, Counted, Stays, R!LeasesOf
<1>6. TypeOK'  BY <1>2, <1>5 DEF TypeOK, LifecycleOK, RegistryOK
<1>7. \A u \in Task : task'[u].pc \notin Holding /\ (u # t => task'[u] = task[u])
  BY <1>2, OneHolder DEF Away, Holding
<1>8. Exclusive'  BY <1>7 DEF Exclusive
<1>9. \A u \in Task : JobOK(u)' /\ ActivationOK(u)'
  <2>. SUFFICES ASSUME NEW u \in Task PROVE JobOK(u)' /\ ActivationOK(u)'  OBVIOUS
  <2>1. ActivationOK(u)'  BY <1>7 DEF ActivationOK, Holding, Preparing
  <2>2. JobOK(u)'
    <3>1. CASE u = t  BY <1>2, <3>1 DEF JobOK, Away, Holding, Preparing
    <3>2. CASE u # t
      <4>1. JobOK(u)  BY DEF Inv
      <4>. QED  BY <1>7, <3>2, <4>1 DEF JobOK
    <3>. QED  BY <3>1, <3>2
  <2>. QED  BY <2>1, <2>2
<1>. QED  BY <1>2, <1>3, <1>4, <1>5, <1>6, <1>8, <1>9 DEF Inv
\* the registry, even while an activation is between commit and rebind.
LEMMA NotShared ==
    ASSUME Inv, NEW l \in active, binding[l] # None, NEW s \in Lease, Bound(s, binding[l].id)
    PROVE  s = l
<1>1. Types  BY InvTypes
<1>2. l \in Lease /\ binding[l] \in Binding  BY <1>1 DEF Types
<1>3. binding[l].id \in WorkspaceLease  BY <1>2, BindingType
<1>4. Backed  BY DEF Inv
<1>5. CASE reg.bindings[l] = binding[l]
  <2>1. Bound(l, binding[l].id)  BY <1>5 DEF Bound
  <2>. QED  BY <1>2, <1>3, <1>4, <2>1 DEF Backed
<1>6. CASE Publishing(l)
  <2>1. PICK u \in Task : task[u].pc = "rebind" /\ task[u].job.lease = l  BY <1>6 DEF Publishing
  <2>2. PreparedOK(u) /\ Committed(u)  BY <2>1 DEF Inv, ActivationOK, Preparing
  <2>. DEFINE p == task[u].prep
  <2>3. /\ p.session = l /\ binding[l] = p.expected /\ reg.bindings[l] = p.binding
        /\ ~p.provisional => p.expected.id = p.binding.id
        /\ p.provisional => reg.leases[binding[l].id] = None
    BY <2>1, <2>2 DEF PreparedOK, Committed
  <2>4. p \in Prepared
    <3>1. JobOK(u) /\ task[u] \in Local  BY <1>1 DEF Inv, Types
    <3>. QED  BY <2>1, <3>1 DEF JobOK, Preparing, Local
  <2>5. p.binding # None /\ R!HandleOf(binding[l]) # None  BY <1>2, <2>4, PreparedType, BindingType
  <2>6. CASE p.provisional
    <3>1. reg.bindings[s] # None /\ reg.bindings[s].id = binding[l].id  BY DEF Bound
    <3>2. R!HandleOf(reg.bindings[s]) # None  BY <1>1, <3>1, BindingType DEF Types
    <3>. QED  BY <1>4, <2>3, <2>6, <3>1, <3>2 DEF Backed
  <2>7. CASE ~p.provisional
    <3>1. Bound(l, binding[l].id)  BY <2>3, <2>5, <2>7 DEF Bound
    <3>. QED  BY <1>2, <1>3, <1>4, <3>1 DEF Backed
  <2>. QED  BY <2>6, <2>7
<1>. QED  BY <1>2, <1>5, <1>6 DEF Inv, TablesAgree

\* A lease that is bound holds its workspace.
LEMMA BoundHolds ==
    ASSUME Inv, NEW l \in Lease, binding[l] # None
    PROVE  /\ l \in active /\ binding[l] \in Binding /\ binding[l].identity \in Identity
           /\ workspaces[binding[l].identity] \in WorkspaceState
           /\ workspaces[binding[l].identity] # None
           /\ workspaces[binding[l].identity].runtime = binding[l].runtime
           /\ workspaces[binding[l].identity].holders = BoundTo(binding[l].identity)
<1>1. Types /\ LifecycleOK  BY InvTypes DEF Inv
<1>2. l \in active /\ binding[l] \in Binding  BY <1>1 DEF Types
<1>3. PICK i \in Identity : i = binding[l].identity  BY <1>2, BindingType
<1>4. l \in BoundTo(i)  BY <1>3 DEF BoundTo
<1>5. workspaces[i] # None /\ workspaces[i].holders = BoundTo(i)
      /\ \A m \in BoundTo(i) : binding[m].runtime = workspaces[i].runtime
  BY <1>1, <1>4 DEF LifecycleOK
<1>6. workspaces[i] \in WorkspaceState  BY <1>1, <1>5 DEF Types
<1>. QED  BY <1>2, <1>3, <1>4, <1>5, <1>6

\* the last holder leaves at once.
LEMMA RemoveEffect ==
    ASSUME Inv, NEW l \in Lease, binding[l] # None, NEW immediate \in BOOLEAN,
           NEW ws, ws = L!RemoveHolder(workspaces, l, binding[l].identity, immediate),
           NEW i \in Identity
    PROVE  /\ i # binding[l].identity => ws[i] = workspaces[i]
           /\ ws[i] # None =>
                 workspaces[i] # None /\ ws[i].runtime = workspaces[i].runtime
           /\ ~immediate => (ws[i] = None <=> workspaces[i] = None)
           /\ L!RuntimeToStop(l, immediate) \in Runtime \cup {None}
           /\ (L!RuntimeToStop(l, immediate) # None /\ i = binding[l].identity)
                 => ws[i] = None
<1>1. Types  BY InvTypes
<1>2. PICK k \in Identity : k = binding[l].identity  BY BoundHolds
<1>3. /\ workspaces[k] \in WorkspaceState /\ workspaces[k] # None
      /\ workspaces[k].runtime = binding[l].runtime
  BY <1>2, BoundHolds
<1>. DEFINE rest == workspaces[k].holders \ {l}
            new == [runtime |-> workspaces[k].runtime, holders |-> rest,
                    grace |-> IF rest = {} THEN Grace ELSE workspaces[k].grace]
<1>4. ws = [workspaces EXCEPT ![k] = IF rest = {} /\ immediate THEN None ELSE new]
  BY <1>2 DEF L!RemoveHolder
<1>5. new \in WorkspaceState /\ new.runtime = workspaces[k].runtime
  BY SMT, <1>3, IntervalAssumption DEF WorkspaceState
<1>6. new # None /\ workspaces[k].runtime \in Runtime
  BY <1>3, <1>5, NoneAssumption DEF WorkspaceState
<1>7. L!RuntimeToStop(l, immediate) = IF immediate /\ rest = {} THEN workspaces[k].runtime ELSE None
  BY <1>2 DEF L!RuntimeToStop
<1>. HIDE DEF new, rest
<1>8. /\ ws[k] = IF rest = {} /\ immediate THEN None ELSE new
      /\ i # k => ws[i] = workspaces[i]
  BY <1>1, <1>4 DEF Types
<1>. QED  BY <1>2, <1>3, <1>5, <1>6, <1>7, <1>8

\* The end of a lease that nobody has asked to stop at once.
LEMMA ExpireEffect ==
    ASSUME Inv, NEW l \in Lease, L!Expire(l)
    PROVE  /\ l \in active /\ active' = active \ {l} /\ issued' = issued
           /\ \A m \in Lease : binding'[m] = IF m = l THEN None ELSE binding[m]
           /\ \A i \in Identity :
                 /\ workspaces'[i] = None <=> workspaces[i] = None
                 /\ workspaces[i] # None => workspaces'[i].runtime = workspaces[i].runtime
<1>1. Types  BY InvTypes
<1>2. /\ l \in active /\ active' = active \ {l} /\ issued' = issued
      /\ binding' = [binding EXCEPT ![l] = None]
      /\ workspaces' = IF binding[l] = None THEN workspaces
                       ELSE L!RemoveHolder(workspaces, l, binding[l].identity, FALSE)
  BY DEF L!Expire, L!EndLease, L!Lapsed
<1>3. \A m \in Lease : binding'[m] = IF m = l THEN None ELSE binding[m]  BY <1>1, <1>2 DEF Types
<1>4. CASE binding[l] = None  BY <1>2, <1>3, <1>4
<1>5. CASE binding[l] # None
  <2>3. PICK ws : ws = workspaces'  OBVIOUS
  <2>1. ws = L!RemoveHolder(workspaces, l, binding[l].identity, FALSE)  BY <1>2, <1>5, <2>3
  <2>4. ASSUME NEW i \in Identity
        PROVE  /\ ws[i] # None => workspaces[i] # None /\ ws[i].runtime = workspaces[i].runtime
               /\ ~FALSE => (ws[i] = None <=> workspaces[i] = None)
    BY <1>5, <2>1, RemoveEffect
  <2>2. ASSUME NEW i \in Identity
        PROVE  /\ workspaces'[i] # None =>
                     workspaces[i] # None /\ workspaces'[i].runtime = workspaces[i].runtime
               /\ workspaces'[i] = None <=> workspaces[i] = None
    BY <2>3, <2>4
  <2>. QED  BY <1>2, <1>3, <2>2
<1>. QED  BY <1>4, <1>5

\* The registry of the daemon backs every binding.
LEMMA InvBacks == ASSUME Inv PROVE RegistryOK(reg) /\ Backs(reg)
<1>1. Types /\ Backed /\ RegistryOK(reg)  BY InvTypes DEF Inv
<1>2. ASSUME NEW s \in Lease, reg.bindings[s] # None
      PROVE  /\ reg.bindings[s].id \in WorkspaceLease /\ Bound(s, reg.bindings[s].id)
             /\ reg.leases[reg.bindings[s].id] # None
  <2>1. reg.bindings[s] \in Binding  BY <1>1, <1>2 DEF Types
  <2>2. reg.bindings[s].id \in WorkspaceLease /\ R!HandleOf(reg.bindings[s]) # None
    BY <2>1, BindingType
  <2>. QED  BY <1>1, <1>2, <2>2 DEF Backed, Bound
<1>. QED  BY <1>1, <1>2 DEF Backs, Backed, Bound
-----------------------------------------------------------------------------
\* A step beside the binding lock: whoever moves neither held the lock nor waited for
\* it, and the holder stays the holder.
Beside ==
    /\ \A u \in Task : \/ task'[u] = task[u]
                       \/ /\ task[u].pc \notin Holding \cup {"lock"}
                          /\ task'[u].pc \notin Holding /\ JobOK(u)'
    /\ lockQ # <<>> => lockQ' # <<>> /\ Head(lockQ') = Head(lockQ)

\* No lease is rebound and no workspace comes or goes; a lease that ends leaves its
\* binding to a clean-up, and no other clean-up is added.
Quiet ==
    /\ issued \subseteq issued'
    /\ \A l \in active \cap active' : binding'[l] = binding[l]
    /\ \A l \in active' \ active : l \notin issued /\ binding'[l] = None
    /\ \A l \in active \ active', b \in Binding : binding[l] = b => Cleaning(b)'
    /\ \A b \in Binding : Cleaning(b)' => Cleaning(b) \/ \E l \in active \ active' : binding[l] = b
    /\ \A i \in Identity : /\ workspaces'[i] = None <=> workspaces[i] = None
                           /\ workspaces[i] # None => workspaces'[i].runtime = workspaces[i].runtime

\* What the lifecycle, and with it the activation in flight, sees of such a step.
LEMMA AsideTables ==
    ASSUME Inv, LifecycleOK', reg' = reg, Beside, Quiet
    PROVE  TablesAgree' /\ Backed' /\ CleaningSafe' /\ WarmRuntimeRegistered'
<1>1. Types  BY InvTypes
<1>2. \A u \in Task : task[u].pc \in Holding \cup {"lock"} => task'[u] = task[u]  BY DEF Beside
<1>3. \A b : Cleaning(b) => Cleaning(b)'  BY <1>2 DEF Cleaning
<1>4. \A l \in Lease : Publishing(l) => Publishing(l)'  BY <1>2 DEF Publishing, Holding
<1>5. \A s \in Lease : reg.bindings[s] # None => s \in issued  BY DEF Inv, Backed
<1>6. \A l \in Lease \ active' : binding'[l] = None  BY DEF LifecycleOK
<1>7. TablesAgree'
  <2>. SUFFICES ASSUME NEW l \in Lease
                PROVE  \/ reg.bindings[l] = binding'[l]
                       \/ Publishing(l)'
                       \/ l \notin active' /\ Cleaning(reg.bindings[l])'
    BY DEF TablesAgree, Cleaning
  <2>1. CASE reg.bindings[l] = binding[l] /\ l \in active
    <3>1. CASE l \in active'  BY <2>1, <3>1 DEF Quiet
    <3>2. CASE l \notin active'
      <4>1. binding'[l] = None /\ binding[l] \in Binding \cup {None}  BY <1>1, <1>6, <3>2 DEF Types
      <4>2. ASSUME NEW b \in Binding, binding[l] = b PROVE Cleaning(reg.bindings[l])'
        <5>1. Cleaning(b)'  BY <2>1, <3>2, <4>2 DEF Quiet
        <5>. QED  BY <2>1, <4>2, <5>1 DEF Cleaning
      <4>. QED  BY <2>1, <3>2, <4>1, <4>2
    <3>. QED  BY <3>1, <3>2
  <2>2. CASE l \notin active /\ binding[l] = None /\ reg.bindings[l] = binding[l]
    BY <1>6, <2>2 DEF Quiet
  <2>3. CASE Publishing(l)  BY <1>4, <2>3
  <2>4. CASE l \notin active /\ Cleaning(reg.bindings[l]) /\ reg.bindings[l] # None
    <3>1. l \notin active'  BY <1>5, <2>4 DEF Quiet
    <3>. QED  BY <1>3, <2>4, <3>1
  <2>. QED  BY <1>1, <2>1, <2>2, <2>3, <2>4 DEF Inv, TablesAgree, Types
<1>8. Backed'
  <2>1. \A s, w : Bound(s, w)' <=> Bound(s, w)  BY DEF Bound
  <2>. QED  BY SMT, <1>2, <2>1 DEF Inv, Backed, Quiet, Holding
<1>9. CleaningSafe'
  <2>. SUFFICES ASSUME NEW b \in Binding, NEW s \in Lease, Cleaning(b)', Bound(s, b.id), s \in active'
                PROVE  FALSE
    BY DEF CleaningSafe, Bound
  <2>1. s \in active  BY <1>5 DEF Quiet, Bound
  <2>2. PICK l \in active \ active' : binding[l] = b  BY <2>1 DEF Inv, CleaningSafe, Quiet
  <2>3. b # None  BY NoneAssumption
  <2>. QED  BY <2>2, <2>3, NotShared
<1>10. WarmRuntimeRegistered'  BY DEF Inv, WarmRuntimeRegistered, Quiet
<1>. QED  BY <1>7, <1>8, <1>9, <1>10

\* A step beside the binding lock leaves the activation that holds it alone.
LEMMA AsideActivation ==
    ASSUME Inv, reg' = reg, Beside, Quiet, NEW u \in Task
    PROVE  ActivationOK(u)'
<1>1. Types  BY InvTypes
<1>2. CASE task'[u].pc \notin Holding  BY <1>2 DEF ActivationOK, Holding, Preparing
<1>3. CASE task'[u].pc \in Holding
  <2>1. task'[u] = task[u] /\ ActivationOK(u) /\ JobOK(u)  BY <1>3 DEF Beside, Inv
  <2>2. Head(lockQ) = u  BY <1>3, <2>1 DEF Inv, Exclusive
  <2>. DEFINE p == task[u].prep
  <2>3. CASE task[u].pc = "prepare"  BY <2>1, <2>3 DEF ActivationOK, Preparing
  <2>4. CASE task[u].pc \in Preparing
    <3>1. PreparedOK(u)  BY <2>1, <2>4 DEF ActivationOK
    <3>2. p \in Prepared /\ task[u].job.lease \in issued
      <4>1. task[u] \in Local  BY <1>1 DEF Types
      <4>. QED  BY <2>1, <2>4, <4>1 DEF JobOK, Local, Preparing, Holding
    <3>3. p.binding \in Binding /\ p.session \in Lease /\ p.binding.identity \in Identity
      BY <3>2, PreparedType, BindingType
    <3>4. PreparedOK(u)'
      <4>1. p.session \in active' => binding'[p.session] = p.expected
        BY <3>1, <3>2 DEF PreparedOK, Quiet
      <4>2. p.created => p.provisional /\ workspaces'[p.binding.identity] = None
        BY <3>1, <3>3 DEF PreparedOK, Quiet
      <4>. QED  BY <2>1, <3>1, <4>1, <4>2 DEF PreparedOK
    <3>5. CASE task[u].pc = "rebind"
      <4>1. Committed(u)  BY <2>1, <3>5 DEF ActivationOK
      <4>2. Committed(u)'  BY <2>1, <4>1 DEF Committed
      <4>. QED  BY <2>1, <3>4, <3>5, <4>2 DEF ActivationOK
    <3>6. CASE task[u].pc \in {"refresh", "commit"}
      <4>1. Uncommitted(u)  BY <2>1, <3>6 DEF ActivationOK
      <4>2. ASSUME p.provisional, NEW b \in Binding, Cleaning(b)', b.id = p.binding.id
            PROVE  FALSE
        <5>1. ~Cleaning(b)  BY <4>1, <4>2 DEF Uncommitted
        <5>2. PICK l \in active : binding[l] = b  BY <4>2, <5>1 DEF Quiet
        <5>3. l \in Lease /\ b # None  BY <1>1, NoneAssumption DEF Types
        <5>4. reg.bindings[l] = b  BY <2>2, <3>6, <5>2, <5>3, TablesEqual
        <5>. QED  BY <4>1, <4>2, <5>3, <5>4 DEF Uncommitted, Bound
      <4>3. Uncommitted(u)'  BY <2>1, <4>1, <4>2 DEF Uncommitted, Bound
      <4>. QED  BY <2>1, <3>4, <3>6, <4>3 DEF ActivationOK
    <3>. QED  BY <2>4, <3>5, <3>6 DEF Preparing
  <2>. QED  BY <1>3, <2>1, <2>3, <2>4 DEF Holding, Preparing
<1>. QED  BY <1>2, <1>3

\* Every step beside the lock preserves the invariant.
LEMMA Aside ==
    ASSUME Inv, LifecycleOK', reg' = reg, Beside, Quiet, StopTurns',
           task' \in [Task -> Local], lockQ' \in Seq(Task), stopQ' \in Seq(Task),
           pending' \subseteq Runtime, GivenUp' \subseteq GivenUp
    PROVE  Inv'
<1>1. TablesAgree' /\ Backed' /\ CleaningSafe' /\ WarmRuntimeRegistered'  BY AsideTables
<1>2. \A u \in Task : ActivationOK(u)'  BY AsideActivation
<1>3. RegistryOK(reg)'  BY DEF Inv, RegistryOK, Counted, Stays, R!LeasesOf
<1>4. TypeOK'  BY <1>3 DEF TypeOK, LifecycleOK, RegistryOK
<1>5. Exclusive'  BY DEF Inv, Exclusive, Beside
<1>6. ASSUME NEW u \in Task PROVE JobOK(u)'
  <2>1. CASE task'[u] = task[u]
    <3>1. JobOK(u)  BY DEF Inv
    <3>. QED  BY <2>1, <3>1 DEF JobOK, Quiet
  <2>. QED  BY <2>1 DEF Beside
<1>7. RuntimesDistinct' /\ StoppedUnregistered'
  BY DEF Inv, RuntimesDistinct, StoppedUnregistered
<1>. QED  BY <1>1, <1>2, <1>3, <1>4, <1>5, <1>6, <1>7 DEF Inv

-----------------------------------------------------------------------------
\* The registry, the lifecycle and the queued clean-ups stay as they are.
LEMMA NothingNew ==
    ASSUME Types, UNCHANGED lifecycle, \A b \in Binding : Cleaning(b)' => Cleaning(b)
    PROVE  Quiet
BY DEF lifecycle, Quiet

\* A coroutine that waits for nothing takes new locals e.
LEMMA MoveEffect ==
    ASSUME Inv, NEW t \in Task, task[t].pc \notin {"lock", "stopwait", "stopping"} \cup Holding,
           NEW e \in Local, task' = [task EXCEPT ![t] = e], e.own = {}, UNCHANGED stops,
           e.pc \notin {"stopwait", "stopping"}
    PROVE  /\ task' \in [Task -> Local] /\ StopTurns' /\ stopQ' \in Seq(Task)
           /\ pending' \subseteq Runtime /\ GivenUp' \subseteq GivenUp
           /\ task'[t] = e /\ \A u \in Task \ {t} : task'[u] = task[u]
<1>1. Types /\ StopTurns  BY InvTypes DEF Inv
<1>2. /\ task' \in [Task -> Local] /\ task'[t] = e /\ \A u \in Task \ {t} : task'[u] = task[u]
      /\ stopQ' = stopQ /\ pending' = pending
  BY <1>1 DEF Types, stops
<1>3. StopTurns'  BY <1>1, <1>2 DEF StopTurns
<1>4. GivenUp' \subseteq GivenUp
  <2>. SUFFICES ASSUME NEW r \in GivenUp' PROVE r \in GivenUp  OBVIOUS
  <2>1. r \in pending \/ \E u \in Task : r \in task'[u].own  BY <1>2 DEF GivenUp
  <2>2. \A u \in Task : task'[u].own \subseteq task[u].own  BY <1>2
  <2>. QED  BY <2>1, <2>2 DEF GivenUp
<1>. QED  BY <1>1, <1>2, <1>3, <1>4 DEF Types

\* A coroutine queues for the binding lock.
LEMMA QueueEffect ==
    ASSUME Inv, NEW t \in Task, task[t].pc \in {"idle", "resolve"}, NEW j \in Job, Queue(t, j),
           UNCHANGED stops, j.kind = "activate" => j.lease \in issued'
    PROVE  /\ Beside /\ StopTurns' /\ GivenUp' \subseteq GivenUp
           /\ task' \in [Task -> Local] /\ lockQ' \in Seq(Task) /\ stopQ' \in Seq(Task)
           /\ pending' \subseteq Runtime
           /\ task'[t].pc = "lock" /\ task'[t].job = j
           /\ \A u \in Task \ {t} : task'[u] = task[u]
<1>1. Types  BY InvTypes
<1>2. /\ At("lock", j) \in Local /\ At("lock", j).pc = "lock" /\ At("lock", j).job = j
      /\ At("lock", j).prep = None /\ At("lock", j).own = {}
  <2>1. "lock" \in PC /\ j \in Job \cup {None}  BY DEF PC
  <2>. QED  BY SMT, <2>1, IdleType
<1>3. task' = [task EXCEPT ![t] = At("lock", j)] /\ lockQ' = Append(lockQ, t)  BY DEF Queue
<1>4. /\ task' \in [Task -> Local] /\ StopTurns' /\ stopQ' \in Seq(Task)
      /\ pending' \subseteq Runtime /\ GivenUp' \subseteq GivenUp
      /\ task'[t] = At("lock", j) /\ \A u \in Task \ {t} : task'[u] = task[u]
  BY <1>2, <1>3, MoveEffect DEF Holding
<1>5. lockQ \in Seq(Task)  BY <1>1 DEF Types
<1>6. lockQ' \in Seq(Task) /\ (lockQ # <<>> => lockQ' # <<>> /\ Head(lockQ') = Head(lockQ))
  BY SMT, <1>3, <1>5
<1>7. JobOK(t)'  BY <1>2, <1>4 DEF JobOK, Holding, Preparing
<1>8. Beside  BY <1>2, <1>4, <1>6, <1>7 DEF Beside, Holding
<1>. QED  BY <1>2, <1>4, <1>6, <1>8

\* Whoever queues without a binding to clean up changes nothing else.
LEMMA QueueKeeps ==
    ASSUME Inv, LifecycleOK', NEW t \in Task, task[t].pc \in {"idle", "resolve"}, NEW j \in Job,
           Queue(t, j), UNCHANGED <<lifecycle, reg, stops>>,
           j.kind = "activate" => j.lease \in issued,
           j.kind = "clean" => j.binding = None
    PROVE  Inv'
<1>1. Types  BY InvTypes
<1>2. reg' = reg /\ UNCHANGED lifecycle /\ UNCHANGED stops /\ issued' = issued
  BY DEF lifecycle
<1>3. j.kind = "activate" => j.lease \in issued'  BY <1>2
<1>4. /\ Beside /\ StopTurns' /\ GivenUp' \subseteq GivenUp
      /\ task' \in [Task -> Local] /\ lockQ' \in Seq(Task) /\ stopQ' \in Seq(Task)
      /\ pending' \subseteq Runtime
      /\ task'[t].pc = "lock" /\ task'[t].job = j
      /\ \A u \in Task \ {t} : task'[u] = task[u]
  BY <1>2, <1>3, QueueEffect
<1>5. \A b \in Binding : Cleaning(b)' => Cleaning(b)  BY <1>4, NoneAssumption DEF Cleaning
<1>6. Quiet  BY <1>1, <1>2, <1>5, NothingNew
<1>. QED  BY <1>2, <1>4, <1>6, Aside

\* A coroutine moves on without a lock.
LEMMA MoveKeeps ==
    ASSUME Inv, LifecycleOK', NEW t \in Task, task[t].pc \in {"idle", "resolve", "replied"},
           NEW e \in Local, task' = [task EXCEPT ![t] = e], e.own = {}, e.prep = None,
           \/ e.pc = "idle"
           \/ e.pc = "resolve" /\ e.job \in Job /\ e.job.kind = "activate" /\ e.job.lease \in issued,
           UNCHANGED <<lifecycle, reg, lockQ, stops>>
    PROVE  Inv'
<1>1. Types  BY InvTypes
<1>2. reg' = reg /\ UNCHANGED lifecycle /\ UNCHANGED stops /\ issued' = issued /\ lockQ' = lockQ
  BY DEF lifecycle
<1>3. /\ task' \in [Task -> Local] /\ StopTurns' /\ stopQ' \in Seq(Task)
      /\ pending' \subseteq Runtime /\ GivenUp' \subseteq GivenUp
      /\ task'[t] = e /\ \A u \in Task \ {t} : task'[u] = task[u]
  BY <1>2, MoveEffect DEF Holding
<1>4. \A b \in Binding : Cleaning(b)' => Cleaning(b)  BY <1>3 DEF Cleaning
<1>5. Quiet  BY <1>1, <1>2, <1>4, NothingNew
<1>6. JobOK(t)'  BY <1>2, <1>3 DEF JobOK, Holding, Preparing
<1>7. Beside  BY <1>2, <1>3, <1>6 DEF Beside, Holding
<1>8. lockQ' \in Seq(Task)  BY <1>1, <1>2 DEF Types
<1>. QED  BY <1>2, <1>3, <1>5, <1>7, <1>8, Aside

-----------------------------------------------------------------------------
\* The calls that clients make.
LEMMA CallActivateInv ==
    ASSUME Inv, LifecycleOK', NEW t \in Task, NEW l \in Lease, NEW i \in Identity, NEW d \in Subdir,
           CallActivate(t, l, i, d)
    PROVE  Inv'
<1>. DEFINE j == [kind |-> "activate", lease |-> l, identity |-> i, subdir |-> d]
<1>1. j \in Job /\ j.kind = "activate" /\ j.lease = l  BY DEF Job
<1>2. /\ task' = [task EXCEPT ![t] = At("resolve", j)] /\ task[t].pc = "idle" /\ l \in issued
      /\ UNCHANGED <<lifecycle, reg, lockQ, stops>>
  BY DEF CallActivate
<1>. HIDE DEF j
<1>3. /\ At("resolve", j) \in Local /\ At("resolve", j).pc = "resolve" /\ At("resolve", j).job = j
      /\ At("resolve", j).prep = None /\ At("resolve", j).own = {}
  <2>1. "resolve" \in PC /\ j \in Job \cup {None}  BY <1>1 DEF PC
  <2>. QED  BY SMT, <2>1, IdleType
<1>. QED  BY <1>1, <1>2, <1>3, MoveKeeps

\* The path is resolved, or cannot be.
LEMMA ResolveInv ==
    ASSUME Inv, LifecycleOK', NEW t \in Task, Resolve(t)
    PROVE  Inv'
<1>1. task[t].pc = "resolve" /\ UNCHANGED <<lifecycle, reg, stops>>  BY DEF Resolve
<1>2. /\ task[t].job \in Job /\ task[t].job.kind = "activate" /\ task[t].job.lease \in issued
  BY <1>1 DEF Inv, JobOK
<1>3. CASE Queue(t, task[t].job)
  <2>1. PICK j \in Job : j = task[t].job  BY <1>2
  <2>. QED  BY <1>1, <1>2, <1>3, <2>1, QueueKeeps
<1>4. CASE task' = [task EXCEPT ![t] = Idle] /\ UNCHANGED lockQ
  <2>1. Idle \in Local /\ Idle.pc = "idle" /\ Idle.prep = None /\ Idle.own = {}
    BY DEF Idle, Local, PC
  <2>. QED  BY <1>1, <1>4, <2>1, MoveKeeps
<1>. QED  BY <1>3, <1>4 DEF Resolve

\* The response of a release is read.
LEMMA ReturnInv ==
    ASSUME Inv, LifecycleOK', NEW t \in Task, Return(t)
    PROVE  Inv'
<1>1. /\ task[t].pc = "replied" /\ task' = [task EXCEPT ![t] = Idle]
      /\ UNCHANGED <<lifecycle, reg, lockQ, stops>>
  BY DEF Return
<1>2. Idle \in Local /\ Idle.pc = "idle" /\ Idle.prep = None /\ Idle.own = {}
  BY DEF Idle, Local, PC
<1>. QED  BY <1>1, <1>2, MoveKeeps

\* A call with an ended lease queues for the lock with nothing to clean.
LEMMA UseEndedInv ==
    ASSUME Inv, LifecycleOK', NEW t \in Task, NEW l \in Lease, UseEnded(t, l)
    PROVE  Inv'
<1>1. [kind |-> "clean", binding |-> None] \in Job  BY DEF Job
<1>2. PICK j \in Job : j = [kind |-> "clean", binding |-> None]  BY <1>1
<1>3. j.kind = "clean" /\ j.binding = None  BY <1>2
<1>4. task[t].pc = "idle" /\ Queue(t, j) /\ UNCHANGED <<lifecycle, reg, stops>>
  BY <1>2 DEF UseEnded
<1>. QED  BY <1>3, <1>4, QueueKeeps

\* A release queues for the binding lock.
LEMMA CallReleaseInv ==
    ASSUME Inv, LifecycleOK', NEW t \in Task, NEW l \in Lease,
           NEW kind \in {"release_lease", "release_workspace"}, NEW immediate \in BOOLEAN,
           CallRelease(t, l, kind, immediate)
    PROVE  Inv'
<1>1. [kind |-> kind, lease |-> l, immediate |-> immediate] \in Job  BY DEF Job
<1>2. PICK j \in Job : j = [kind |-> kind, lease |-> l, immediate |-> immediate]  BY <1>1
<1>3. j.kind \notin {"clean", "activate"}  BY <1>2
<1>4. task[t].pc = "idle" /\ Queue(t, j) /\ UNCHANGED <<lifecycle, reg, stops>>
  BY <1>2 DEF CallRelease
<1>. QED  BY <1>3, <1>4, QueueKeeps

\* The sweep loop queues for the binding lock.
LEMMA StartSweepInv ==
    ASSUME Inv, LifecycleOK', StartSweep
    PROVE  Inv'
<1>1. PICK j \in Job : j = [kind |-> "sweep"]  BY DEF Job
<1>2. j.kind = "sweep"  BY <1>1
<1>3. Sweeper \in Task /\ task[Sweeper].pc = "idle" /\ Queue(Sweeper, j)
      /\ UNCHANGED <<lifecycle, reg, stops>>
  BY <1>1 DEF StartSweep, Task
<1>. QED  BY <1>2, <1>3, QueueKeeps

-----------------------------------------------------------------------------
\* The stop lock.
LEMMA StopKeeps ==
    ASSUME Inv, LifecycleOK', NEW t \in Task, task[t].pc \in {"stopwait", "stopping"},
           task' \in [Task -> Local], \A u \in Task \ {t} : task'[u] = task[u],
           task'[t].pc \in {"idle", "replied", "stopping"}, task'[t].prep = None,
           StopTurns', stopQ' \in Seq(Task), pending' \subseteq Runtime,
           GivenUp' \subseteq GivenUp, UNCHANGED <<lifecycle, reg, lockQ>>
    PROVE  Inv'
<1>1. Types  BY InvTypes
<1>2. reg' = reg /\ UNCHANGED lifecycle /\ issued' = issued /\ lockQ' = lockQ  BY DEF lifecycle
<1>3. \A b \in Binding : Cleaning(b)' => Cleaning(b)  BY DEF Cleaning
<1>4. Quiet  BY <1>1, <1>2, <1>3, NothingNew
<1>5. JobOK(t)'  BY DEF JobOK, Holding, Preparing
<1>6. Beside  BY <1>2, <1>5 DEF Beside, Holding
<1>7. lockQ' \in Seq(Task)  BY <1>1, <1>2 DEF Types
<1>. QED  BY <1>2, <1>4, <1>6, <1>7, Aside

\* A coroutine gets the stop lock.
LEMMA StopTurnInv ==
    ASSUME Inv, LifecycleOK', NEW t \in Task, StopTurn(t)
    PROVE  Inv'
<1>1. Types /\ StopTurns  BY InvTypes DEF Inv
<1>2. /\ task[t].pc = "stopwait" /\ Head(stopQ) = t /\ UNCHANGED <<lifecycle, reg, lockQ>>
      /\ MergeStops(t, task[t].own, task[t].decided, stopQ)
  BY DEF StopTurn
<1>3. PICK own \in SUBSET Runtime, decided \in Runtime \cup {None} :
        own = task[t].own /\ decided = task[t].decided
  BY <1>1 DEF Types, Local
<1>4. MergeStops(t, own, decided, stopQ)  BY <1>2, <1>3
<1>5. /\ task' \in [Task -> Local] /\ pending' = pending \cup own
      /\ \A u \in Task \ {t} : task'[u] = task[u]
      /\ task'[t].prep = None /\ task'[t].own \subseteq own
      /\ \/ task'[t].pc \in {"idle", "replied"} /\ stopQ' = Tail(stopQ)
         \/ task'[t].pc = "stopping" /\ stopQ' = stopQ
  BY <1>1, <1>4, MergeEffect
<1>6. stopQ # <<>> /\ stopQ \in Seq(Task)
  <2>1. PICK n \in 1..Len(stopQ) : stopQ[n] = t  BY <1>1, <1>2 DEF StopTurns
  <2>. QED  BY SMT, <1>1, <2>1 DEF Types
<1>7. StopTurns' /\ stopQ' \in Seq(Task)
  <2>1. CASE task'[t].pc \in {"idle", "replied"} /\ stopQ' = Tail(stopQ)
    BY <1>1, <1>2, <1>5, <1>6, <2>1, TailTurns
  <2>2. CASE task'[t].pc = "stopping" /\ stopQ' = stopQ
    BY SMT, <1>1, <1>2, <1>5, <1>6, <2>2 DEF StopTurns
  <2>. QED  BY <1>5, <2>1, <2>2
<1>8. GivenUp' \subseteq GivenUp /\ pending' \subseteq Runtime
  BY SMT, <1>1, <1>3, <1>5 DEF GivenUp, Types
<1>9. task'[t].pc \in {"idle", "replied", "stopping"} /\ task[t].pc \in {"stopwait", "stopping"}
  BY <1>2, <1>5
<1>. QED  BY <1>2, <1>5, <1>7, <1>8, <1>9, StopKeeps

\* The stopper threads are done; the runtimes whose stop failed stay pending.
LEMMA StopsDoneInv ==
    ASSUME Inv, LifecycleOK', NEW t \in Task, NEW failed \in SUBSET pending, StopsDone(t, failed)
    PROVE  Inv'
<1>1. Types /\ StopTurns  BY InvTypes DEF Inv
<1>2. /\ task[t].pc = "stopping" /\ pending' = failed /\ stopQ' = Tail(stopQ)
      /\ task' = [task EXCEPT ![t] = Returned(t, task[t].decided, task[t].own \cap failed = {})]
      /\ UNCHANGED <<lifecycle, reg, lockQ>>
  BY DEF StopsDone
<1>3. PICK decided \in Runtime \cup {None}, ok \in BOOLEAN :
        decided = task[t].decided /\ ok = (task[t].own \cap failed = {})
  BY <1>1 DEF Types, Local
<1>4. /\ Returned(t, decided, ok) \in Local /\ Returned(t, decided, ok).own = {}
      /\ Returned(t, decided, ok).prep = None
      /\ Returned(t, decided, ok).pc \in {"idle", "replied"}
  BY SMT, ReturnedType
<1>5. task' = [task EXCEPT ![t] = Returned(t, decided, ok)]  BY <1>2, <1>3
<1>6. /\ task' \in [Task -> Local] /\ \A u \in Task \ {t} : task'[u] = task[u]
      /\ task'[t].pc \in {"idle", "replied"} /\ task'[t].prep = None /\ task'[t].own = {}
  BY <1>1, <1>4, <1>5 DEF Types
<1>7. StopTurns' /\ stopQ' \in Seq(Task)
  <2>1. stopQ # <<>> /\ Head(stopQ) = t  BY <1>1, <1>2 DEF StopTurns
  <2>2. task'[t].pc \notin {"stopping", "stopwait"}  BY <1>6
  <2>. QED  BY <1>1, <1>2, <1>6, <2>1, <2>2, TailTurns
<1>8. GivenUp' \subseteq GivenUp /\ pending' \subseteq Runtime  BY SMT, <1>1, <1>2, <1>6 DEF GivenUp, Types
<1>. QED  BY <1>2, <1>6, <1>7, <1>8, StopKeeps

-----------------------------------------------------------------------------
\* The calls that touch the lifecycle and wait for no lock.
LEMMA LifecycleOnly ==
    ASSUME Inv, LifecycleOK', Quiet, UNCHANGED <<reg, task, lockQ, stops>>
    PROVE  Inv'
<1>1. Types /\ StopTurns  BY InvTypes DEF Inv
<1>2. reg' = reg /\ task' = task /\ lockQ' = lockQ /\ stopQ' = stopQ /\ pending' = pending
  BY DEF stops
<1>3. Beside  BY <1>2 DEF Beside
<1>4. StopTurns' /\ GivenUp' \subseteq GivenUp
  <2>1. StopTurns'  BY <1>1, <1>2 DEF StopTurns
  <2>2. GivenUp' = GivenUp  BY <1>2 DEF GivenUp
  <2>. QED  BY <2>1, <2>2
<1>5. /\ task' \in [Task -> Local] /\ lockQ' \in Seq(Task) /\ stopQ' \in Seq(Task)
      /\ pending' \subseteq Runtime
  BY <1>1, <1>2 DEF Types
<1>. QED  BY <1>2, <1>3, <1>4, <1>5, Aside

\* acquire_lease: a new lease is unbound in both tables.
LEMMA AcquireLeaseInv ==
    ASSUME Inv, LifecycleOK', NEW l \in Lease, AcquireLease(l)
    PROVE  Inv'
<1>1. Types  BY InvTypes
<1>2. /\ l \notin issued /\ issued' = issued \cup {l} /\ active' = active \cup {l}
      /\ binding' = [binding EXCEPT ![l] = None] /\ workspaces' = workspaces
      /\ UNCHANGED <<reg, task, lockQ, stops>>
  BY DEF AcquireLease, L!Issue
<1>3. \A b : Cleaning(b)' => Cleaning(b)  BY <1>2 DEF Cleaning
<1>4. Quiet  BY <1>1, <1>2, <1>3 DEF Types, Quiet
<1>. QED  BY <1>2, <1>4, LifecycleOnly

\* heartbeat touches no table the two components share.
LEMMA HeartbeatInv ==
    ASSUME Inv, LifecycleOK', NEW l \in Lease, Heartbeat(l)
    PROVE  Inv'
<1>1. /\ UNCHANGED <<reg, task, lockQ, stops>>
      /\ UNCHANGED <<active, issued, binding, workspaces>>
  BY DEF Heartbeat, L!Heartbeat
<1>2. \A b : Cleaning(b)' => Cleaning(b)  BY <1>1 DEF Cleaning
<1>3. Quiet  BY <1>1, <1>2 DEF Quiet
<1>. QED  BY <1>1, <1>3, LifecycleOnly

\* The clock moves deadlines only.
LEMMA TickInv ==
    ASSUME Inv, LifecycleOK', Tick
    PROVE  Inv'
<1>1. Types  BY InvTypes
<1>2. /\ UNCHANGED <<reg, task, lockQ, stops>> /\ UNCHANGED <<active, issued, binding>>
      /\ workspaces' = [i \in Identity |->
                           IF workspaces[i] # None /\ workspaces[i].grace > 0
                           THEN [workspaces[i] EXCEPT !.grace = @ - 1] ELSE workspaces[i]]
  BY DEF Tick, L!Tick
<1>3. \A b : Cleaning(b)' => Cleaning(b)  BY <1>2 DEF Cleaning
<1>4. ASSUME NEW i \in Identity
      PROVE  /\ workspaces'[i] = None <=> workspaces[i] = None
             /\ workspaces[i] # None => workspaces'[i].runtime = workspaces[i].runtime
  <2>1. CASE workspaces[i] # None /\ workspaces[i].grace > 0
    <3>1. workspaces'[i] = [workspaces[i] EXCEPT !.grace = @ - 1]  BY <1>2, <2>1
    <3>2. workspaces[i] \in WorkspaceState  BY <1>1, <2>1 DEF Types
    <3>3. workspaces'[i] \in WorkspaceState
      <4>1. workspaces[i].grace - 1 \in 0..Grace
        BY SMT, <2>1, <3>2, IntervalAssumption DEF WorkspaceState, NoDeadline
      <4>. QED  BY <3>1, <3>2, <4>1 DEF WorkspaceState
    <3>. QED  BY <2>1, <3>1, <3>2, <3>3, NoneAssumption DEF WorkspaceState
  <2>2. CASE ~(workspaces[i] # None /\ workspaces[i].grace > 0)  BY <1>2, <2>2
  <2>. QED  BY <2>1, <2>2
<1>5. Quiet  BY <1>2, <1>3, <1>4 DEF Quiet
<1>. QED  BY <1>2, <1>5, LifecycleOnly

-----------------------------------------------------------------------------
\* Taking a holder away leaves every workspace its runtime; an entry goes only when
\* A call finds its lease lapsed: the lifecycle drops the binding at once, and the
\* registry's entry waits for its clean-up.
LEMMA UseLapsedInv ==
    ASSUME Inv, LifecycleOK', NEW t \in Task, NEW l \in Lease, UseLapsed(t, l)
    PROVE  Inv'
<1>1. Types  BY InvTypes
<1>2. /\ task[t].pc = "idle" /\ L!Expire(l) /\ reg' = reg /\ UNCHANGED stops
      /\ Queue(t, [kind |-> "clean", binding |-> binding[l]])
  BY DEF UseLapsed
<1>3. [kind |-> "clean", binding |-> binding[l]] \in Job  BY <1>1 DEF Types, Job
<1>4. PICK j \in Job : j = [kind |-> "clean", binding |-> binding[l]]  BY <1>3
<1>5. j.kind = "clean" /\ j.binding = binding[l] /\ Queue(t, j)  BY <1>2, <1>4
<1>6. /\ Beside /\ StopTurns' /\ GivenUp' \subseteq GivenUp
      /\ task' \in [Task -> Local] /\ lockQ' \in Seq(Task) /\ stopQ' \in Seq(Task)
      /\ pending' \subseteq Runtime
      /\ task'[t].pc = "lock" /\ task'[t].job = j
      /\ \A u \in Task \ {t} : task'[u] = task[u]
  BY <1>2, <1>5, QueueEffect
<1>7. /\ l \in active /\ active' = active \ {l} /\ issued' = issued
      /\ \A m \in Lease : binding'[m] = IF m = l THEN None ELSE binding[m]
      /\ \A i \in Identity :
            /\ workspaces'[i] = None <=> workspaces[i] = None
            /\ workspaces[i] # None => workspaces'[i].runtime = workspaces[i].runtime
  BY <1>2, ExpireEffect
<1>8. \A b \in Binding : b = binding[l] => Cleaning(b)'  BY <1>5, <1>6 DEF Cleaning
<1>9. \A b \in Binding : Cleaning(b)' => Cleaning(b) \/ b = binding[l]
  BY <1>5, <1>6 DEF Cleaning
<1>10. Quiet  BY <1>1, <1>7, <1>8, <1>9 DEF Quiet, Types
<1>. QED  BY <1>2, <1>6, <1>10, Aside

-----------------------------------------------------------------------------
\* _apply_decision_locked.
LEMMA AppliedShrinks ==
    ASSUME Inv, NEW b \in Binding, NEW stop \in Runtime \cup {None}
    PROVE  \E X \in SUBSET {b.identity} :
              /\ Shrinks(reg, Applied(b, stop), {b.id}, X)
              /\ GivesUp(Detached(b, stop), X) /\ Detached(b, stop) \in SUBSET Runtime
              /\ stop = None => X = {}
<1>1. /\ b # None /\ b.id \in WorkspaceLease /\ b.identity \in Identity  BY BindingType
<1>2. RegistryOK(reg) /\ Backs(reg)  BY InvBacks
<1>3. PICK h : h = Unleased(reg, b)  OBVIOUS
<1>4. h = R!ReleaseLease(reg, b.id)  BY <1>1, <1>3 DEF Unleased
<1>5. Shrinks(reg, h, {b.id}, {})  BY <1>1, <1>2, <1>4, ReleaseLeaseShrinks
<1>6. RegistryOK(h) /\ h.runtimes[b.identity] = reg.runtimes[b.identity]  BY <1>1, <1>5 DEF Shrinks
<1>7. PICK X : X = IF R!Retirable(h, b.identity, stop) THEN {b.identity} ELSE {}  OBVIOUS
<1>8. Shrinks(h, R!RetireIdle(h, b.identity, stop), {}, X)  BY <1>1, <1>6, <1>7, RetireShrinks
<1>9. PICK k : k = R!RetireIdle(h, b.identity, stop)  OBVIOUS
<1>10. Applied(b, stop) = k  BY <1>1, <1>3, <1>9 DEF Applied
<1>11. Shrinks(h, k, {}, X)  BY <1>8, <1>9
<1>12. Shrinks(reg, k, {b.id} \cup {}, {} \cup X)  BY <1>2, <1>5, <1>11, ShrinksTwice
<1>13. Shrinks(reg, k, {b.id}, X)
  <2>1. {b.id} \cup {} = {b.id} /\ {} \cup X = X  OBVIOUS
  <2>. QED  BY <1>12, <2>1
<1>14. Detached(b, stop) = IF R!Retirable(h, b.identity, stop) THEN {stop} ELSE {}
  BY <1>1, <1>3 DEF Detached
<1>15. R!Retirable(h, b.identity, stop) => stop # None /\ reg.runtimes[b.identity] = stop
  BY <1>6 DEF R!Retirable
<1>. QED  BY SMT, <1>1, <1>7, <1>10, <1>13, <1>14, <1>15 DEF GivesUp

\* Both releases, whatever the lifecycle decided: the lease loses its binding, and a
\* runtime is detached only when its workspace is gone.
LEMMA ReleaseKeeps ==
    ASSUME Inv, LifecycleOK', NEW t \in Task, lockQ # <<>>, Head(lockQ) = t,
           task[t].pc = "lock", task[t].job.kind # "clean", NEW l \in Lease,
           NEW stop \in Runtime \cup {None}, ApplyAndStop(t, binding[l], stop),
           \A m \in Lease : binding'[m] = IF m = l THEN None ELSE binding[m],
           active' \subseteq active, issued' = issued,
           \A i \in Identity : workspaces'[i] # None =>
              workspaces[i] # None /\ workspaces'[i].runtime = workspaces[i].runtime,
           (stop # None /\ binding[l] # None) => workspaces'[binding[l].identity] = None
    PROVE  Inv'
<1>1. Types  BY InvTypes
<1>2. PICK b \in Binding \cup {None} : b = binding[l]  BY <1>1 DEF Types
<1>3. reg' = Applied(b, stop) /\ LeaveLock(t, Detached(b, stop), stop)  BY <1>2 DEF ApplyAndStop
<1>4. \A W : Covers(t, W)  BY DEF Covers
<1>5. \A i \in Identity : workspaces[i] # None => reg.runtimes[i] = workspaces[i].runtime
  BY DEF Inv, WarmRuntimeRegistered
<1>6. CASE b = None
  <2>1. reg' = reg /\ LeaveLock(t, {}, stop)  BY <1>3, <1>6 DEF Applied, Detached
  <2>2. Shrinks(reg, reg', {}, {})  BY <2>1, InvBacks, ShrinksNothing
  <2>3. Follows(t, {})  BY <1>2, <1>6 DEF Follows
  <2>4. WarmRuntimeRegistered'  BY <1>5, <2>1 DEF WarmRuntimeRegistered
  <2>5. GivesUp({}, {})  BY DEF GivesUp
  <2>6. {} \in SUBSET Runtime  OBVIOUS
  <2>. QED  BY <1>4, <2>1, <2>2, <2>3, <2>4, <2>5, <2>6, Finish
<1>7. CASE b # None
  <2>1. b \in Binding /\ b.identity \in Identity  BY <1>7, BindingType
  <2>2. PICK X \in SUBSET {b.identity} :
              /\ Shrinks(reg, Applied(b, stop), {b.id}, X)
              /\ GivesUp(Detached(b, stop), X) /\ Detached(b, stop) \in SUBSET Runtime
              /\ stop = None => X = {}
    BY <2>1, AppliedShrinks
  <2>3. PICK own \in SUBSET Runtime : own = Detached(b, stop)  BY <2>2
  <2>4. Shrinks(reg, reg', {b.id}, X) /\ LeaveLock(t, own, stop) /\ GivesUp(own, X)
    BY <1>3, <2>2, <2>3
  <2>5. Follows(t, {b.id})
    <3>1. \A m \in Lease \ {l} : binding[m] # None => binding[m].id # b.id
      BY <1>2, <1>7, OneBindingPerId
    <3>. QED  BY <1>2, <1>7, <3>1 DEF Follows
  <2>6. WarmRuntimeRegistered'
    <3>. SUFFICES ASSUME NEW i \in Identity, workspaces'[i] # None
                  PROVE  reg'.runtimes[i] = workspaces'[i].runtime
      BY DEF WarmRuntimeRegistered
    <3>1. i \notin X  BY <1>2, <1>7, <2>2
    <3>2. reg'.runtimes[i] = reg.runtimes[i]  BY <2>4, <3>1 DEF Shrinks
    <3>. QED  BY <1>5, <3>2
  <2>. QED  BY <1>4, <2>4, <2>5, <2>6, Finish
<1>. QED  BY <1>6, <1>7

-----------------------------------------------------------------------------
\* What a release that has the lock works on.
LEMMA ReleaseJob ==
    ASSUME Inv, NEW t \in Task, Turn(t, "release_lease") \/ Turn(t, "release_workspace")
    PROVE  /\ lockQ # <<>> /\ Head(lockQ) = t /\ task[t].pc = "lock" /\ task[t].job.kind # "clean"
           /\ task[t].job.lease \in Lease /\ task[t].job.immediate \in BOOLEAN
<1>1. /\ lockQ # <<>> /\ Head(lockQ) = t /\ task[t].pc = "lock"
      /\ task[t].job.kind \in {"release_lease", "release_workspace"}
  BY DEF Turn
<1>2. task[t].job \in Job  BY <1>1 DEF Inv, JobOK
<1>. QED  BY <1>1, <1>2, JobType

\* A release that finds its lease lapsed cleans up what the expiry has left.
LEMMA ReleaseLapsedInv ==
    ASSUME Inv, LifecycleOK', NEW t \in Task, ReleaseLapsed(t)
    PROVE  Inv'
<1>1. Turn(t, "release_lease") \/ Turn(t, "release_workspace")  BY DEF ReleaseLapsed
<1>2. /\ lockQ # <<>> /\ Head(lockQ) = t /\ task[t].pc = "lock" /\ task[t].job.kind # "clean"
      /\ task[t].job.lease \in Lease
  BY <1>1, ReleaseJob
<1>3. PICK l \in Lease : l = task[t].job.lease  BY <1>2
<1>4. L!Expire(l) /\ ApplyAndStop(t, binding[l], None)  BY <1>3 DEF ReleaseLapsed
<1>5. /\ active' \subseteq active /\ issued' = issued
      /\ \A m \in Lease : binding'[m] = IF m = l THEN None ELSE binding[m]
      /\ \A i \in Identity : workspaces'[i] # None =>
            workspaces[i] # None /\ workspaces'[i].runtime = workspaces[i].runtime
  BY <1>4, ExpireEffect
<1>6. None \in Runtime \cup {None}
      /\ ((None # None /\ binding[l] # None) => workspaces'[binding[l].identity] = None)
  OBVIOUS
<1>. QED  BY <1>2, <1>4, <1>5, <1>6, ReleaseKeeps

\* A release without a decision changes neither table.
LEMMA ReleaseNothingInv ==
    ASSUME Inv, LifecycleOK', NEW t \in Task, ReleaseNothing(t)
    PROVE  Inv'
<1>1. Types  BY InvTypes
<1>2. Turn(t, "release_lease") \/ Turn(t, "release_workspace")  BY DEF ReleaseNothing
<1>3. /\ lockQ # <<>> /\ Head(lockQ) = t /\ task[t].pc = "lock" /\ task[t].job.kind # "clean"
      /\ task[t].job.lease \in Lease
  BY <1>2, ReleaseJob
<1>4. PICK l \in Lease : l = task[t].job.lease  BY <1>3
<1>5. binding[l] = None  BY <1>1, <1>4 DEF ReleaseNothing, Types
<1>6. ApplyAndStop(t, binding[l], None) /\ UNCHANGED lifecycle  BY <1>5 DEF ReleaseNothing
<1>7. /\ active' \subseteq active /\ issued' = issued
      /\ \A m \in Lease : binding'[m] = IF m = l THEN None ELSE binding[m]
      /\ \A i \in Identity : workspaces'[i] # None =>
            workspaces[i] # None /\ workspaces'[i].runtime = workspaces[i].runtime
  BY <1>5, <1>6 DEF lifecycle
<1>8. None \in Runtime \cup {None}
      /\ ((None # None /\ binding[l] # None) => workspaces'[binding[l].identity] = None)
  OBVIOUS
<1>. QED  BY <1>3, <1>6, <1>7, <1>8, ReleaseKeeps

\* An active lease is released, or only its workspace.
LEMMA ReleaseDecided ==
    ASSUME Inv, LifecycleOK', NEW t \in Task, lockQ # <<>>, Head(lockQ) = t,
           task[t].pc = "lock", task[t].job.kind # "clean", NEW l \in Lease,
           NEW immediate \in BOOLEAN, active' \subseteq active, issued' = issued,
           ApplyAndStop(t, binding[l], L!RuntimeToStop(l, immediate)),
           binding' = [binding EXCEPT ![l] = None],
           workspaces' = IF binding[l] = None THEN workspaces
                         ELSE L!RemoveHolder(workspaces, l, binding[l].identity, immediate)
    PROVE  Inv'
<1>1. Types  BY InvTypes
<1>2. \A m \in Lease : binding'[m] = IF m = l THEN None ELSE binding[m]  BY <1>1 DEF Types
<1>3. CASE binding[l] = None
  <2>1. L!RuntimeToStop(l, immediate) = None  BY <1>3 DEF L!RuntimeToStop
  <2>2. ApplyAndStop(t, binding[l], None)  BY <2>1
  <2>3. \A i \in Identity : workspaces'[i] # None =>
            workspaces[i] # None /\ workspaces'[i].runtime = workspaces[i].runtime
    BY <1>3
  <2>4. None \in Runtime \cup {None}
        /\ ((None # None /\ binding[l] # None) => workspaces'[binding[l].identity] = None)
    OBVIOUS
  <2>. QED  BY <1>2, <2>2, <2>3, <2>4, ReleaseKeeps
<1>4. CASE binding[l] # None
  <2>7. PICK ws : ws = workspaces'  OBVIOUS
  <2>1. ws = L!RemoveHolder(workspaces, l, binding[l].identity, immediate)  BY <1>4, <2>7
  <2>2. ASSUME NEW i \in Identity
        PROVE  /\ i # binding[l].identity => ws[i] = workspaces[i]
               /\ ws[i] # None => workspaces[i] # None /\ ws[i].runtime = workspaces[i].runtime
               /\ ~immediate => (ws[i] = None <=> workspaces[i] = None)
               /\ L!RuntimeToStop(l, immediate) \in Runtime \cup {None}
               /\ (L!RuntimeToStop(l, immediate) # None /\ i = binding[l].identity)
                     => ws[i] = None
    BY <1>4, <2>1, RemoveEffect, SMT
  <2>3. binding[l].identity \in Identity  BY <1>4, BoundHolds
  <2>4. PICK stop \in Runtime \cup {None} : stop = L!RuntimeToStop(l, immediate)  BY <2>2, <2>3
  <2>5. /\ ApplyAndStop(t, binding[l], stop)
        /\ (stop # None /\ binding[l] # None) => workspaces'[binding[l].identity] = None
    BY <2>2, <2>3, <2>4, <2>7
  <2>6. \A i \in Identity : workspaces'[i] # None =>
            workspaces[i] # None /\ workspaces'[i].runtime = workspaces[i].runtime
    BY <2>2, <2>7
  <2>. QED  BY <1>2, <2>5, <2>6, ReleaseKeeps
<1>. QED  BY <1>3, <1>4

\* release_lease: the binding leaves both tables in one step under the lock.
LEMMA ReleaseLeaseInv ==
    ASSUME Inv, LifecycleOK', NEW t \in Task, ReleaseLease(t)
    PROVE  Inv'
<1>1. Turn(t, "release_lease")  BY DEF ReleaseLease
<1>2. /\ lockQ # <<>> /\ Head(lockQ) = t /\ task[t].pc = "lock" /\ task[t].job.kind # "clean"
      /\ task[t].job.lease \in Lease /\ task[t].job.immediate \in BOOLEAN
  BY <1>1, ReleaseJob
<1>3. PICK l \in Lease, immediate \in BOOLEAN :
         l = task[t].job.lease /\ immediate = task[t].job.immediate
  BY <1>2
<1>4. L!Release(l, immediate) /\ ApplyAndStop(t, binding[l], L!RuntimeToStop(l, immediate))
  BY <1>3 DEF ReleaseLease
<1>5. /\ active' \subseteq active /\ issued' = issued /\ binding' = [binding EXCEPT ![l] = None]
      /\ workspaces' = IF binding[l] = None THEN workspaces
                       ELSE L!RemoveHolder(workspaces, l, binding[l].identity, immediate)
  BY <1>4 DEF L!Release, L!EndLease
<1>. QED  BY <1>2, <1>4, <1>5, ReleaseDecided

\* release_workspace: the same, and the lease stays active.
LEMMA ReleaseWorkspaceInv ==
    ASSUME Inv, LifecycleOK', NEW t \in Task, ReleaseWorkspace(t)
    PROVE  Inv'
<1>1. Turn(t, "release_workspace")  BY DEF ReleaseWorkspace
<1>2. /\ lockQ # <<>> /\ Head(lockQ) = t /\ task[t].pc = "lock" /\ task[t].job.kind # "clean"
      /\ task[t].job.lease \in Lease /\ task[t].job.immediate \in BOOLEAN
  BY <1>1, ReleaseJob
<1>3. PICK l \in Lease, immediate \in BOOLEAN :
         l = task[t].job.lease /\ immediate = task[t].job.immediate
  BY <1>2
<1>4. /\ L!ReleaseWorkspace(l, immediate)
      /\ ApplyAndStop(t, binding[l], L!RuntimeToStop(l, immediate))
  BY <1>3 DEF ReleaseWorkspace
<1>5. /\ active' \subseteq active /\ issued' = issued /\ binding' = [binding EXCEPT ![l] = None]
      /\ workspaces' = IF binding[l] = None THEN workspaces
                       ELSE L!RemoveHolder(workspaces, l, binding[l].identity, immediate)
  BY <1>4 DEF L!ReleaseWorkspace
<1>. QED  BY <1>2, <1>4, <1>5, ReleaseDecided

\* A clean-up finds nothing of an active lease.
LEMMA CleanInv ==
    ASSUME Inv, LifecycleOK', NEW t \in Task, Clean(t)
    PROVE  Inv'
<1>1. Types  BY InvTypes
<1>2. /\ lockQ # <<>> /\ Head(lockQ) = t /\ task[t].pc = "lock" /\ task[t].job.kind = "clean"
      /\ reg' = Unleased(reg, task[t].job.binding) /\ LeaveLock(t, {}, None)
      /\ UNCHANGED lifecycle
  BY DEF Clean, Turn
<1>3. task[t].job \in Job  BY <1>2 DEF Inv, JobOK
<1>4. PICK b \in Binding \cup {None} : b = task[t].job.binding  BY <1>2, <1>3, JobType
<1>5. active' \subseteq active /\ issued' = issued /\ binding' = binding /\ workspaces' = workspaces
  BY <1>2 DEF lifecycle
<1>6. {} \in SUBSET Runtime /\ None \in Runtime \cup {None} /\ GivesUp({}, {})  BY DEF GivesUp
<1>7. WarmRuntimeRegistered  BY DEF Inv
<1>8. CASE b = None
  <2>1. reg' = reg  BY <1>2, <1>4, <1>8 DEF Unleased
  <2>2. Shrinks(reg, reg', {}, {})  BY <2>1, InvBacks, ShrinksNothing
  <2>3. Follows(t, {}) /\ Covers(t, {})  BY <1>2, <1>4, <1>5, <1>8 DEF Follows, Covers
  <2>4. WarmRuntimeRegistered'  BY <1>5, <1>7, <2>1 DEF WarmRuntimeRegistered
  <2>. QED  BY <1>2, <1>5, <1>6, <2>2, <2>3, <2>4, Finish
<1>9. CASE b # None
  <2>1. b \in Binding /\ b.id \in WorkspaceLease  BY <1>9, BindingType
  <2>2. reg' = R!ReleaseLease(reg, b.id)  BY <1>2, <1>4, <1>9 DEF Unleased
  <2>3. Shrinks(reg, R!ReleaseLease(reg, b.id), {b.id}, {})
    BY <2>1, InvBacks, ReleaseLeaseShrinks
  <2>4. Shrinks(reg, reg', {b.id}, {})  BY <2>2, <2>3
  <2>5. Cleaning(b)  BY <1>2, <1>4 DEF Cleaning
  <2>6. ASSUME NEW m \in Lease, binding[m] # None PROVE binding[m].id # b.id
    <3>1. m \in active /\ reg.bindings[m] = binding[m]  BY <1>2, <2>6, TablesEqual
    <3>. QED  BY <2>1, <2>5, <2>6, <3>1 DEF Inv, CleaningSafe, Bound
  <2>7. Follows(t, {b.id}) /\ Covers(t, {b.id})
    BY <1>2, <1>4, <1>5, <2>6 DEF Follows, Covers
  <2>8. WarmRuntimeRegistered'  BY <1>5, <1>7, <2>4 DEF WarmRuntimeRegistered, Shrinks
  <2>. QED  BY <1>2, <1>5, <1>6, <2>4, <2>7, <2>8, Finish
<1>. QED  BY <1>8, <1>9

-----------------------------------------------------------------------------
\* The workspaces after a sweep.
LEMMA SweptWorkspaces ==
    ASSUME Types, L!Sweep, NEW i \in Identity
    PROVE  /\ workspaces'[i] # None =>
                 /\ i \notin L!GraceOver /\ workspaces[i] # None
                 /\ workspaces'[i].runtime = workspaces[i].runtime
           /\ i \in L!GraceOver => workspaces[i] # None /\ workspaces[i].runtime \in Runtime
<1>1. workspaces'[i] = IF i \in L!GraceOver THEN None ELSE L!AfterExpiry(i)  BY DEF L!Sweep
<1>2. /\ workspaces[i] = None => L!AfterExpiry(i) = None
      /\ workspaces[i] # None => L!AfterExpiry(i).runtime = workspaces[i].runtime
  BY DEF L!AfterExpiry
<1>3. i \in L!GraceOver => L!AfterExpiry(i) # None  BY DEF L!GraceOver
<1>4. workspaces[i] # None => workspaces[i].runtime \in Runtime  BY DEF Types, WorkspaceState
<1>. QED  BY <1>1, <1>2, <1>3, <1>4

\* The sweep takes from the registry what it takes from the lifecycle.
LEMMA SweepInv ==
    ASSUME Inv, LifecycleOK', Sweep
    PROVE  Inv'
<1>. DEFINE ended == {binding[l] : l \in {m \in Lease : L!Lapsed(m)}} \ {None}
            W == {b.id : b \in ended}
<1>1. Types  BY InvTypes
<1>2. PICK t \in Task : t = Sweeper  BY DEF Task
<1>3. /\ lockQ # <<>> /\ Head(lockQ) = t /\ task[t].pc = "lock" /\ task[t].job.kind = "sweep"
  BY <1>2 DEF Sweep, Turn
<1>4. PICK bs \in SUBSET Binding : bs = ended
  <2>1. \A l \in Lease : binding[l] \in Binding \cup {None}  BY <1>1 DEF Types
  <2>2. \A b \in ended : b \in Binding  BY <2>1
  <2>3. ended \in SUBSET Binding
    <3>. HIDE DEF ended
    <3>. QED  BY <2>2
  <2>. QED  BY <2>3
<1>5. PICK g : g = UnleasedAll(reg, bs)  OBVIOUS
<1>6. PICK X \in SUBSET Identity : X = {i \in L!GraceOver : R!Retirable(g, i, workspaces[i].runtime)}
  BY DEF L!GraceOver
<1>7. /\ L!Sweep
      /\ reg' = [g EXCEPT !.runtimes = [i \in Identity |-> IF i \in X THEN None ELSE g.runtimes[i]]]
      /\ LeaveLock(t, {workspaces[i].runtime : i \in X}, None)
  BY <1>2, <1>4, <1>5, <1>6 DEF Sweep
<1>8. Shrinks(reg, g, {b.id : b \in bs}, {})  BY <1>5, InvBacks, UnleasedAllShrinks
<1>9. RegistryOK(g) /\ \A i \in Identity : g.runtimes[i] = reg.runtimes[i]  BY <1>8 DEF Shrinks
<1>10. \A i \in X : g.refcount[i] = 0 /\ g.runtimes[i] = workspaces[i].runtime /\ i \in L!GraceOver
  BY <1>6 DEF R!Retirable
<1>11. PICK h : h = reg'  OBVIOUS
<1>12. Shrinks(g, h, {}, X)  BY <1>7, <1>9, <1>10, <1>11, RetireAllShrinks
<1>13. Shrinks(reg, reg', W, X)
  <2>1. PICK V : V = {b.id : b \in bs}  OBVIOUS
  <2>2. Shrinks(reg, g, V, {})  BY <1>8, <2>1
  <2>3. Shrinks(reg, h, V \cup {}, {} \cup X)  BY <1>12, <2>2, InvBacks, ShrinksTwice
  <2>4. V \cup {} = W /\ {} \cup X = X  BY <1>4, <2>1
  <2>. QED  BY <1>11, <2>3, <2>4
<1>14. PICK own \in SUBSET Runtime : own = {workspaces[i].runtime : i \in X}
  BY <1>1, <1>7, <1>10, SweptWorkspaces
<1>15. GivesUp(own, X)  BY <1>9, <1>10, <1>14 DEF GivesUp
<1>16. LeaveLock(t, own, None)  BY <1>7, <1>14
<1>17. /\ active' \subseteq active /\ issued' = issued
       /\ \A l \in Lease : binding'[l] = IF L!Lapsed(l) THEN None ELSE binding[l]
  BY <1>7 DEF L!Sweep
<1>18. Follows(t, W)
  <2>. SUFFICES ASSUME NEW l \in Lease
                PROVE  binding'[l] = IF binding[l] # None /\ binding[l].id \in W THEN None
                                     ELSE binding[l]
    BY <1>3 DEF Follows
  <2>1. CASE L!Lapsed(l)  BY <1>17, <2>1
  <2>2. CASE ~L!Lapsed(l)
    <3>1. ASSUME binding[l] # None, binding[l].id \in W PROVE FALSE
      <4>1. PICK m \in Lease : L!Lapsed(m) /\ binding[m] # None /\ binding[m].id = binding[l].id
        BY <3>1
      <4>2. m = l  BY <1>3, <3>1, <4>1, OneBindingPerId
      <4>. QED  BY <2>2, <4>1, <4>2
    <3>. QED  BY <1>17, <2>2, <3>1
  <2>. QED  BY <2>1, <2>2
<1>19. Covers(t, W)  BY <1>3 DEF Covers
<1>20. WarmRuntimeRegistered'
  <2>. SUFFICES ASSUME NEW i \in Identity, workspaces'[i] # None
                PROVE  reg'.runtimes[i] = workspaces'[i].runtime
    BY DEF WarmRuntimeRegistered
  <2>1. /\ i \notin X /\ workspaces[i] # None /\ workspaces'[i].runtime = workspaces[i].runtime
    BY <1>1, <1>7, <1>10, SweptWorkspaces
  <2>2. reg'.runtimes[i] = reg.runtimes[i]  BY <1>13, <2>1 DEF Shrinks
  <2>. QED  BY <2>1, <2>2 DEF Inv, WarmRuntimeRegistered
<1>21. None \in Runtime \cup {None}  OBVIOUS
<1>. HIDE DEF W, ended
<1>. QED  BY <1>3, <1>13, <1>15, <1>16, <1>17, <1>18, <1>19, <1>20, <1>21, Finish
=============================================================================
