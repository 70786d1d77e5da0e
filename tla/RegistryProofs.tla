--------------------------- MODULE RegistryProofs ---------------------------
(***************************************************************************)
(* The registry's invariants for any number of sessions, callers,          *)
(* identities, runtimes and lease ids.  The reference count is exact for   *)
(* every operator taken alone (Core); that bindings are backed and nothing *)
(* leaks needs the ownership of every live lease, by one binding or one    *)
(* provisional candidate (Owned).                                          *)
(***************************************************************************)
EXTENDS Registry, FiniteSetTheorems, TLAPS

USE Zenon  \* the default; SMT is named where it is needed

Counted(g) == \A i \in Identity : g.refcount[i] = Cardinality(LeasesOf(g, i))

Stays(g) ==
    \A w \in WorkspaceLease : g.leases[w] # None =>
        g.runtimes[g.leases[w].identity] = g.leases[w].runtime

Core(g) == g \in RegistryState /\ Counted(g) /\ Stays(g)

\* The sets of leases of a registry are finite and have a size.
LEMMA LeasesFinite ==
    ASSUME NEW g, NEW i \in Identity
    PROVE  IsFiniteSet(LeasesOf(g, i)) /\ Cardinality(LeasesOf(g, i)) \in Nat
<1>1. LeasesOf(g, i) \subseteq WorkspaceLease  BY DEF LeasesOf
<1>. QED  BY <1>1, FS_Subset, FS_CardinalityType, RegistryAssumption

\* Acquiring a lease under an unused id keeps the counts exact.
LEMMA AcquireCore ==
    ASSUME NEW g, Core(g), NEW i \in Identity, NEW w \in WorkspaceLease,
           NEW r \in Runtime, g.leases[w] = None
    PROVE  Core(Acquire(g, i, w, r))
<1>. DEFINE h == Acquire(g, i, w, r)
<1>. DEFINE rt == IF g.runtimes[i] = None THEN r ELSE g.runtimes[i]
<1>1. /\ rt \in Runtime
      /\ h = [runtimes |-> [g.runtimes EXCEPT ![i] = rt],
              refcount |-> [g.refcount EXCEPT ![i] = @ + 1],
              leases |-> [g.leases EXCEPT ![w] = [identity |-> i, runtime |-> rt]],
              bindings |-> g.bindings]
  BY DEF Core, RegistryState, Acquire
<1>. HIDE DEF h, rt
<1>2. [identity |-> i, runtime |-> rt] \in Handle /\ [identity |-> i, runtime |-> rt] # None
  BY SMT, <1>1, RegistryAssumption DEF Handle
<1>3. h \in RegistryState
  BY SMT, <1>1, <1>2 DEF Core, RegistryState
<1>4. Stays(h)
  BY SMT, <1>1, <1>2, RegistryAssumption DEF Core, Stays, RegistryState, Handle, h, rt, Acquire
<1>5. ASSUME NEW j \in Identity PROVE h.refcount[j] = Cardinality(LeasesOf(h, j))
  <2>1. CASE j = i
    <3>1. LeasesOf(h, i) = LeasesOf(g, i) \cup {w}
      BY <1>1, <1>2 DEF Core, RegistryState, LeasesOf
    <3>2. w \notin LeasesOf(g, i)  BY DEF LeasesOf
    <3>3. Cardinality(LeasesOf(g, i) \cup {w}) = Cardinality(LeasesOf(g, i)) + 1
      BY <3>2, LeasesFinite, FS_AddElement
    <3>4. h.refcount[i] = g.refcount[i] + 1  BY <1>1 DEF Core, RegistryState
    <3>. QED  BY <2>1, <3>1, <3>3, <3>4 DEF Core, Counted
  <2>2. CASE j # i
    <3>1. LeasesOf(h, j) = LeasesOf(g, j)
      BY <1>1, <1>2, <2>2 DEF Core, RegistryState, LeasesOf
    <3>2. h.refcount[j] = g.refcount[j]  BY <1>1, <2>2 DEF Core, RegistryState
    <3>. QED  BY <3>1, <3>2 DEF Core, Counted
  <2>. QED  BY <2>1, <2>2
<1>. QED  BY <1>3, <1>4, <1>5 DEF Core, Counted, h

\* Releasing a lease, once or twice, keeps the counts exact.
LEMMA ReleaseCore ==
    ASSUME NEW g, Core(g), NEW w \in WorkspaceLease
    PROVE  Core(ReleaseLocked(g, w))
<1>. DEFINE h == ReleaseLocked(g, w)
<1>1. CASE g.leases[w] = None  BY <1>1 DEF ReleaseLocked
<1>2. CASE g.leases[w] # None
  <2>0. PICK i \in Identity : i = g.leases[w].identity
    BY <1>2 DEF Core, RegistryState, Handle
  <2>1. w \in LeasesOf(g, i)
    BY <1>2, <2>0 DEF LeasesOf
  <2>2. h = [runtimes |-> g.runtimes, refcount |-> [g.refcount EXCEPT ![i] = @ - 1],
             leases |-> [g.leases EXCEPT ![w] = None], bindings |-> g.bindings]
    BY <1>2, <2>0 DEF ReleaseLocked
  <2>. HIDE DEF h
  <2>3. h \in RegistryState  BY SMT, <2>1, <2>2 DEF Core, RegistryState
  <2>4. Stays(h)  BY <2>2 DEF Core, Stays, RegistryState
  <2>5. ASSUME NEW j \in Identity PROVE h.refcount[j] = Cardinality(LeasesOf(h, j))
    <3>1. CASE j = i
      <4>1. LeasesOf(h, i) = LeasesOf(g, i) \ {w}
        BY <2>0, <2>2 DEF Core, RegistryState, LeasesOf
      <4>2. Cardinality(LeasesOf(g, i) \ {w}) = Cardinality(LeasesOf(g, i)) - 1
        BY <2>1, LeasesFinite, FS_RemoveElement
      <4>3. h.refcount[i] = g.refcount[i] - 1  BY <2>1, <2>2 DEF Core, RegistryState
      <4>. QED  BY <2>1, <3>1, <4>1, <4>2, <4>3 DEF Core, Counted
    <3>2. CASE j # i
      <4>1. LeasesOf(h, j) = LeasesOf(g, j)
        BY <2>0, <2>2, <3>2 DEF Core, RegistryState, LeasesOf
      <4>2. h.refcount[j] = g.refcount[j]  BY <2>2, <3>2 DEF Core, RegistryState
      <4>. QED  BY <4>1, <4>2 DEF Core, Counted
    <3>. QED  BY <3>1, <3>2
  <2>. QED  BY <2>3, <2>4, <2>5 DEF Core, Counted, h
<1>. QED  BY <1>1, <1>2

\* The bindings do not enter the counts.
LEMMA RebindCore ==
    ASSUME NEW g, Core(g), NEW bs \in [Session -> Binding \cup {None}]
    PROVE  Core([g EXCEPT !.bindings = bs])
<1>. DEFINE h == [g EXCEPT !.bindings = bs]
<1>1. h = [runtimes |-> g.runtimes, refcount |-> g.refcount, leases |-> g.leases,
           bindings |-> bs]
  BY SMT DEF Core, RegistryState
<1>. HIDE DEF h
<1>2. h \in RegistryState /\ Stays(h)  BY <1>1 DEF Core, RegistryState, Stays
<1>3. \A i \in Identity : LeasesOf(h, i) = LeasesOf(g, i)  BY <1>1 DEF LeasesOf
<1>. QED  BY <1>1, <1>2, <1>3 DEF Core, Counted, h

\* A runtime is retired only when no lease names it.
LEMMA RetireCore ==
    ASSUME NEW g, Core(g), NEW i \in Identity, NEW r, Retirable(g, i, r)
    PROVE  Core(RetireIdle(g, i, r))
<1>. DEFINE h == RetireIdle(g, i, r)
<1>1. h = [runtimes |-> [g.runtimes EXCEPT ![i] = None], refcount |-> g.refcount,
           leases |-> g.leases, bindings |-> g.bindings]
  BY DEF Core, RegistryState, RetireIdle
<1>. HIDE DEF h
<1>2. LeasesOf(g, i) = {}
  BY LeasesFinite, FS_EmptySet DEF Core, Counted, Retirable
<1>3. h \in RegistryState  BY <1>1 DEF Core, RegistryState
<1>4. Stays(h)  BY <1>1, <1>2 DEF Core, Stays, RegistryState, LeasesOf, Handle
<1>5. \A j \in Identity : LeasesOf(h, j) = LeasesOf(g, j)  BY <1>1 DEF LeasesOf
<1>. QED  BY SMT, <1>1, <1>3, <1>4, <1>5 DEF Core, Counted, h

-----------------------------------------------------------------------------
\* Ownership, over the leases ls, the bindings bs and the preparations ps.
Bound(bs, s, w) == bs[s] # None /\ bs[s].id = w
Candidate(ps, c, w) == ps[c] # None /\ ps[c].provisional /\ ps[c].binding.id = w

Owned(ls, bs, ps) ==
    /\ \A s \in Session : bs[s] # None => ls[bs[s].id] = HandleOf(bs[s])
    /\ \A c \in Caller : (ps[c] # None /\ ps[c].provisional)
          => ls[ps[c].binding.id] = HandleOf(ps[c].binding)
    /\ \A w \in WorkspaceLease, s, t \in Session :
          Bound(bs, s, w) /\ Bound(bs, t, w) => s = t
    /\ \A w \in WorkspaceLease, s \in Session, c \in Caller :
          ~(Bound(bs, s, w) /\ Candidate(ps, c, w))
    /\ \A w \in WorkspaceLease, c, d \in Caller :
          Candidate(ps, c, w) /\ Candidate(ps, d, w) => c = d
    /\ \A w \in WorkspaceLease : ls[w] # None =>
          (\E s \in Session : Bound(bs, s, w)) \/ (\E c \in Caller : Candidate(ps, c, w))
    /\ \A c \in Caller : (ps[c] # None /\ ~ps[c].provisional) =>
          /\ ps[c].expected # None
          /\ ps[c].binding.id = ps[c].expected.id
          /\ HandleOf(ps[c].binding) = HandleOf(ps[c].expected)

Leases == [WorkspaceLease -> Handle \cup {None}]
Bindings == [Session -> Binding \cup {None}]
Preparations == [Caller -> Prepared \cup {None}]

IndInv ==
    /\ Core(reg)
    /\ prepared \in Preparations
    /\ Owned(reg.leases, reg.bindings, prepared)

\* The handle of a binding is a handle.
LEMMA HandleType ==
    ASSUME NEW b \in Binding
    PROVE  HandleOf(b) \in Handle /\ HandleOf(b) # None /\ b # None /\ b.id \in WorkspaceLease
BY SMT, RegistryAssumption DEF HandleOf, Handle, Binding

\* A new provisional candidate under an unused id.
LEMMA CandidateJoins ==
    ASSUME NEW ls \in Leases, NEW bs \in Bindings, NEW ps \in Preparations, Owned(ls, bs, ps),
           NEW c \in Caller, ps[c] = None,
           NEW p \in Prepared, p.provisional, ls[p.binding.id] = None
    PROVE  Owned([ls EXCEPT ![p.binding.id] = HandleOf(p.binding)], bs, [ps EXCEPT ![c] = p])
<1>. DEFINE w == p.binding.id
            ms == [ls EXCEPT ![w] = HandleOf(p.binding)]
            qs == [ps EXCEPT ![c] = p]
<1>1. /\ p # None /\ p.binding \in Binding /\ w \in WorkspaceLease
      /\ HandleOf(p.binding) # None
      /\ \A v \in WorkspaceLease : ms[v] = IF v = w THEN HandleOf(p.binding) ELSE ls[v]
      /\ \A d \in Caller : qs[d] = IF d = c THEN p ELSE ps[d]
  BY HandleType, RegistryAssumption DEF Prepared, Leases, Preparations
<1>2. \A s \in Session : bs[s] # None => bs[s].id # w
  BY SMT, HandleType DEF Owned, Bindings
<1>3. \A d \in Caller : (ps[d] # None /\ ps[d].provisional) => ps[d].binding.id # w
  BY SMT, HandleType DEF Owned, Preparations, Prepared
<1>4. \A s \in Session : bs[s] # None => bs[s].id \in WorkspaceLease
  BY HandleType DEF Bindings
<1>5. \A d \in Caller : ps[d] # None => ps[d].binding.id \in WorkspaceLease
  BY SMTT(30), HandleType DEF Preparations, Prepared
<1>. HIDE DEF w, ms, qs
<1>. QED  BY SMT, <1>1, <1>2, <1>3, <1>4, <1>5 DEF Owned, Bound, Candidate, ms, qs, w

\* A provisional candidate that is given back.
LEMMA CandidateLeaves ==
    ASSUME NEW ls \in Leases, NEW bs \in Bindings, NEW ps \in Preparations, Owned(ls, bs, ps),
           NEW c \in Caller, ps[c] # None, ps[c].provisional
    PROVE  Owned([ls EXCEPT ![ps[c].binding.id] = None], bs, [ps EXCEPT ![c] = None])
<1>. DEFINE w == ps[c].binding.id
            ms == [ls EXCEPT ![w] = None]
            qs == [ps EXCEPT ![c] = None]
<1>1. /\ w \in WorkspaceLease
      /\ \A v \in WorkspaceLease : ms[v] = IF v = w THEN None ELSE ls[v]
      /\ \A d \in Caller : qs[d] = IF d = c THEN None ELSE ps[d]
  BY HandleType DEF Prepared, Leases, Preparations
<1>2. \A s \in Session : bs[s] # None => bs[s].id \in WorkspaceLease
  BY HandleType DEF Bindings
<1>3. \A d \in Caller : ps[d] # None => ps[d].binding.id \in WorkspaceLease
  BY HandleType DEF Preparations, Prepared
<1>. QED  BY SMT, <1>1, <1>2, <1>3 DEF Owned, Bound, Candidate

\* A session that gets a binding under an unused id.
LEMMA BindingJoins ==
    ASSUME NEW ls \in Leases, NEW bs \in Bindings, NEW ps \in Preparations, Owned(ls, bs, ps),
           NEW s \in Session, bs[s] = None, NEW b \in Binding, ls[b.id] = None
    PROVE  Owned([ls EXCEPT ![b.id] = HandleOf(b)], [bs EXCEPT ![s] = b], ps)
<1>. DEFINE ms == [ls EXCEPT ![b.id] = HandleOf(b)]
            cs == [bs EXCEPT ![s] = b]
<1>1. /\ b # None /\ b.id \in WorkspaceLease /\ HandleOf(b) # None
      /\ \A v \in WorkspaceLease : ms[v] = IF v = b.id THEN HandleOf(b) ELSE ls[v]
      /\ \A t \in Session : cs[t] = IF t = s THEN b ELSE bs[t]
  BY HandleType DEF Leases, Bindings
<1>2. \A t \in Session : bs[t] # None => bs[t].id # b.id /\ bs[t].id \in WorkspaceLease
  BY SMT, HandleType DEF Owned, Bindings
<1>3. \A d \in Caller : ps[d] # None =>
        /\ ps[d].binding.id \in WorkspaceLease
        /\ ps[d].provisional => ps[d].binding.id # b.id
  BY SMT, HandleType DEF Owned, Preparations, Prepared
<1>. QED  BY SMT, <1>1, <1>2, <1>3 DEF Owned, Bound, Candidate

\* A session that loses its binding together with its lease.
LEMMA BindingLeaves ==
    ASSUME NEW ls \in Leases, NEW bs \in Bindings, NEW ps \in Preparations, Owned(ls, bs, ps),
           NEW s \in Session, bs[s] # None
    PROVE  Owned([ls EXCEPT ![bs[s].id] = None], [bs EXCEPT ![s] = None], ps)
<1>. DEFINE w == bs[s].id
            ms == [ls EXCEPT ![w] = None]
            cs == [bs EXCEPT ![s] = None]
<1>1. /\ w \in WorkspaceLease
      /\ \A v \in WorkspaceLease : ms[v] = IF v = w THEN None ELSE ls[v]
      /\ \A t \in Session : cs[t] = IF t = s THEN None ELSE bs[t]
  BY HandleType DEF Leases, Bindings
<1>2. \A t \in Session : bs[t] # None => bs[t].id \in WorkspaceLease
  BY HandleType DEF Bindings
<1>3. \A d \in Caller : ps[d] # None => ps[d].binding.id \in WorkspaceLease
  BY SMTT(30), HandleType DEF Preparations, Prepared
<1>. QED  BY SMT, <1>1, <1>2, <1>3 DEF Owned, Bound, Candidate

\* A provisional candidate that becomes the binding of an unbound session.
LEMMA CandidatePublished ==
    ASSUME NEW ls \in Leases, NEW bs \in Bindings, NEW ps \in Preparations, Owned(ls, bs, ps),
           NEW c \in Caller, ps[c] # None, ps[c].provisional,
           NEW s \in Session, bs[s] = None
    PROVE  Owned(ls, [bs EXCEPT ![s] = ps[c].binding], [ps EXCEPT ![c] = None])
<1>. DEFINE b == ps[c].binding
            cs == [bs EXCEPT ![s] = b]
            qs == [ps EXCEPT ![c] = None]
<1>1. /\ b # None /\ b.id \in WorkspaceLease
      /\ \A t \in Session : cs[t] = IF t = s THEN b ELSE bs[t]
      /\ \A d \in Caller : qs[d] = IF d = c THEN None ELSE ps[d]
  BY HandleType DEF Prepared, Bindings, Preparations
<1>2. \A t \in Session : bs[t] # None => bs[t].id \in WorkspaceLease
  BY HandleType DEF Bindings
<1>3. \A d \in Caller : ps[d] # None => ps[d].binding.id \in WorkspaceLease
  BY HandleType DEF Preparations, Prepared
<1>. QED  BY SMT, <1>1, <1>2, <1>3 DEF Owned, Bound, Candidate

\* A binding that changes its working subdirectory only.
LEMMA BindingMoves ==
    ASSUME NEW ls \in Leases, NEW bs \in Bindings, NEW ps \in Preparations, Owned(ls, bs, ps),
           NEW s \in Session, bs[s] # None, NEW b \in Binding,
           b.id = bs[s].id, HandleOf(b) = HandleOf(bs[s])
    PROVE  Owned(ls, [bs EXCEPT ![s] = b], ps)
<1>. DEFINE cs == [bs EXCEPT ![s] = b]
<1>1. b # None /\ \A t \in Session : cs[t] = IF t = s THEN b ELSE bs[t]
  BY HandleType DEF Bindings
<1>. QED  BY SMT, <1>1 DEF Owned, Bound, Candidate

\* A candidate without a lease of its own comes or goes.
LEMMA PlainCandidate ==
    ASSUME NEW ls \in Leases, NEW bs \in Bindings, NEW ps \in Preparations, Owned(ls, bs, ps),
           NEW c \in Caller, ps[c] = None \/ ~ps[c].provisional,
           NEW p \in Prepared \cup {None},
           p # None => /\ ~p.provisional /\ p.expected # None
                       /\ p.binding.id = p.expected.id
                       /\ HandleOf(p.binding) = HandleOf(p.expected)
    PROVE  Owned(ls, bs, [ps EXCEPT ![c] = p])
<1>. DEFINE qs == [ps EXCEPT ![c] = p]
<1>1. \A d \in Caller : qs[d] = IF d = c THEN p ELSE ps[d]
  BY DEF Preparations
<1>. QED  BY SMT, <1>1 DEF Owned, Bound, Candidate

-----------------------------------------------------------------------------
\* What the operators do to the leases and the bindings.
LEMMA ReleaseFields ==
    ASSUME NEW g \in RegistryState, NEW w \in WorkspaceLease
    PROVE  /\ ReleaseLocked(g, w).leases = [g.leases EXCEPT ![w] = None]
           /\ ReleaseLocked(g, w).bindings = g.bindings
<1>1. CASE g.leases[w] = None
  BY <1>1 DEF ReleaseLocked, RegistryState
<1>2. CASE g.leases[w] # None
  BY <1>2 DEF ReleaseLocked
<1>. QED  BY <1>1, <1>2

\* Binding a session touches its binding and nothing else.
LEMMA BindEffect ==
    ASSUME NEW g, Core(g), NEW s \in Session, NEW b \in Binding \cup {None}
    PROVE  /\ Core(Bind(g, s, b))
           /\ Bind(g, s, b).leases = g.leases
           /\ Bind(g, s, b).bindings = [g.bindings EXCEPT ![s] = b]
<1>1. [g.bindings EXCEPT ![s] = b] \in [Session -> Binding \cup {None}]
  BY DEF Core, RegistryState
<1>. QED  BY <1>1, RebindCore DEF Bind, Core, RegistryState

\* How a preparation p of session s takes the registry from g to h.
PrepareOutcome(g, h, s, p) ==
    /\ p \in Prepared /\ p.session = s /\ p.expected = g.bindings[s]
    /\ Core(h) /\ h.bindings = g.bindings
    /\ ~p.provisional => /\ h = g /\ p.expected # None
                         /\ p.binding.id = p.expected.id
                         /\ HandleOf(p.binding) = HandleOf(p.expected)
    /\ p.provisional => /\ g.leases[p.binding.id] = None
                        /\ h.leases = [g.leases EXCEPT ![p.binding.id] = HandleOf(p.binding)]

\* What prepare_activation returns and registers.
LEMMA PrepareEffect ==
    ASSUME NEW g, Core(g), NEW s \in Session, NEW i \in Identity, NEW d \in Subdir,
           NEW w \in WorkspaceLease, NEW r \in Runtime,
           SameRoot(g, s, i) \/ g.leases[w] = None
    PROVE  PrepareOutcome(g, Prepare(g, s, i, w, r), s, PreparedFor(g, s, i, d, w, r))
<1>. DEFINE p == PreparedFor(g, s, i, d, w, r)
            h == Prepare(g, s, i, w, r)
<1>1. CASE SameRoot(g, s, i)
  <2>1. g.bindings[s] \in Binding /\ g.bindings[s] # None /\ g.bindings[s].identity = i
    BY <1>1 DEF SameRoot, Core, RegistryState
  <2>2. p = [session |-> s, expected |-> g.bindings[s],
             binding |-> [id |-> g.bindings[s].id, identity |-> i,
                          runtime |-> g.bindings[s].runtime, subdir |-> d],
             provisional |-> FALSE, created |-> FALSE] /\ h = g
    BY <1>1 DEF PreparedFor, Prepare
  <2>. HIDE DEF p, h
  <2>3. [id |-> g.bindings[s].id, identity |-> i, runtime |-> g.bindings[s].runtime, subdir |-> d] \in Binding
    BY <2>1 DEF Binding
  <2>4. p \in Prepared
    BY <2>1, <2>2, <2>3 DEF Prepared
  <2>5. p.session = s /\ p.expected = g.bindings[s] /\ ~p.provisional
        /\ p.binding.id = p.expected.id /\ HandleOf(p.binding) = HandleOf(p.expected)
    BY <2>1, <2>2 DEF HandleOf
  <2>6. PrepareOutcome(g, h, s, p)
    BY <2>1, <2>2, <2>4, <2>5 DEF PrepareOutcome
  <2>. QED  BY <2>6 DEF p, h
<1>2. CASE ~SameRoot(g, s, i)
  <2>1. PICK rt \in Runtime : rt = IF g.runtimes[i] = None THEN r ELSE g.runtimes[i]
    BY SMTT(30) DEF Core, RegistryState
  <2>2. p = [session |-> s, expected |-> g.bindings[s],
             binding |-> [id |-> w, identity |-> i, runtime |-> rt, subdir |-> d],
             provisional |-> TRUE, created |-> g.runtimes[i] = None]
    BY <1>2, <2>1 DEF PreparedFor
  <2>3. h = Acquire(g, i, w, r) /\ Core(h)
    BY <1>2, AcquireCore DEF Prepare
  <2>4. h.bindings = g.bindings
        /\ h.leases = [g.leases EXCEPT ![w] = [identity |-> i, runtime |-> rt]]
    BY SMT, <2>1, <2>3 DEF Acquire
  <2>. HIDE DEF p, h
  <2>5. [id |-> w, identity |-> i, runtime |-> rt, subdir |-> d] \in Binding
        /\ g.bindings[s] \in Binding \cup {None}
    BY DEF Binding, Core, RegistryState
  <2>6. p \in Prepared
    BY <2>2, <2>5 DEF Prepared
  <2>7. p.session = s /\ p.expected = g.bindings[s] /\ p.provisional /\ p.binding.id = w
        /\ HandleOf(p.binding) = [identity |-> i, runtime |-> rt]
    BY <2>2 DEF HandleOf
  <2>8. PrepareOutcome(g, h, s, p)
    BY <1>2, <2>3, <2>4, <2>6, <2>7 DEF PrepareOutcome
  <2>. QED  BY <2>8 DEF p, h
<1>. QED  BY <1>1, <1>2

\* What commit_activation publishes and releases.
LEMMA CommitEffect ==
    ASSUME NEW g, Core(g), NEW p \in Prepared
    PROVE  /\ Core(Commit(g, p))
           /\ Commit(g, p).bindings = [g.bindings EXCEPT ![p.session] = p.binding]
           /\ IF p.expected # None /\ p.provisional
              THEN Commit(g, p).leases = [g.leases EXCEPT ![p.expected.id] = None]
              ELSE Commit(g, p).leases = g.leases
<1>. DEFINE h == Bind(g, p.session, p.binding)
<1>1. p.session \in Session /\ p.binding \in Binding /\ p.expected \in Binding \cup {None}
  BY DEF Prepared
<1>2. /\ Core(h) /\ h.leases = g.leases
      /\ h.bindings = [g.bindings EXCEPT ![p.session] = p.binding]
  BY SMT, <1>1, BindEffect
<1>3. CASE p.expected # None /\ p.provisional
  <2>1. p.expected.id \in WorkspaceLease  BY <1>1, <1>3, HandleType
  <2>2. Commit(g, p) = ReleaseLocked(h, p.expected.id)  BY <1>3 DEF Commit
  <2>. HIDE DEF h
  <2>3. Core(ReleaseLocked(h, p.expected.id))  BY <1>2, <2>1, ReleaseCore
  <2>4. h \in RegistryState  BY <1>2 DEF Core
  <2>5. /\ ReleaseLocked(h, p.expected.id).leases = [h.leases EXCEPT ![p.expected.id] = None]
        /\ ReleaseLocked(h, p.expected.id).bindings = h.bindings
    BY <2>1, <2>4, ReleaseFields
  <2>. QED  BY <1>2, <1>3, <2>2, <2>3, <2>5
<1>4. CASE ~(p.expected # None /\ p.provisional)
  <2>1. Commit(g, p) = h  BY <1>4 DEF Commit
  <2>. QED  BY <1>2, <1>4, <2>1
<1>. QED  BY <1>3, <1>4

\* prepare_activation keeps the invariant.
LEMMA PrepareKeeps ==
    ASSUME IndInv, NEW c \in Caller, NEW s \in Session, NEW i \in Identity, NEW d \in Subdir,
           PrepareActivation(c, s, i, d)
    PROVE  IndInv'
<1>1. PICK w \in WorkspaceLease, r \in Constructed(i) :
        /\ SameRoot(reg, s, i) \/ Fresh(w)
        /\ reg' = Prepare(reg, s, i, w, r)
        /\ prepared' = [prepared EXCEPT ![c] = PreparedFor(reg, s, i, d, w, r)]
  BY DEF PrepareActivation
<1>2. r \in Runtime
  BY DEF Constructed, IndInv, Core, RegistryState
<1>3. SameRoot(reg, s, i) \/ reg.leases[w] = None  BY <1>1 DEF Fresh
<1>. DEFINE p == PreparedFor(reg, s, i, d, w, r)
<1>0. PrepareOutcome(reg, reg', s, p)
  BY <1>1, <1>2, <1>3, PrepareEffect DEF IndInv
<1>5. prepared' = [prepared EXCEPT ![c] = p] /\ prepared[c] = None
  BY <1>1 DEF PrepareActivation
<1>. HIDE DEF p
<1>4. /\ p \in Prepared /\ p.session = s /\ p.expected = reg.bindings[s]
      /\ Core(reg') /\ reg'.bindings = reg.bindings
      /\ ~p.provisional => /\ reg' = reg /\ p.expected # None
                           /\ p.binding.id = p.expected.id
                           /\ HandleOf(p.binding) = HandleOf(p.expected)
      /\ p.provisional => /\ reg.leases[p.binding.id] = None
                          /\ reg'.leases = [reg.leases EXCEPT ![p.binding.id] = HandleOf(p.binding)]
  BY <1>0 DEF PrepareOutcome
<1>6. /\ reg.leases \in Leases /\ reg.bindings \in Bindings /\ prepared \in Preparations
      /\ prepared' \in Preparations /\ Owned(reg.leases, reg.bindings, prepared)
  BY <1>4, <1>5 DEF IndInv, Core, RegistryState, Leases, Bindings, Preparations
<1>7. CASE p.provisional
  <2>1. Owned([reg.leases EXCEPT ![p.binding.id] = HandleOf(p.binding)], reg.bindings,
              [prepared EXCEPT ![c] = p])
    BY <1>4, <1>5, <1>6, <1>7, CandidateJoins
  <2>. QED  BY <1>4, <1>5, <1>6, <1>7, <2>1 DEF IndInv
<1>8. CASE ~p.provisional
  <2>1. Owned(reg.leases, reg.bindings, [prepared EXCEPT ![c] = p])
    BY <1>4, <1>5, <1>6, <1>8, PlainCandidate
  <2>. QED  BY <1>4, <1>5, <1>6, <1>8, <2>1 DEF IndInv
<1>. QED  BY <1>7, <1>8

\* commit_activation keeps the invariant.
LEMMA CommitKeeps ==
    ASSUME IndInv, NEW c \in Caller, CommitActivation(c)
    PROVE  IndInv'
<1>1. PICK p \in Prepared : p = prepared[c]
  BY DEF IndInv, Preparations, CommitActivation
<1>2. /\ reg' = Commit(reg, p) /\ prepared' = [prepared EXCEPT ![c] = None]
      /\ reg.bindings[p.session] = p.expected /\ p # None
  BY <1>1 DEF CommitActivation, CommitOK
<1>3. /\ Core(reg') /\ reg'.bindings = [reg.bindings EXCEPT ![p.session] = p.binding]
      /\ IF p.expected # None /\ p.provisional
         THEN reg'.leases = [reg.leases EXCEPT ![p.expected.id] = None]
         ELSE reg'.leases = reg.leases
  BY <1>2, CommitEffect DEF IndInv
<1>4. /\ reg.leases \in Leases /\ reg.bindings \in Bindings /\ prepared \in Preparations
      /\ prepared' \in Preparations /\ Owned(reg.leases, reg.bindings, prepared)
      /\ p.session \in Session /\ p.binding \in Binding
  BY <1>2 DEF IndInv, Core, RegistryState, Leases, Bindings, Preparations, Prepared
<1>5. CASE ~p.provisional
  <2>1. /\ p.expected # None /\ p.binding.id = p.expected.id
        /\ HandleOf(p.binding) = HandleOf(p.expected)
    BY <1>1, <1>2, <1>4, <1>5 DEF Owned
  <2>2. Owned(reg.leases, [reg.bindings EXCEPT ![p.session] = p.binding], prepared)
    BY <1>2, <1>4, <2>1, BindingMoves
  <2>3. [reg.bindings EXCEPT ![p.session] = p.binding] \in Bindings
    BY <1>4 DEF Bindings
  <2>4. Owned(reg.leases, [reg.bindings EXCEPT ![p.session] = p.binding], [prepared EXCEPT ![c] = None])
    BY <1>1, <1>4, <1>5, <2>2, <2>3, PlainCandidate
  <2>. QED  BY SMTT(30), <1>2, <1>3, <1>4, <1>5, <2>4 DEF IndInv
<1>6. CASE p.provisional /\ p.expected = None
  <2>1. Owned(reg.leases, [reg.bindings EXCEPT ![p.session] = p.binding], [prepared EXCEPT ![c] = None])
    BY <1>1, <1>2, <1>4, <1>6, CandidatePublished
  <2>. QED  BY <1>2, <1>3, <1>4, <1>6, <2>1 DEF IndInv
<1>7. CASE p.provisional /\ p.expected # None
  <2>. DEFINE ms == [reg.leases EXCEPT ![p.expected.id] = None]
              cs == [reg.bindings EXCEPT ![p.session] = None]
  <2>1. Owned(ms, cs, prepared)  BY <1>2, <1>4, <1>7, BindingLeaves
  <2>2. ms \in Leases /\ cs \in Bindings /\ cs[p.session] = None
    BY <1>4 DEF Leases, Bindings
  <2>3. [cs EXCEPT ![p.session] = p.binding] = [reg.bindings EXCEPT ![p.session] = p.binding]
    BY <1>4 DEF Bindings
  <2>. HIDE DEF ms, cs
  <2>4. Owned(ms, [cs EXCEPT ![p.session] = p.binding], [prepared EXCEPT ![c] = None])
    BY <1>1, <1>2, <1>4, <1>7, <2>1, <2>2, CandidatePublished
  <2>. QED  BY <1>2, <1>3, <1>4, <1>7, <2>3, <2>4 DEF IndInv, ms
<1>. QED  BY <1>5, <1>6, <1>7

\* Giving a candidate back, by abort_activation or by a refused commit.
LEMMA AbortKeeps ==
    ASSUME IndInv, NEW c \in Caller, prepared[c] # None,
           reg' = Abort(reg, prepared[c]), prepared' = [prepared EXCEPT ![c] = None]
    PROVE  IndInv'
<1>1. PICK p \in Prepared : p = prepared[c]
  BY DEF IndInv, Preparations
<1>2. /\ reg.leases \in Leases /\ reg.bindings \in Bindings /\ prepared \in Preparations
      /\ prepared' \in Preparations /\ Owned(reg.leases, reg.bindings, prepared)
      /\ p.binding.id \in WorkspaceLease /\ reg \in RegistryState /\ Core(reg)
  BY HandleType DEF IndInv, Core, RegistryState, Leases, Bindings, Preparations, Prepared
<1>3. CASE p.provisional
  <2>1. reg' = ReleaseLocked(reg, p.binding.id)  BY <1>1, <1>3 DEF Abort
  <2>2. /\ Core(reg') /\ reg'.leases = [reg.leases EXCEPT ![p.binding.id] = None]
        /\ reg'.bindings = reg.bindings
    BY SMT, <1>2, <2>1, ReleaseCore, ReleaseFields
  <2>3. Owned([reg.leases EXCEPT ![p.binding.id] = None], reg.bindings, [prepared EXCEPT ![c] = None])
    BY <1>1, <1>2, <1>3, CandidateLeaves
  <2>. QED  BY <1>2, <2>2, <2>3 DEF IndInv
<1>4. CASE ~p.provisional
  <2>1. reg' = reg  BY <1>1, <1>4 DEF Abort
  <2>2. Owned(reg.leases, reg.bindings, [prepared EXCEPT ![c] = None])
    BY <1>1, <1>2, <1>4, PlainCandidate
  <2>. QED  BY <1>2, <2>1, <2>2 DEF IndInv
<1>. QED  BY <1>3, <1>4

\* activate keeps the invariant.
LEMMA ActivateKeeps ==
    ASSUME IndInv, NEW s \in Session, NEW i \in Identity, NEW d \in Subdir,
           ActivateDirectly(s, i, d)
    PROVE  IndInv'
<1>1. PICK w \in WorkspaceLease, r \in Constructed(i) :
        /\ SameRoot(reg, s, i) \/ Fresh(w)
        /\ reg' = Activate(reg, s, i, d, w, r)
  BY DEF ActivateDirectly
<1>2. r \in Runtime
  BY DEF Constructed, IndInv, Core, RegistryState
<1>3. SameRoot(reg, s, i) \/ reg.leases[w] = None  BY <1>1 DEF Fresh
<1>. DEFINE p == PreparedFor(reg, s, i, d, w, r)
            h == Prepare(reg, s, i, w, r)
<1>0. PrepareOutcome(reg, h, s, p)
  BY <1>1, <1>2, <1>3, PrepareEffect DEF IndInv
<1>5. reg' = Commit(h, p) /\ prepared' = prepared
  BY <1>1 DEF Activate, ActivateDirectly
<1>. HIDE DEF p, h
<1>4. /\ p \in Prepared /\ p.session = s /\ p.expected = reg.bindings[s]
      /\ Core(h) /\ h.bindings = reg.bindings
  BY <1>0 DEF PrepareOutcome
<1>6. /\ Core(reg') /\ reg'.bindings = [reg.bindings EXCEPT ![s] = p.binding]
      /\ IF p.expected # None /\ p.provisional
         THEN reg'.leases = [h.leases EXCEPT ![p.expected.id] = None]
         ELSE reg'.leases = h.leases
  BY SMT, <1>4, <1>5, CommitEffect
<1>7. /\ reg.leases \in Leases /\ reg.bindings \in Bindings /\ prepared \in Preparations
      /\ Owned(reg.leases, reg.bindings, prepared)
  BY DEF IndInv, Core, RegistryState, Leases, Bindings, Preparations
<1>11. p.binding \in Binding  BY <1>4 DEF Prepared
<1>8. CASE ~p.provisional
  <2>1. /\ h = reg /\ reg.bindings[s] # None /\ p.binding.id = reg.bindings[s].id
        /\ HandleOf(p.binding) = HandleOf(reg.bindings[s])
    BY <1>0, <1>4, <1>8 DEF PrepareOutcome
  <2>2. Owned(reg.leases, [reg.bindings EXCEPT ![s] = p.binding], prepared)
    BY SMTT(30), <1>7, <1>11, <2>1, BindingMoves
  <2>. QED  BY <1>5, <1>6, <1>7, <1>8, <2>1, <2>2 DEF IndInv
<1>9. CASE p.provisional /\ p.expected = None
  <2>1. /\ reg.leases[p.binding.id] = None /\ reg.bindings[s] = None
        /\ h.leases = [reg.leases EXCEPT ![p.binding.id] = HandleOf(p.binding)]
    BY <1>0, <1>4, <1>9 DEF PrepareOutcome
  <2>2. Owned([reg.leases EXCEPT ![p.binding.id] = HandleOf(p.binding)],
              [reg.bindings EXCEPT ![s] = p.binding], prepared)
    BY SMTT(30), <1>7, <1>11, <2>1, BindingJoins
  <2>. QED  BY <1>5, <1>6, <1>7, <1>9, <2>1, <2>2 DEF IndInv
<1>10. CASE p.provisional /\ p.expected # None
  <2>. DEFINE old == reg.bindings[s]
              ms == [reg.leases EXCEPT ![old.id] = None]
              cs == [reg.bindings EXCEPT ![s] = None]
  <2>1. /\ reg.leases[p.binding.id] = None /\ p.expected = old /\ old # None
        /\ h.leases = [reg.leases EXCEPT ![p.binding.id] = HandleOf(p.binding)]
    BY <1>0, <1>4, <1>10 DEF PrepareOutcome
  <2>2. Owned(ms, cs, prepared)  BY <1>7, <2>1, BindingLeaves
  <2>3. old \in Binding  BY SMTT(30), <1>7, <2>1 DEF Bindings
  <2>4. reg.leases[old.id] # None  BY <1>7, <2>1, <2>3, HandleType DEF Owned
  <2>5. /\ old.id \in WorkspaceLease /\ p.binding.id \in WorkspaceLease
        /\ p.binding.id # old.id
    BY <1>11, <2>1, <2>3, <2>4, HandleType
  <2>6. /\ ms \in Leases /\ cs \in Bindings /\ cs[s] = None /\ ms[p.binding.id] = None
    BY SMTT(30), <1>7, <2>1, <2>5 DEF Leases, Bindings
  <2>7. /\ [cs EXCEPT ![s] = p.binding] = [reg.bindings EXCEPT ![s] = p.binding]
        /\ [ms EXCEPT ![p.binding.id] = HandleOf(p.binding)]
             = [[reg.leases EXCEPT ![p.binding.id] = HandleOf(p.binding)] EXCEPT ![old.id] = None]
    BY <1>7, <2>5 DEF Bindings, Leases
  <2>. HIDE DEF ms, cs
  <2>8. Owned([ms EXCEPT ![p.binding.id] = HandleOf(p.binding)], [cs EXCEPT ![s] = p.binding], prepared)
    BY <1>7, <1>11, <2>2, <2>6, BindingJoins
  <2>. HIDE DEF old
  <2>9. reg'.leases = [h.leases EXCEPT ![old.id] = None]  BY <1>6, <1>10, <2>1
  <2>. QED  BY SMT, <1>5, <1>6, <1>7, <2>1, <2>7, <2>8, <2>9 DEF IndInv
<1>. QED  BY <1>8, <1>9, <1>10

\* release keeps the invariant.
LEMMA ReleaseKeeps ==
    ASSUME IndInv, NEW s \in Session, reg.bindings[s] # None,
           reg' = Release(reg, s), prepared' = prepared
    PROVE  IndInv'
<1>1. /\ reg.leases \in Leases /\ reg.bindings \in Bindings /\ prepared \in Preparations
      /\ Owned(reg.leases, reg.bindings, prepared) /\ Core(reg)
      /\ reg.bindings[s].id \in WorkspaceLease
  BY HandleType DEF IndInv, Core, RegistryState, Leases, Bindings
<1>. DEFINE h == Bind(reg, s, None)
<1>2. /\ Core(h) /\ h.leases = reg.leases
      /\ h.bindings = [reg.bindings EXCEPT ![s] = None]
  BY SMT, <1>1, BindEffect
<1>3. reg' = ReleaseLocked(h, reg.bindings[s].id)  BY DEF Release
<1>. HIDE DEF h
<1>4. /\ Core(reg') /\ reg'.leases = [reg.leases EXCEPT ![reg.bindings[s].id] = None]
      /\ reg'.bindings = [reg.bindings EXCEPT ![s] = None]
  <2>1. h \in RegistryState  BY <1>2 DEF Core
  <2>. QED  BY SMT, <1>1, <1>2, <1>3, <2>1, ReleaseCore, ReleaseFields
<1>5. Owned([reg.leases EXCEPT ![reg.bindings[s].id] = None], [reg.bindings EXCEPT ![s] = None], prepared)
  BY SMTT(30), <1>1, BindingLeaves
<1>. QED  BY <1>1, <1>4, <1>5 DEF IndInv

\* For a lease that a session is bound through, release_lease is release: no
\* other session shares the lease.
LEMMA ReleaseLeaseIsRelease ==
    ASSUME IndInv, NEW s \in Session, reg.bindings[s] # None
    PROVE  ReleaseLease(reg, reg.bindings[s].id) = Release(reg, s)
<1>. DEFINE w == reg.bindings[s].id
            cs == [t \in Session |-> IF reg.bindings[t] # None /\ reg.bindings[t].id = w
                                     THEN None ELSE reg.bindings[t]]
<1>1. /\ reg.bindings \in Bindings /\ Owned(reg.leases, reg.bindings, prepared)
      /\ w \in WorkspaceLease /\ reg.leases[w] # None
  BY HandleType DEF IndInv, Core, RegistryState, Bindings, Owned
<1>2. cs = [reg.bindings EXCEPT ![s] = None]
  <2>1. \A t \in Session : (reg.bindings[t] # None /\ reg.bindings[t].id = w) <=> t = s
    BY <1>1 DEF Owned, Bound
  <2>. QED  BY SMTT(30), <1>1, <2>1 DEF Bindings
<1>3. ReleaseLease(reg, w) = ReleaseLocked([reg EXCEPT !.bindings = cs], w)
  BY <1>1 DEF ReleaseLease
<1>. QED  BY <1>2, <1>3 DEF Release, Bind

\* The empty registry satisfies the invariant.
LEMMA InitIndInv == Init => IndInv
<1>. SUFFICES ASSUME Init PROVE IndInv  OBVIOUS
<1>1. reg \in RegistryState  BY SMTT(30) DEF Init, EmptyRegistry, RegistryState
<1>2. \A i \in Identity : LeasesOf(reg, i) = {}  BY DEF Init, EmptyRegistry, LeasesOf
<1>3. Counted(reg)  BY SMTT(30), <1>2, FS_EmptySet DEF Init, EmptyRegistry, Counted
<1>4. Stays(reg)  BY DEF Init, EmptyRegistry, Stays
<1>5. Owned(reg.leases, reg.bindings, prepared)
  BY DEF Init, EmptyRegistry, Owned, Bound, Candidate
<1>. QED  BY <1>1, <1>3, <1>4, <1>5 DEF IndInv, Core, Init, Preparations

\* Every step keeps the invariant.
LEMMA NextIndInv == IndInv /\ [Next]_vars => IndInv'
<1>. SUFFICES ASSUME IndInv, [Next]_vars PROVE IndInv'  OBVIOUS
<1>1. ASSUME NEW c \in Caller, NEW s \in Session, NEW i \in Identity, NEW d \in Subdir,
             PrepareActivation(c, s, i, d)
      PROVE  IndInv'
  BY <1>1, PrepareKeeps
<1>2. ASSUME NEW c \in Caller, CommitActivation(c) PROVE IndInv'
  BY <1>2, CommitKeeps
<1>3. ASSUME NEW c \in Caller, CommitRefused(c) \/ AbortActivation(c) PROVE IndInv'
  BY <1>3, AbortKeeps DEF CommitRefused, AbortActivation
<1>4. ASSUME NEW s \in Session, NEW i \in Identity, NEW d \in Subdir, ActivateDirectly(s, i, d)
      PROVE  IndInv'
  BY <1>4, ActivateKeeps
<1>5. ASSUME NEW s \in Session, ReleaseSession(s) PROVE IndInv'
  BY <1>5, ReleaseKeeps DEF ReleaseSession
<1>6. ASSUME NEW s \in Session, ReleaseById(s) PROVE IndInv'
  BY <1>6, ReleaseKeeps, ReleaseLeaseIsRelease DEF ReleaseById
<1>7. ASSUME NEW i \in Identity, Retire(i) PROVE IndInv'
  <2>1. Core(reg')  BY <1>7, RetireCore DEF Retire, IndInv
  <2>2. reg'.leases = reg.leases /\ reg'.bindings = reg.bindings /\ prepared' = prepared
    BY <1>7 DEF Retire, RetireIdle, IndInv, Core, RegistryState
  <2>. QED  BY <2>1, <2>2 DEF IndInv
<1>8. CASE UNCHANGED vars  BY <1>8 DEF vars, IndInv
<1>. QED  BY <1>1, <1>2, <1>3, <1>4, <1>5, <1>6, <1>7, <1>8 DEF Next

\* The inductive invariant holds in every reachable state.
LEMMA IndInvAlways == Spec => []IndInv
BY InitIndInv, NextIndInv, PTL DEF Spec

\* Every value the registry holds has its type, whatever the callers do.
THEOREM TypeCorrect == Spec => []TypeOK
<1>1. IndInv => TypeOK  BY DEF IndInv, Core, TypeOK, Preparations
<1>. QED  BY <1>1, IndInvAlways, PTL

\* The reference counts are exact: _release_locked never underflows and
\* retire_idle never sees zero for a leased runtime.
THEOREM RefcountExactAlways == Spec => []RefcountExact
<1>1. IndInv => RefcountExact  BY DEF IndInv, Core, Counted, RefcountExact
<1>. QED  BY <1>1, IndInvAlways, PTL

\* A leased runtime stays the registry's runtime of its identity.
THEOREM LeasedRuntimeStaysAlways == Spec => []LeasedRuntimeStays
<1>1. IndInv => LeasedRuntimeStays  BY DEF IndInv, Core, Stays, LeasedRuntimeStays
<1>. QED  BY <1>1, IndInvAlways, PTL

\* Every binding is backed by a live lease that no other session shares.
THEOREM BindingsBackedAlways == Spec => []BindingsBacked
<1>1. IndInv => BindingsBacked
  <2>. SUFFICES ASSUME IndInv PROVE BindingsBacked  OBVIOUS
  <2>1. \A s \in Session : reg.bindings[s] # None => reg.bindings[s].id \in WorkspaceLease
    BY SMTT(30), HandleType DEF IndInv, Core, RegistryState
  <2>. QED  BY SMT, <2>1 DEF IndInv, Owned, Bound, BindingsBacked
<1>. QED  BY <1>1, IndInvAlways, PTL

\* No lease leaks from an activation that is aborted, refused or overtaken.
THEOREM NoLeakedLeaseAlways == Spec => []NoLeakedLease
<1>1. IndInv => NoLeakedLease  BY DEF IndInv, Owned, Bound, Candidate, NoLeakedLease
<1>. QED  BY <1>1, IndInvAlways, PTL
=============================================================================
