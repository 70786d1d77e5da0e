---------------------------- MODULE LeasesProofs ----------------------------
(***************************************************************************)
(* The invariants of Leases for every set of leases, identities and        *)
(* runtimes and every Expiry and Grace, and the proof that the lifecycle   *)
(* implements SharedWorkspaces.                                            *)
(***************************************************************************)
EXTENDS Leases, TLAPS

USE Zenon  \* the default; SMT is named where it is needed

Table == [Lease -> Binding \cup {None}]
Workspaces == [Identity -> WorkspaceState \cup {None}]

\* The leases that the table bnd binds to workspace i.
BoundTo(bnd, i) == {l \in Lease : bnd[l] # None /\ bnd[l].identity = i}

\* HoldersAgree and GraceIffUnheld as one relation between the two tables, so
\* that a method that changes them twice (rebind) is two changes here.
Agree(ws, bnd) ==
    \A i \in Identity :
        IF ws[i] = None
        THEN BoundTo(bnd, i) = {}
        ELSE /\ ws[i].holders = BoundTo(bnd, i)
             /\ \A l \in BoundTo(bnd, i) : bnd[l].runtime = ws[i].runtime
             /\ ws[i].holders = {} <=> ws[i].grace # NoDeadline

\* A lease that has ended is bound to nothing, and an id is issued before it
\* is active or expired and is never both.
LeaseTableOK ==
    /\ \A l \in Lease \ active : binding[l] = None
    /\ active \subseteq issued /\ expired \subseteq issued
    /\ active \cap expired = {}

IndInv == TypeOK /\ LeaseTableOK /\ Agree(workspaces, binding)

\* RemoveHolder changes only workspace i, which either keeps its other holders,
\* disappears (immediate) or becomes warm.
LEMMA RemoveHolderEffect ==
    ASSUME NEW ws \in Workspaces,
           NEW l \in Lease, NEW i \in Identity, NEW immediate \in BOOLEAN,
           ws[i] # None
    PROVE  /\ RemoveHolder(ws, l, i, immediate) \in Workspaces
           /\ \A j \in Identity \ {i} : RemoveHolder(ws, l, i, immediate)[j] = ws[j]
           /\ LET new == RemoveHolder(ws, l, i, immediate)[i]
                  rest == ws[i].holders \ {l}
              IN  IF rest = {} /\ immediate
                  THEN new = None
                  ELSE /\ new # None
                       /\ new.runtime = ws[i].runtime
                       /\ new.holders = rest
                       /\ rest = {} => new.grace = Grace
                       /\ rest # {} => new.grace = ws[i].grace
  <1> DEFINE rest == ws[i].holders \ {l}
             upd == [runtime |-> ws[i].runtime, holders |-> rest,
                     grace |-> IF rest = {} THEN Grace ELSE ws[i].grace]
  <1>1. ws[i] \in WorkspaceState
    BY DEF Workspaces
  <1>2. /\ upd \in WorkspaceState
        /\ upd.runtime = ws[i].runtime
        /\ upd.holders = rest
        /\ upd.grace = IF rest = {} THEN Grace ELSE ws[i].grace
    BY SMT, <1>1, IntervalAssumption DEF WorkspaceState
  <1>3. upd # None
    BY <1>2, NoneAssumption
  <1>4. RemoveHolder(ws, l, i, immediate)
          = [ws EXCEPT ![i] = IF rest = {} /\ immediate THEN None ELSE upd]
    BY DEF RemoveHolder
  <1> HIDE DEF upd, rest
  <1>5. QED
    BY <1>2, <1>3, <1>4 DEF rest, Workspaces

\* AddHolder changes only the workspace of the binding, which is then held.
LEMMA AddHolderEffect ==
    ASSUME NEW ws \in Workspaces,
           NEW l \in Lease, NEW b \in Binding
    PROVE  /\ AddHolder(ws, l, b) \in Workspaces
           /\ \A j \in Identity \ {b.identity} : AddHolder(ws, l, b)[j] = ws[j]
           /\ LET new == AddHolder(ws, l, b)[b.identity]
                  old == ws[b.identity]
              IN  /\ new # None
                  /\ IF old = None
                     THEN new.runtime = b.runtime /\ new.holders = {l}
                     ELSE new.runtime = old.runtime /\ new.holders = old.holders \cup {l}
                  /\ new.grace = NoDeadline
  <1> DEFINE old == ws[b.identity]
             upd == [runtime |-> IF old = None THEN b.runtime ELSE old.runtime,
                     holders |-> IF old = None THEN {l} ELSE old.holders \cup {l},
                     grace   |-> NoDeadline]
  <1>1. b.identity \in Identity /\ b.runtime \in Runtime
    BY DEF Binding
  <1>2. old # None => old \in WorkspaceState
    BY <1>1 DEF Workspaces
  <1>3. upd \in WorkspaceState
    BY <1>1, <1>2 DEF WorkspaceState
  <1>4. upd # None
    BY <1>3, NoneAssumption
  <1>5. AddHolder(ws, l, b) = [ws EXCEPT ![b.identity] = upd]
    BY DEF AddHolder
  <1>6. QED
    BY SMT, <1>1, <1>3, <1>4, <1>5 DEF Workspaces


\* The workspace of a bound lease exists and has it as a holder.
LEMMA BoundLeaseHolds ==
    ASSUME NEW ws \in Workspaces, NEW bnd \in Table, Agree(ws, bnd),
           NEW l \in Lease, bnd[l] # None
    PROVE  /\ bnd[l] \in Binding
           /\ bnd[l].identity \in Identity
           /\ ws[bnd[l].identity] # None
           /\ l \in ws[bnd[l].identity].holders
  <1>1. bnd[l] \in Binding
    BY DEF Table
  <1>2. bnd[l].identity \in Identity /\ l \in BoundTo(bnd, bnd[l].identity)
    BY <1>1 DEF Binding, BoundTo
  <1>3. QED
    BY <1>1, <1>2 DEF Agree

\* Unbinding a lease and taking it from its workspace keeps the tables in step;
\* a workspace it vacates gets its deadline or disappears.
LEMMA HolderLeaves ==
    ASSUME NEW ws \in Workspaces, NEW bnd \in Table, Agree(ws, bnd),
           NEW l \in Lease, bnd[l] # None, NEW immediate \in BOOLEAN
    PROVE  Agree(RemoveHolder(ws, l, bnd[l].identity, immediate), [bnd EXCEPT ![l] = None])
  <1> DEFINE i0  == bnd[l].identity
             new == RemoveHolder(ws, l, i0, immediate)
             out == [bnd EXCEPT ![l] = None]
  <1>1. i0 \in Identity /\ ws[i0] # None /\ l \in ws[i0].holders
    BY BoundLeaseHolds
  <1>2. \A j \in Identity : BoundTo(out, j) = BoundTo(bnd, j) \ {l}
    BY DEF BoundTo, Table
  <1>3. \A j \in Identity : j # i0 => l \notin BoundTo(bnd, j)
    BY DEF BoundTo
  <1>4. \A m \in Lease : m # l => out[m] = bnd[m]
    BY DEF Table
  <1>5. /\ \A j \in Identity \ {i0} : new[j] = ws[j]
        /\ LET rest == ws[i0].holders \ {l}
           IN  IF rest = {} /\ immediate
               THEN new[i0] = None
               ELSE /\ new[i0] # None
                    /\ new[i0].runtime = ws[i0].runtime
                    /\ new[i0].holders = rest
                    /\ rest = {} => new[i0].grace = Grace
                    /\ rest # {} => new[i0].grace = ws[i0].grace
    BY SMT, <1>1, RemoveHolderEffect
  <1> SUFFICES ASSUME NEW j \in Identity
               PROVE  IF new[j] = None THEN BoundTo(out, j) = {}
                      ELSE /\ new[j].holders = BoundTo(out, j)
                           /\ \A m \in BoundTo(out, j) : out[m].runtime = new[j].runtime
                           /\ new[j].holders = {} <=> new[j].grace # NoDeadline
    BY DEF Agree
  <1> HIDE DEF i0, new, out
  <1>6. CASE j = i0
    <2>1. /\ ws[j].holders = BoundTo(bnd, j)
          /\ \A m \in BoundTo(bnd, j) : bnd[m].runtime = ws[j].runtime
          /\ ws[j].holders = {} <=> ws[j].grace # NoDeadline
      BY <1>1, <1>6 DEF Agree
    <2>2. BoundTo(out, j) = ws[j].holders \ {l}
      BY <1>2, <2>1
    <2>3. \A m \in BoundTo(out, j) : out[m].runtime = ws[j].runtime
      BY SMT, <1>2, <1>4, <2>1 DEF BoundTo
    <2>4. Grace # NoDeadline
      BY SMT, IntervalAssumption DEF NoDeadline
    <2>5. QED
      BY <1>1, <1>5, <1>6, <2>1, <2>2, <2>3, <2>4
  <1>7. CASE j # i0
    <2>1. new[j] = ws[j]
      BY <1>5, <1>7
    <2>2. l \notin BoundTo(bnd, j) /\ BoundTo(out, j) = BoundTo(bnd, j) \ {l}
      BY <1>2, <1>3, <1>7
    <2>3. BoundTo(out, j) = BoundTo(bnd, j)
      BY <2>2
    <2>4. \A m \in BoundTo(bnd, j) : out[m] = bnd[m]
      BY <1>4, <2>2 DEF BoundTo
    <2>5. QED
      BY SMT, <2>1, <2>3, <2>4 DEF Agree
  <1>8. QED
    BY <1>6, <1>7

\* Binding an unbound lease and adding it to the workspace keeps the tables in
\* step, provided the binding names the runtime the workspace already has.
LEMMA HolderJoins ==
    ASSUME NEW ws \in Workspaces, NEW bnd \in Table, Agree(ws, bnd),
           NEW l \in Lease, bnd[l] = None, NEW b \in Binding,
           ws[b.identity] # None => ws[b.identity].runtime = b.runtime
    PROVE  Agree(AddHolder(ws, l, b), [bnd EXCEPT ![l] = b])
  <1> DEFINE i0  == b.identity
             new == AddHolder(ws, l, b)
             out == [bnd EXCEPT ![l] = b]
  <1>1. i0 \in Identity /\ b # None
    BY NoneAssumption DEF Binding
  <1>2. \A j \in Identity : BoundTo(out, j) = IF j = i0 THEN BoundTo(bnd, j) \cup {l}
                                                       ELSE BoundTo(bnd, j)
    BY <1>1 DEF BoundTo, Table
  <1>3. /\ out[l] = b
        /\ \A m \in Lease : m # l => out[m] = bnd[m]
        /\ \A j \in Identity : l \notin BoundTo(bnd, j)
    BY DEF Table, BoundTo
  <1>4. /\ \A j \in Identity \ {i0} : new[j] = ws[j]
        /\ new[i0] # None
        /\ IF ws[i0] = None
           THEN new[i0].runtime = b.runtime /\ new[i0].holders = {l}
           ELSE new[i0].runtime = ws[i0].runtime /\ new[i0].holders = ws[i0].holders \cup {l}
        /\ new[i0].grace = NoDeadline
    BY SMT, AddHolderEffect
  <1>5. new[i0].runtime = b.runtime
    BY <1>4
  <1> SUFFICES ASSUME NEW j \in Identity
               PROVE  IF new[j] = None THEN BoundTo(out, j) = {}
                      ELSE /\ new[j].holders = BoundTo(out, j)
                           /\ \A m \in BoundTo(out, j) : out[m].runtime = new[j].runtime
                           /\ new[j].holders = {} <=> new[j].grace # NoDeadline
    BY DEF Agree
  <1>6. \A m \in BoundTo(bnd, j) : out[m] = bnd[m]
    BY <1>3 DEF BoundTo
  <1> HIDE DEF new, out
  <1>7. CASE j = i0
    <2>1. BoundTo(out, j) = BoundTo(bnd, j) \cup {l}
      BY <1>2, <1>7
    <2>2. IF ws[j] = None THEN BoundTo(bnd, j) = {}
          ELSE /\ ws[j].holders = BoundTo(bnd, j)
               /\ \A m \in BoundTo(bnd, j) : bnd[m].runtime = ws[j].runtime
      BY DEF Agree
    <2>3. new[j].holders = BoundTo(bnd, j) \cup {l}
      BY <1>4, <1>7, <2>2
    <2>4. \A m \in BoundTo(bnd, j) : out[m].runtime = b.runtime
      BY <1>6, <1>7, <2>2
    <2>5. QED
      BY <1>3, <1>4, <1>5, <1>7, <2>1, <2>3, <2>4
  <1>8. CASE j # i0
    <2>1. new[j] = ws[j] /\ BoundTo(out, j) = BoundTo(bnd, j)
      BY <1>2, <1>4, <1>8
    <2>2. QED
      BY SMT, <1>6, <2>1 DEF Agree
  <1>9. QED
    BY <1>7, <1>8

\* The first loop of sweep on workspace i: the lapsed holders are gone, and if
\* that vacated the workspace its grace starts.
LEMMA AfterExpiryEffect ==
    ASSUME TypeOK, NEW i \in Identity
    PROVE  IF workspaces[i] = None
           THEN AfterExpiry(i) = None
           ELSE LET rest == {l \in workspaces[i].holders : ~Lapsed(l)}
                IN  /\ AfterExpiry(i) \in WorkspaceState /\ AfterExpiry(i) # None
                    /\ AfterExpiry(i).runtime = workspaces[i].runtime
                    /\ AfterExpiry(i).holders = rest
                    /\ AfterExpiry(i).grace = IF rest = {} /\ workspaces[i].holders # {}
                                              THEN Grace ELSE workspaces[i].grace
  <1>1. CASE workspaces[i] = None
    BY <1>1 DEF AfterExpiry
  <1>2. CASE workspaces[i] # None
    <2> DEFINE rest == {l \in workspaces[i].holders : ~Lapsed(l)}
               upd == [runtime |-> workspaces[i].runtime,
                       holders |-> rest,
                       grace   |-> IF rest = {} /\ workspaces[i].holders # {}
                                   THEN Grace ELSE workspaces[i].grace]
    <2>1. workspaces[i] \in WorkspaceState
      BY <1>2 DEF TypeOK
    <2>2. rest \in SUBSET Lease
      BY <2>1 DEF WorkspaceState
    <2>3. AfterExpiry(i) = upd
      BY <1>2 DEF AfterExpiry
    <2> HIDE DEF rest
    <2>4. upd \in WorkspaceState
      BY SMT, <2>1, <2>2, IntervalAssumption DEF WorkspaceState
    <2>5. upd # None
      BY <2>4, NoneAssumption
    <2>6. QED
      BY SMT, <1>2, <2>3, <2>4, <2>5 DEF rest
  <1>3. QED
    BY <1>1, <1>2

\* The empty lifecycle of __init__ satisfies the inductive invariant.
LEMMA InitIndInv == Init => IndInv
  <1> SUFFICES ASSUME Init PROVE IndInv
    OBVIOUS
  <1>1. TypeOK
    BY SMT, IntervalAssumption DEF Init, TypeOK
  <1>2. LeaseTableOK /\ Agree(workspaces, binding)
    BY DEF Init, LeaseTableOK, Agree, BoundTo
  <1>3. QED
    BY <1>1, <1>2 DEF IndInv

\* sweep keeps the invariant: all lapsed leases leave at once.
LEMMA SweepKeeps == ASSUME IndInv, Sweep PROVE IndInv'
  <1> DEFINE lapsed == {l \in Lease : Lapsed(l)}
  <1>1. TypeOK /\ LeaseTableOK /\ Agree(workspaces, binding)
    BY DEF IndInv
  <1>2. /\ active' = active \ lapsed /\ expired' = expired \cup lapsed /\ issued' = issued
        /\ binding' = [l \in Lease |-> IF l \in lapsed THEN None ELSE binding[l]]
        /\ age' = [l \in Lease |-> IF l \in lapsed THEN 0 ELSE age[l]]
        /\ workspaces' = [i \in Identity |-> IF i \in GraceOver THEN None ELSE AfterExpiry(i)]
    BY DEF Sweep
  <1>3. lapsed \subseteq active
    BY DEF Lapsed
  <1>4. workspaces' \in Workspaces
    BY <1>1, <1>2, AfterExpiryEffect DEF Workspaces
  <1> HIDE DEF lapsed
  <1>5. TypeOK'
    BY SMT, <1>1, <1>2, <1>3, <1>4, IntervalAssumption DEF TypeOK, Workspaces
  <1>6. LeaseTableOK'
    BY <1>1, <1>2, <1>3 DEF TypeOK, LeaseTableOK
  <1>7. ASSUME NEW i \in Identity
        PROVE  IF workspaces'[i] = None THEN BoundTo(binding', i) = {}
               ELSE /\ workspaces'[i].holders = BoundTo(binding', i)
                    /\ \A l \in BoundTo(binding', i) : binding'[l].runtime = workspaces'[i].runtime
                    /\ workspaces'[i].holders = {} <=> workspaces'[i].grace # NoDeadline
    <2>1. BoundTo(binding', i) = {l \in BoundTo(binding, i) : ~Lapsed(l)}
      BY <1>2 DEF BoundTo, lapsed
    <2>2. \A l \in BoundTo(binding', i) : l \in BoundTo(binding, i) /\ binding'[l] = binding[l]
      BY <1>2 DEF BoundTo
    <2>3. CASE workspaces[i] = None
      <3>1. AfterExpiry(i) = None
        BY <1>1, <2>3, AfterExpiryEffect
      <3>2. workspaces'[i] = None
        BY <1>2, <3>1
      <3>3. QED
        BY <1>1, <2>1, <2>3, <3>2 DEF Agree
    <2>4. CASE workspaces[i] # None
      <3>1. /\ workspaces[i].holders = BoundTo(binding, i)
            /\ \A l \in BoundTo(binding, i) : binding[l].runtime = workspaces[i].runtime
            /\ workspaces[i].holders = {} <=> workspaces[i].grace # NoDeadline
        BY <1>1, <2>4 DEF Agree
      <3>2. /\ AfterExpiry(i) # None
            /\ AfterExpiry(i).runtime = workspaces[i].runtime
            /\ AfterExpiry(i).holders = BoundTo(binding', i)
            /\ AfterExpiry(i).grace = IF BoundTo(binding', i) = {} /\ workspaces[i].holders # {}
                                      THEN Grace ELSE workspaces[i].grace
        BY <1>1, <2>1, <2>4, <3>1, AfterExpiryEffect
      <3>3. Grace # NoDeadline
        BY SMT, IntervalAssumption DEF NoDeadline
      <3>4. BoundTo(binding, i) = {} => BoundTo(binding', i) = {}
        BY <2>1
      <3>5. AfterExpiry(i).holders = {} <=> AfterExpiry(i).grace # NoDeadline
        BY <3>1, <3>2, <3>3, <3>4
      <3>6. CASE i \in GraceOver
        BY <1>2, <3>2, <3>6 DEF GraceOver
      <3>7. CASE i \notin GraceOver
        BY <1>2, <2>2, <3>1, <3>2, <3>5, <3>7
      <3>8. QED
        BY <3>6, <3>7
    <2>5. QED
      BY <2>3, <2>4
  <1>8. Agree(workspaces', binding')
    BY <1>7 DEF Agree
  <1>9. QED
    BY <1>5, <1>6, <1>8 DEF IndInv

\* The clock keeps the invariant: it starts and clears no deadline.
LEMMA TickKeeps == ASSUME IndInv, Tick PROVE IndInv'
  <1>1. TypeOK /\ LeaseTableOK /\ Agree(workspaces, binding)
    BY DEF IndInv
  <1>2. age' \in [Lease -> 0..Expiry]
    BY SMT, <1>1, IntervalAssumption DEF Tick, TypeOK, Live
  <1>3. ASSUME NEW i \in Identity
        PROVE  IF workspaces[i] = None THEN workspaces'[i] = None
               ELSE /\ workspaces'[i] \in WorkspaceState /\ workspaces'[i] # None
                    /\ workspaces'[i].runtime = workspaces[i].runtime
                    /\ workspaces'[i].holders = workspaces[i].holders
                    /\ workspaces'[i].grace # NoDeadline <=> workspaces[i].grace # NoDeadline
    <2>1. CASE workspaces[i] = None
      BY <2>1 DEF Tick
    <2>2. CASE workspaces[i] # None /\ workspaces[i].grace > 0
      <3>1. workspaces[i] \in WorkspaceState
        BY <1>1, <2>2 DEF TypeOK
      <3>2. workspaces'[i] = [workspaces[i] EXCEPT !.grace = @ - 1]
        BY <2>2 DEF Tick
      <3>3. /\ workspaces[i].grace \in 0..Grace /\ workspaces[i].grace - 1 \in 0..Grace
            /\ workspaces[i].grace # NoDeadline /\ workspaces[i].grace - 1 # NoDeadline
        BY SMT, <2>2, <3>1, IntervalAssumption DEF WorkspaceState, NoDeadline
      <3>4. workspaces'[i] \in WorkspaceState
        BY <3>1, <3>2, <3>3 DEF WorkspaceState
      <3>5. QED
        BY <2>2, <3>1, <3>2, <3>3, <3>4, NoneAssumption DEF WorkspaceState
    <2>3. CASE workspaces[i] # None /\ ~(workspaces[i].grace > 0)
      BY <1>1, <2>3 DEF Tick, TypeOK
    <2>4. QED
      BY <2>1, <2>2, <2>3
  <1>4. workspaces' \in Workspaces
    BY <1>3 DEF Tick, Workspaces
  <1>5. TypeOK' /\ LeaseTableOK'
    BY <1>1, <1>2, <1>4 DEF Tick, TypeOK, LeaseTableOK, Workspaces
  <1>6. Agree(workspaces', binding)
    BY <1>1, <1>3 DEF Agree
  <1>7. QED
    BY <1>5, <1>6 DEF Tick, IndInv

\* _end_locked keeps the invariant; release and every expiry go through it.
LEMMA EndLeaseKeeps ==
    ASSUME IndInv, NEW l \in active, NEW immediate \in BOOLEAN, EndLease(l, immediate),
           expired' \in {expired, expired \cup {l}}
    PROVE  IndInv'
  <1>1. TypeOK /\ LeaseTableOK /\ Agree(workspaces, binding)
    BY DEF IndInv
  <1>2. /\ l \in Lease /\ l \in issued /\ l \notin expired
        /\ binding \in Table /\ workspaces \in Workspaces
    BY <1>1 DEF TypeOK, LeaseTableOK, Table, Workspaces
  <1>3. LeaseTableOK'
    BY <1>1, <1>2 DEF EndLease, TypeOK, LeaseTableOK
  <1>4. workspaces' \in Workspaces /\ Agree(workspaces', binding')
    <2>1. CASE binding[l] = None
      BY <1>1, <1>2, <2>1 DEF EndLease, Table
    <2>2. CASE binding[l] # None
      <3>1. /\ workspaces' = RemoveHolder(workspaces, l, binding[l].identity, immediate)
            /\ binding' = [binding EXCEPT ![l] = None]
        BY <2>2 DEF EndLease
      <3>2. binding[l].identity \in Identity /\ workspaces[binding[l].identity] # None
        BY <1>1, <1>2, <2>2, BoundLeaseHolds
      <3>3. workspaces' \in Workspaces
        BY <1>2, <3>1, <3>2, RemoveHolderEffect
      <3>4. Agree(workspaces', binding')
        BY <1>1, <1>2, <2>2, <3>1, HolderLeaves
      <3>5. QED
        BY <3>3, <3>4
    <2>3. QED
      BY <2>1, <2>2
  <1>5. TypeOK'
    BY SMT, <1>1, <1>2, <1>4, IntervalAssumption DEF EndLease, TypeOK, Workspaces
  <1>6. QED
    BY <1>3, <1>4, <1>5 DEF IndInv

\* release_workspace keeps the invariant.
LEMMA ReleaseWorkspaceKeeps ==
    ASSUME IndInv, NEW l \in Lease, NEW immediate \in BOOLEAN, ReleaseWorkspace(l, immediate)
    PROVE  IndInv'
  <1>1. TypeOK /\ LeaseTableOK /\ Agree(workspaces, binding)
    BY DEF IndInv
  <1>2. binding \in Table /\ workspaces \in Workspaces
    BY <1>1 DEF TypeOK, Table, Workspaces
  <1>3. workspaces' \in Workspaces /\ Agree(workspaces', binding')
    <2>1. /\ workspaces' = RemoveHolder(workspaces, l, binding[l].identity, immediate)
          /\ binding' = [binding EXCEPT ![l] = None] /\ binding[l] # None
      BY DEF ReleaseWorkspace
    <2>2. binding[l].identity \in Identity /\ workspaces[binding[l].identity] # None
      BY <1>1, <1>2, <2>1, BoundLeaseHolds
    <2>3. workspaces' \in Workspaces
      BY <1>2, <2>1, <2>2, RemoveHolderEffect
    <2>4. Agree(workspaces', binding')
      BY <1>1, <1>2, <2>1, HolderLeaves
    <2>5. QED
      BY <2>3, <2>4
  <1>4. TypeOK' /\ LeaseTableOK'
    BY <1>1, <1>3 DEF ReleaseWorkspace, TypeOK, LeaseTableOK, Workspaces
  <1>5. QED
    BY <1>3, <1>4 DEF IndInv

\* issue keeps the invariant, with or without a binding.
LEMMA IssueKeeps ==
    ASSUME IndInv, NEW l \in Lease, NEW b \in Binding \cup {None}, Issue(l, b),
           b # None /\ workspaces[b.identity] # None
              => workspaces[b.identity].runtime = b.runtime
    PROVE  IndInv'
  <1>1. TypeOK /\ LeaseTableOK /\ Agree(workspaces, binding)
    BY DEF IndInv
  <1>2. /\ binding \in Table /\ workspaces \in Workspaces
        /\ binding[l] = None /\ l \notin active /\ l \notin expired
    BY <1>1 DEF Issue, TypeOK, LeaseTableOK, Table, Workspaces
  <1>3. workspaces' \in Workspaces /\ Agree(workspaces', binding')
    <2>1. CASE b = None
      BY <1>1, <1>2, <2>1 DEF Issue, Table
    <2>2. CASE b # None
      BY <1>1, <1>2, <2>2, AddHolderEffect, HolderJoins DEF Issue
    <2>3. QED
      BY <2>1, <2>2
  <1>4. TypeOK' /\ LeaseTableOK'
    BY SMT, <1>1, <1>2, <1>3, IntervalAssumption DEF Issue, TypeOK, LeaseTableOK, Workspaces
  <1>5. QED
    BY <1>3, <1>4 DEF IndInv

\* rebind keeps the invariant: a move is one lease leaving and then joining.
LEMMA RebindKeeps ==
    ASSUME IndInv, NEW l \in Lease, NEW b \in Binding, Accepts(l, b), Rebind(l, b)
    PROVE  IndInv'
  <1> DEFINE out  == [binding EXCEPT ![l] = None]
             left == IF binding[l] = None THEN workspaces
                     ELSE RemoveHolder(workspaces, l, binding[l].identity, FALSE)
  <1>1. TypeOK /\ LeaseTableOK /\ Agree(workspaces, binding)
    BY DEF IndInv
  <1>2. /\ binding \in Table /\ workspaces \in Workspaces
        /\ binding' = [binding EXCEPT ![l] = b] /\ l \in active
    BY <1>1 DEF Rebind, Live, TypeOK, Table, Workspaces
  <1>3. b.identity \in Identity /\ b # None
    BY NoneAssumption DEF Binding
  <1>4. workspaces' \in Workspaces /\ Agree(workspaces', binding')
    <2>1. CASE binding[l] # None /\ binding[l].identity = b.identity
      <3>1. workspaces' = workspaces /\ binding[l].runtime = b.runtime
        BY <2>1 DEF Rebind, Accepts
      <3>2. \A i \in Identity : BoundTo(binding', i) = BoundTo(binding, i)
        BY <1>2, <1>3, <2>1 DEF BoundTo, Table
      <3>3. \A m \in Lease : binding'[m] # None => binding'[m].runtime = binding[m].runtime
        BY <1>2, <3>1 DEF Table
      <3>4. \A i \in Identity : \A m \in BoundTo(binding, i) :
              binding'[m].runtime = binding[m].runtime
        BY <3>2, <3>3 DEF BoundTo
      <3>5. QED
        BY <1>1, <1>2, <3>1, <3>2, <3>4 DEF Agree
    <2>2. CASE ~(binding[l] # None /\ binding[l].identity = b.identity)
      <3>1. workspaces' = AddHolder(left, l, b)
        BY <2>2 DEF Rebind
      <3>2. left \in Workspaces /\ Agree(left, out) /\ left[b.identity] = workspaces[b.identity]
        <4>1. CASE binding[l] = None
          BY <1>1, <1>2, <4>1 DEF Table
        <4>2. CASE binding[l] # None
          <5>1. /\ binding[l].identity \in Identity /\ workspaces[binding[l].identity] # None
                /\ left = RemoveHolder(workspaces, l, binding[l].identity, FALSE)
            BY <1>1, <1>2, <4>2, BoundLeaseHolds
          <5>2. b.identity \in Identity \ {binding[l].identity}
            BY <1>3, <2>2, <4>2
          <5> HIDE DEF left
          <5>3. left \in Workspaces
            BY <1>2, <5>1, RemoveHolderEffect
          <5>4. left[b.identity] = workspaces[b.identity]
            <6>1. \A j \in Identity \ {binding[l].identity} :
                    RemoveHolder(workspaces, l, binding[l].identity, FALSE)[j] = workspaces[j]
              BY <1>2 DEF RemoveHolder, Workspaces
            <6>2. QED
              BY <5>1, <5>2, <6>1
          <5>5. Agree(left, out)
            BY <1>1, <1>2, <4>2, <5>1, HolderLeaves
          <5>6. QED
            BY <5>3, <5>4, <5>5
        <4>3. QED
          BY <4>1, <4>2
      <3>3. out \in Table /\ out[l] = None /\ binding' = [out EXCEPT ![l] = b]
        BY <1>2 DEF Table
      <3>4. left[b.identity] # None => left[b.identity].runtime = b.runtime
        BY <2>2, <3>2 DEF Accepts
      <3> HIDE DEF out, left
      <3>5. workspaces' \in Workspaces
        BY <3>1, <3>2, AddHolderEffect
      <3>6. Agree(workspaces', binding')
        BY <3>1, <3>2, <3>3, <3>4, HolderJoins
      <3>7. QED
        BY <3>5, <3>6
    <2>3. QED
      BY <2>1, <2>2
  <1>5. TypeOK' /\ LeaseTableOK'
    BY <1>1, <1>2, <1>4 DEF Rebind, TypeOK, LeaseTableOK, Workspaces
  <1>6. QED
    BY <1>4, <1>5 DEF IndInv

\* Every step keeps the invariant.
LEMMA NextIndInv == IndInv /\ [Next]_vars => IndInv'
  <1> SUFFICES ASSUME IndInv, [Next]_vars PROVE IndInv'
    OBVIOUS
  <1>1. CASE Sweep
    BY <1>1, SweepKeeps
  <1>2. CASE Tick
    BY <1>2, TickKeeps
  <1>3. ASSUME NEW l \in Lease, Issue(l, None) PROVE IndInv'
    BY <1>3, IssueKeeps
  <1>4. ASSUME NEW l \in Lease, NEW b \in Binding, Issue(l, b),
               workspaces[b.identity] # None => workspaces[b.identity].runtime = b.runtime
        PROVE  IndInv'
    BY <1>4, IssueKeeps
  <1>5. ASSUME NEW l \in Lease, NEW b \in Binding, Accepts(l, b), Rebind(l, b) PROVE IndInv'
    BY <1>5, RebindKeeps
  <1>6. ASSUME NEW l \in Lease, Heartbeat(l) PROVE IndInv'
    BY SMT, <1>6, IntervalAssumption DEF Heartbeat, IndInv, TypeOK, LeaseTableOK
  <1>7. ASSUME NEW l \in Lease, Expire(l) PROVE IndInv'
    BY <1>7, EndLeaseKeeps DEF Expire, Lapsed
  <1>8. ASSUME NEW l \in Lease, NEW immediate \in BOOLEAN, Release(l, immediate) PROVE IndInv'
    BY <1>8, EndLeaseKeeps DEF Release, Live
  <1>9. ASSUME NEW l \in Lease, NEW immediate \in BOOLEAN, ReleaseWorkspace(l, immediate)
        PROVE  IndInv'
    BY <1>9, ReleaseWorkspaceKeeps
  <1>10. CASE UNCHANGED vars
    BY <1>10 DEF vars, IndInv, TypeOK, LeaseTableOK
  <1>11. QED
    BY <1>1, <1>2, <1>3, <1>4, <1>5, <1>6, <1>7, <1>8, <1>9, <1>10 DEF Next, Client

\* The inductive invariant says what HoldersAgree and GraceIffUnheld say.
LEMMA IndInvImplies == IndInv => HoldersAgree /\ GraceIffUnheld
  <1> SUFFICES ASSUME IndInv PROVE HoldersAgree /\ GraceIffUnheld
    OBVIOUS
  <1>1. \A i \in Identity :
          {l \in active : binding[l] # None /\ binding[l].identity = i} = BoundTo(binding, i)
    BY DEF IndInv, TypeOK, LeaseTableOK, BoundTo
  <1>2. QED
    BY <1>1 DEF IndInv, Agree, HoldersAgree, GraceIffUnheld

\* The lease lifecycle keeps its types: in particular no deadline and no lease
\* age ever leaves its range.
THEOREM TypeCorrect == Spec => []TypeOK
  <1>1. Spec => []IndInv
    BY InitIndInv, NextIndInv, PTL DEF Spec
  <1>2. IndInv => TypeOK
    BY DEF IndInv
  <1>3. QED
    BY <1>1, <1>2, PTL

\* The workspace table and the lease table agree in every reachable state.
THEOREM HoldersAgreeAlways == Spec => []HoldersAgree
  <1>1. Spec => []IndInv
    BY InitIndInv, NextIndInv, PTL DEF Spec
  <1>2. IndInv => HoldersAgree
    BY IndInvImplies
  <1>3. QED
    BY <1>1, <1>2, PTL

\* No workspace is warm without a deadline, and none is held with one.
THEOREM GraceIffUnheldAlways == Spec => []GraceIffUnheld
  <1>1. Spec => []IndInv
    BY InitIndInv, NextIndInv, PTL DEF Spec
  <1>2. IndInv => GraceIffUnheld
    BY IndInvImplies
  <1>3. QED
    BY <1>1, <1>2, PTL

\* No method revives an expired lease.
THEOREM ExpiryIsFinalAlways == Spec => ExpiryIsFinal
  <1>1. Spec => []IndInv
    BY InitIndInv, NextIndInv, PTL DEF Spec
  <1>2. IndInv /\ IndInv' /\ [Next]_vars
          => [expired \subseteq expired' /\ active' \cap expired' = {}]_vars
    <2> SUFFICES ASSUME IndInv, IndInv', Next
                 PROVE  expired \subseteq expired' /\ active' \cap expired' = {}
      OBVIOUS
    <2>1. expired \subseteq expired'
      BY DEF Next, Client, Issue, Rebind, Heartbeat, Expire, Release, ReleaseWorkspace, Sweep, Tick
    <2>2. QED
      BY <2>1 DEF IndInv, LeaseTableOK
  <1>3. QED
    BY <1>1, <1>2, PTL DEF Spec, ExpiryIsFinal

-----------------------------------------------------------------------------
\* What WarmUntilDeadline asks of one step: an unheld workspace goes only when its
\* grace is over, and its deadline never moves away.
DeadlinesKept(ws, new) ==
    \A i \in Identity :
        (ws[i] # None /\ ws[i].holders = {}) =>
            IF new[i] = None
            THEN ws[i].grace = 0
            ELSE new[i].holders = {} => new[i].grace <= ws[i].grace

\* A lease that leaves its workspace does not touch the unheld ones.
LEMMA LeavingKeepsUnheld ==
    ASSUME NEW ws \in Workspaces, NEW bnd \in Table, Agree(ws, bnd),
           NEW l \in Lease, bnd[l] # None, NEW immediate \in BOOLEAN
    PROVE  \A i \in Identity : (ws[i] # None /\ ws[i].holders = {}) =>
              RemoveHolder(ws, l, bnd[l].identity, immediate)[i] = ws[i]
  <1>1. /\ bnd[l].identity \in Identity /\ ws[bnd[l].identity] # None
        /\ ws[bnd[l].identity].holders # {}
    BY BoundLeaseHolds
  <1>2. PICK j \in Identity : j = bnd[l].identity  BY <1>1
  <1>3. \A i \in Identity \ {j} : RemoveHolder(ws, l, j, immediate)[i] = ws[i]
    BY SMT, <1>1, <1>2, RemoveHolderEffect
  <1>. QED  BY <1>1, <1>2, <1>3

\* A lease that joins a workspace leaves it held, and touches no other.
LEMMA JoiningKeepsUnheld ==
    ASSUME NEW ws \in Workspaces, NEW l \in Lease, NEW b \in Binding
    PROVE  \A i \in Identity :
              \/ AddHolder(ws, l, b)[i] = ws[i]
              \/ AddHolder(ws, l, b)[i] # None /\ AddHolder(ws, l, b)[i].holders # {}
  <1>1. \A i \in Identity \ {b.identity} : AddHolder(ws, l, b)[i] = ws[i]
    BY SMT, AddHolderEffect
  <1>2. LET new == AddHolder(ws, l, b)[b.identity]
        IN  new # None /\ l \in new.holders
    BY SMT, AddHolderEffect
  <1>. QED  BY <1>1, <1>2

\* Graces are numbers, so a workspace that does not change keeps its deadline.
LEMMA UnchangedKeeps ==
    ASSUME NEW ws \in Workspaces, NEW new,
           \A i \in Identity : (ws[i] # None /\ ws[i].holders = {}) =>
              (new[i] = ws[i] \/ (new[i] # None /\ new[i].holders # {}))
    PROVE  DeadlinesKept(ws, new)
  <1>1. \A i \in Identity : ws[i] # None => ws[i].grace \in Int
    BY SMT, IntervalAssumption DEF Workspaces, WorkspaceState, NoDeadline
  <1>. QED  BY SMT, <1>1 DEF DeadlinesKept

\* The sweep keeps an unheld workspace until its grace is zero.
LEMMA SweepKeepsUnheld == ASSUME IndInv, Sweep PROVE DeadlinesKept(workspaces, workspaces')
  <1>. SUFFICES ASSUME NEW i \in Identity, workspaces[i] # None, workspaces[i].holders = {}
                PROVE  IF workspaces'[i] = None THEN workspaces[i].grace = 0
                       ELSE workspaces'[i].holders = {} => workspaces'[i].grace <= workspaces[i].grace
    BY DEF DeadlinesKept
  <1>1. AfterExpiry(i) # None /\ AfterExpiry(i).grace = workspaces[i].grace
    BY AfterExpiryEffect DEF IndInv
  <1>2. workspaces'[i] = IF i \in GraceOver THEN None ELSE AfterExpiry(i)  BY DEF Sweep
  <1>3. i \in GraceOver => AfterExpiry(i).grace = 0  BY DEF GraceOver
  <1>4. workspaces[i].grace \in Int
    BY SMT, IntervalAssumption DEF IndInv, TypeOK, WorkspaceState, NoDeadline
  <1>. QED  BY SMT, <1>1, <1>2, <1>3, <1>4

\* The clock only brings deadlines nearer.
LEMMA TickKeepsUnheld == ASSUME IndInv, Tick PROVE DeadlinesKept(workspaces, workspaces')
  <1>. SUFFICES ASSUME NEW i \in Identity, workspaces[i] # None, workspaces[i].holders = {}
                PROVE  /\ workspaces'[i] # None
                       /\ workspaces'[i].grace <= workspaces[i].grace
    BY DEF DeadlinesKept
  <1>1. workspaces[i] \in WorkspaceState /\ workspaces[i].grace \in Int
    BY SMT, IntervalAssumption DEF IndInv, TypeOK, WorkspaceState, NoDeadline
  <1>2. workspaces'[i] = IF workspaces[i].grace > 0
                         THEN [workspaces[i] EXCEPT !.grace = @ - 1] ELSE workspaces[i]
    BY DEF Tick
  <1>3. workspaces[i].grace > 0 => [workspaces[i] EXCEPT !.grace = @ - 1] \in WorkspaceState
    BY SMT, <1>1, IntervalAssumption DEF WorkspaceState, NoDeadline
  <1>4. [workspaces[i] EXCEPT !.grace = @ - 1].grace = workspaces[i].grace - 1
    BY <1>1 DEF WorkspaceState
  <1>5. CASE workspaces[i].grace > 0  BY SMT, <1>1, <1>2, <1>3, <1>4, <1>5, NoneAssumption
  <1>6. CASE ~(workspaces[i].grace > 0)  BY SMT, <1>1, <1>2, <1>6
  <1>. QED  BY <1>5, <1>6

\* A warm workspace that nobody holds keeps its runtime until its grace has run out,
\* and its deadline is never put off: rebind and the releases of other leases
\* (leases.py) leave it alone.
THEOREM WarmUntilDeadlineAlways == Spec => WarmUntilDeadline
  <1>1. Spec => []IndInv
    BY InitIndInv, NextIndInv, PTL DEF Spec
  <1>2. IndInv /\ [Next]_vars => [DeadlinesKept(workspaces, workspaces')]_vars
    <2>. SUFFICES ASSUME IndInv, Next PROVE DeadlinesKept(workspaces, workspaces')
      OBVIOUS
    <2>1. workspaces \in Workspaces /\ binding \in Table /\ Agree(workspaces, binding)
      BY DEF IndInv, TypeOK, Workspaces, Table
    <2>2. ASSUME NEW l \in Lease, NEW immediate \in BOOLEAN, binding[l] # None,
                 workspaces' = RemoveHolder(workspaces, l, binding[l].identity, immediate)
          PROVE  DeadlinesKept(workspaces, workspaces')
      BY SMT, <2>1, <2>2, LeavingKeepsUnheld, UnchangedKeeps
    <2>3. ASSUME workspaces' = workspaces PROVE DeadlinesKept(workspaces, workspaces')
      BY <2>1, <2>3, UnchangedKeeps
    <2>4. CASE Sweep \/ Tick  BY <2>4, SweepKeepsUnheld, TickKeepsUnheld
    <2>5. ASSUME NEW l \in Lease, NEW b \in Binding, Issue(l, b)
          PROVE  DeadlinesKept(workspaces, workspaces')
      <3>1. workspaces' = AddHolder(workspaces, l, b)  BY <2>5, NoneAssumption DEF Issue
      <3>. QED  BY SMT, <2>1, <3>1, JoiningKeepsUnheld, UnchangedKeeps
    <2>6. ASSUME NEW l \in Lease, Issue(l, None) PROVE DeadlinesKept(workspaces, workspaces')
      BY <2>3, <2>6 DEF Issue
    <2>7. ASSUME NEW l \in Lease, NEW b \in Binding, Rebind(l, b)
          PROVE  DeadlinesKept(workspaces, workspaces')
      <3>. DEFINE left == IF binding[l] = None THEN workspaces
                          ELSE RemoveHolder(workspaces, l, binding[l].identity, FALSE)
      <3>1. left \in Workspaces
        <4>1. CASE binding[l] # None
          <5>1. PICK j \in Identity : j = binding[l].identity /\ workspaces[j] # None
            BY <2>1, <4>1, BoundLeaseHolds
          <5>2. RemoveHolder(workspaces, l, j, FALSE) \in Workspaces
            BY <2>1, <5>1, RemoveHolderEffect
          <5>. QED  BY <4>1, <5>1, <5>2
        <4>. QED  BY <2>1, <4>1
      <3>2. \A i \in Identity : (workspaces[i] # None /\ workspaces[i].holders = {})
                                  => left[i] = workspaces[i]
        BY <2>1, LeavingKeepsUnheld
      <3>3. workspaces' = workspaces \/ workspaces' = AddHolder(left, l, b)
        BY <2>7 DEF Rebind
      <3>. HIDE DEF left
      <3>4. CASE workspaces' = AddHolder(left, l, b)
        <4>1. \A i \in Identity :
                \/ workspaces'[i] = left[i]
                \/ workspaces'[i] # None /\ workspaces'[i].holders # {}
          BY <3>1, <3>4, JoiningKeepsUnheld
        <4>. QED  BY SMT, <2>1, <3>2, <4>1, UnchangedKeeps
      <3>. QED  BY <2>3, <3>3, <3>4
    <2>8. ASSUME NEW l \in Lease, Heartbeat(l) PROVE DeadlinesKept(workspaces, workspaces')
      BY <2>3, <2>8 DEF Heartbeat
    <2>9. ASSUME NEW l \in Lease, NEW immediate \in BOOLEAN, EndLease(l, immediate)
          PROVE  DeadlinesKept(workspaces, workspaces')
      BY <2>2, <2>3, <2>9 DEF EndLease
    <2>10. ASSUME NEW l \in Lease, NEW immediate \in BOOLEAN, ReleaseWorkspace(l, immediate)
           PROVE  DeadlinesKept(workspaces, workspaces')
      BY <2>2, <2>10 DEF ReleaseWorkspace
    <2>. QED
      BY <2>4, <2>5, <2>6, <2>7, <2>8, <2>9, <2>10 DEF Next, Client, Expire, Release
  <1>. QED
    BY <1>1, <1>2, PTL DEF Spec, WarmUntilDeadline, DeadlinesKept

-----------------------------------------------------------------------------
\* The two state functions that the refinement maps to SharedWorkspaces.
RuntimeOf == [i \in Identity |-> IF workspaces[i] = None THEN None ELSE workspaces[i].runtime]
Users == [i \in Identity |-> {l \in Lease : binding[l] # None /\ binding[l].identity = i}]

\* A step in which leases ls are unbound, no other binding changes, and no
\* runtime changes except that unused ones go, is a Leave step.
LEMMA LeaveStep ==
    ASSUME IndInv, IndInv', NEW ls \in SUBSET Lease,
           binding' = [l \in Lease |-> IF l \in ls THEN None ELSE binding[l]],
           \A i \in Identity : RuntimeOf'[i] \in {None, RuntimeOf[i]},
           \A i \in Identity : RuntimeOf'[i] # RuntimeOf[i] => workspaces'[i] = None
    PROVE  Promise!Next
  <1>1. /\ workspaces \in Workspaces /\ binding \in Table /\ Agree(workspaces, binding)
        /\ workspaces' \in Workspaces /\ binding' \in Table /\ Agree(workspaces', binding')
    BY DEF IndInv, TypeOK, Workspaces, Table
  <1>2. /\ Users = [i \in Identity |-> BoundTo(binding, i)]
        /\ Users' = [i \in Identity |-> BoundTo(binding', i)]
    BY DEF Users, BoundTo
  <1>3. \A i \in Identity : BoundTo(binding', i) = BoundTo(binding, i) \ ls
    BY <1>1 DEF BoundTo, Table
  <1>4. Users' = [i \in Identity |-> Users[i] \ ls]
    BY <1>2, <1>3
  <1>5. PICK is \in SUBSET Identity : is = {i \in Identity : RuntimeOf'[i] # RuntimeOf[i]}
    OBVIOUS
  <1>6. \A i \in is : Users'[i] = {}
    BY <1>1, <1>2, <1>5 DEF Agree
  <1>7. RuntimeOf' = [i \in Identity |-> IF i \in is THEN None ELSE RuntimeOf[i]]
    <2>1. RuntimeOf' = [i \in Identity |-> RuntimeOf'[i]]
      BY DEF RuntimeOf
    <2>2. \A i \in Identity : RuntimeOf'[i] = IF i \in is THEN None ELSE RuntimeOf[i]
      BY <1>5
    <2>3. QED
      BY <2>1, <2>2
  <1>8. Promise!Leave(ls, is)
    BY <1>4, <1>6, <1>7 DEF Promise!Leave, Users, RuntimeOf
  <1>9. QED
    BY <1>8 DEF Promise!Next

\* A step that binds lease l to b, whatever it was bound to before, is an Attach
\* step if only the runtime of b's identity may change, from None to b's.
LEMMA AttachStep ==
    ASSUME IndInv, IndInv', NEW l \in Lease, NEW b \in Binding,
           binding' = [binding EXCEPT ![l] = b],
           RuntimeOf[b.identity] \in {None, b.runtime},
           RuntimeOf' = [RuntimeOf EXCEPT ![b.identity] = b.runtime]
    PROVE  Promise!Next
  <1> DEFINE i0 == b.identity
  <1>1. /\ workspaces \in Workspaces /\ binding \in Table /\ Agree(workspaces, binding)
        /\ workspaces' \in Workspaces /\ binding' \in Table /\ Agree(workspaces', binding')
    BY DEF IndInv, TypeOK, Workspaces, Table
  <1>2. /\ Users = [i \in Identity |-> BoundTo(binding, i)]
        /\ Users' = [i \in Identity |-> BoundTo(binding', i)]
    BY DEF Users, BoundTo
  <1>3. i0 \in Identity /\ b.runtime \in Runtime /\ b # None
    BY NoneAssumption DEF Binding
  <1>4. \A i \in Identity : BoundTo(binding', i) = IF i = i0 THEN BoundTo(binding, i) \cup {l}
                                                           ELSE BoundTo(binding, i) \ {l}
    BY <1>1, <1>3 DEF BoundTo, Table
  <1>5. Users' = [i \in Identity |-> IF i = i0 THEN Users[i] \cup {l} ELSE Users[i] \ {l}]
    BY <1>2, <1>4
  <1>6. Promise!Attach(l, i0, b.runtime)
    BY <1>5 DEF Promise!Attach, Users, RuntimeOf
  <1>7. QED
    BY <1>3, <1>6 DEF Promise!Next

\* Taking a holder away leaves every runtime in place, except that an
\* immediate release by the last holder removes the entry.
LEMMA RemoveHolderRuntime ==
    ASSUME NEW l \in Lease, NEW i0 \in Identity, NEW immediate \in BOOLEAN,
           workspaces \in Workspaces, workspaces[i0] # None,
           workspaces' = RemoveHolder(workspaces, l, i0, immediate)
    PROVE  \A i \in Identity : /\ RuntimeOf'[i] \in {None, RuntimeOf[i]}
                               /\ RuntimeOf'[i] # RuntimeOf[i] => workspaces'[i] = None
  <1> SUFFICES ASSUME NEW i \in Identity
               PROVE  /\ RuntimeOf'[i] \in {None, RuntimeOf[i]}
                      /\ RuntimeOf'[i] # RuntimeOf[i] => workspaces'[i] = None
    OBVIOUS
  <1>1. CASE i = i0
    <2>1. workspaces'[i] = None \/ (workspaces'[i] # None
                                      /\ workspaces'[i].runtime = workspaces[i].runtime)
      BY SMT, <1>1, RemoveHolderEffect
    <2>2. QED
      BY <1>1, <2>1 DEF RuntimeOf
  <1>2. CASE i # i0
    <2>1. workspaces'[i] = workspaces[i]
      BY <1>2 DEF RemoveHolder, Workspaces
    <2>2. QED
      BY <2>1 DEF RuntimeOf
  <1>3. QED
    BY <1>1, <1>2

\* Adding a holder changes at most the runtime of its identity, from None.
LEMMA AddHolderRuntime ==
    ASSUME NEW ws \in Workspaces, NEW l \in Lease, NEW b \in Binding,
           workspaces \in Workspaces, workspaces' = AddHolder(ws, l, b),
           \A i \in Identity : /\ ws[i] = None <=> workspaces[i] = None
                               /\ ws[i] # None => ws[i].runtime = workspaces[i].runtime,
           workspaces[b.identity] # None => workspaces[b.identity].runtime = b.runtime
    PROVE  /\ RuntimeOf[b.identity] \in {None, b.runtime}
           /\ RuntimeOf' = [RuntimeOf EXCEPT ![b.identity] = b.runtime]
  <1>1. b.identity \in Identity
    BY DEF Binding
  <1>2. RuntimeOf[b.identity] \in {None, b.runtime}
    BY <1>1 DEF RuntimeOf
  <1>3. ASSUME NEW i \in Identity
        PROVE  RuntimeOf'[i] = IF i = b.identity THEN b.runtime ELSE RuntimeOf[i]
    <2>1. CASE i = b.identity
      <3>1. workspaces'[i] # None /\ workspaces'[i].runtime = b.runtime
        BY SMT, <1>1, <2>1, AddHolderEffect
      <3>2. QED
        BY <2>1, <3>1 DEF RuntimeOf
    <2>2. CASE i # b.identity
      <3>1. workspaces'[i] = ws[i]
        BY <1>1, <2>2 DEF AddHolder, Workspaces
      <3>2. QED
        BY <2>2, <3>1 DEF RuntimeOf
    <2>3. QED
      BY <2>1, <2>2
  <1>4. RuntimeOf = [i \in Identity |-> RuntimeOf[i]] /\ RuntimeOf' = [i \in Identity |-> RuntimeOf'[i]]
    BY DEF RuntimeOf
  <1>5. QED
    BY <1>2, <1>3, <1>4

\* The sweep drops only runtimes that no lease is left holding.
LEMMA SweepRefines == ASSUME IndInv, IndInv', Sweep PROVE Promise!Next
  <1>1. PICK ls \in SUBSET Lease : ls = {l \in Lease : Lapsed(l)}
    OBVIOUS
  <1>2. binding' = [l \in Lease |-> IF l \in ls THEN None ELSE binding[l]]
    BY <1>1 DEF Sweep
  <1>3. ASSUME NEW i \in Identity
        PROVE  /\ RuntimeOf'[i] \in {None, RuntimeOf[i]}
               /\ RuntimeOf'[i] # RuntimeOf[i] => workspaces'[i] = None
    <2>1. workspaces'[i] \in {None, AfterExpiry(i)}
      BY DEF Sweep
    <2>2. workspaces[i] = None => AfterExpiry(i) = None
      BY AfterExpiryEffect DEF IndInv
    <2>3. workspaces[i] # None
            => AfterExpiry(i) # None /\ AfterExpiry(i).runtime = workspaces[i].runtime
      BY AfterExpiryEffect DEF IndInv
    <2>4. QED
      BY <2>1, <2>2, <2>3 DEF RuntimeOf
  <1>4. QED
    BY <1>2, <1>3, LeaveStep

\* A lease that ends or is unbound is a Leave step (or none, if it was unbound).
LEMMA HolderLeavesRefines ==
    ASSUME IndInv, IndInv', NEW l \in Lease, NEW immediate \in BOOLEAN,
           binding' = [binding EXCEPT ![l] = None],
           workspaces' = IF binding[l] = None THEN workspaces
                         ELSE RemoveHolder(workspaces, l, binding[l].identity, immediate)
    PROVE  Promise!Next
  <1>1. workspaces \in Workspaces /\ binding \in Table /\ Agree(workspaces, binding)
    BY DEF IndInv, TypeOK, Workspaces, Table
  <1>2. binding' = [m \in Lease |-> IF m \in {l} THEN None ELSE binding[m]]
    BY <1>1 DEF Table
  <1>3. \A i \in Identity : /\ RuntimeOf'[i] \in {None, RuntimeOf[i]}
                            /\ RuntimeOf'[i] # RuntimeOf[i] => workspaces'[i] = None
    <2>1. CASE binding[l] = None
      BY <2>1 DEF RuntimeOf
    <2>2. CASE binding[l] # None
      <3>1. binding[l].identity \in Identity /\ workspaces[binding[l].identity] # None
        BY <1>1, <2>2, BoundLeaseHolds
      <3>2. PICK i0 \in Identity : i0 = binding[l].identity
        BY <3>1
      <3>3. workspaces[i0] # None /\ workspaces' = RemoveHolder(workspaces, l, i0, immediate)
        BY <2>2, <3>1, <3>2
      <3>4. QED
        BY <1>1, <3>3, RemoveHolderRuntime
    <2>3. QED
      BY <2>1, <2>2
  <1>4. {l} \in SUBSET Lease
    OBVIOUS
  <1>5. QED
    BY <1>2, <1>3, <1>4, LeaveStep

\* rebind is an Attach step.
LEMMA RebindRefines ==
    ASSUME IndInv, IndInv', NEW l \in Lease, NEW b \in Binding, Accepts(l, b), Rebind(l, b)
    PROVE  Promise!Next
  <1>1. /\ workspaces \in Workspaces /\ binding \in Table /\ Agree(workspaces, binding)
        /\ binding' = [binding EXCEPT ![l] = b] /\ b.identity \in Identity
    BY DEF IndInv, TypeOK, Workspaces, Table, Rebind, Binding
  <1>2. RuntimeOf[b.identity] \in {None, b.runtime}
        /\ RuntimeOf' = [RuntimeOf EXCEPT ![b.identity] = b.runtime]
    <2>1. CASE binding[l] # None /\ binding[l].identity = b.identity
      <3>1. workspaces' = workspaces /\ binding[l].runtime = b.runtime
        BY <2>1 DEF Rebind, Accepts
      <3>2. l \in BoundTo(binding, b.identity)
        BY <2>1 DEF BoundTo
      <3>3. workspaces[b.identity] # None /\ workspaces[b.identity].runtime = b.runtime
        BY <1>1, <3>1, <3>2 DEF Agree
      <3>4. QED
        BY <1>1, <3>1, <3>3 DEF RuntimeOf
    <2>2. CASE ~(binding[l] # None /\ binding[l].identity = b.identity)
      <3>1. workspaces[b.identity] # None => workspaces[b.identity].runtime = b.runtime
        BY <2>2 DEF Accepts
      <3>2. CASE binding[l] = None
        <4>1. workspaces' = AddHolder(workspaces, l, b)
          BY <3>2 DEF Rebind
        <4>2. PICK ws \in Workspaces : ws = workspaces
          BY <1>1
        <4>3. QED
          BY <1>1, <3>1, <4>1, <4>2, AddHolderRuntime
      <3>3. CASE binding[l] # None
        <4>1. binding[l].identity \in Identity /\ workspaces[binding[l].identity] # None
          BY <1>1, <3>3, BoundLeaseHolds
        <4>2. PICK ws \in Workspaces : ws = RemoveHolder(workspaces, l, binding[l].identity, FALSE)
          BY <1>1, <4>1, RemoveHolderEffect
        <4>3. workspaces' = AddHolder(ws, l, b)
          BY <2>2, <3>3, <4>2 DEF Rebind
        <4>4. \A i \in Identity : /\ ws[i] = None <=> workspaces[i] = None
                                  /\ ws[i] # None => ws[i].runtime = workspaces[i].runtime
          <5> TAKE i \in Identity
          <5>1. CASE i # binding[l].identity
            BY <1>1, <4>2, <5>1 DEF RemoveHolder, Workspaces
          <5>2. CASE i = binding[l].identity
            <6>1. PICK now \in BOOLEAN : now = FALSE
              OBVIOUS
            <6>2. ws = RemoveHolder(workspaces, l, i, now) /\ workspaces[i] # None
              BY <4>1, <4>2, <5>2, <6>1
            <6>3. ws[i] # None /\ ws[i].runtime = workspaces[i].runtime
              BY SMT, <1>1, <6>1, <6>2, RemoveHolderEffect
            <6>4. QED
              BY <6>2, <6>3
          <5>3. QED
            BY <5>1, <5>2
        <4>5. QED
          BY SMT, <1>1, <3>1, <4>3, <4>4, AddHolderRuntime
      <3>4. QED
        BY <3>2, <3>3
    <2>3. QED
      BY <2>1, <2>2
  <1>3. QED
    BY <1>1, <1>2, AttachStep

\* Every step of the lifecycle is a step of SharedWorkspaces or changes nothing
\* that SharedWorkspaces speaks of.
LEMMA NextRefines == IndInv /\ IndInv' /\ [Next]_vars => [Promise!Next]_(Promise!vars)
  <1> SUFFICES ASSUME IndInv, IndInv', [Next]_vars
               PROVE  Promise!Next \/ UNCHANGED <<RuntimeOf, Users>>
    BY DEF Promise!vars, RuntimeOf, Users
  <1>1. CASE Sweep
    BY <1>1, SweepRefines
  <1>2. CASE Tick
    <2>1. \A i \in Identity :
            IF workspaces[i] = None THEN workspaces'[i] = None
            ELSE /\ workspaces'[i] # None
                 /\ workspaces'[i].runtime = workspaces[i].runtime
      <3> TAKE i \in Identity
      <3>1. workspaces[i] # None => workspaces[i] \in WorkspaceState
        BY DEF IndInv, TypeOK
      <3>2. workspaces'[i] # None => workspaces'[i] \in WorkspaceState
        BY DEF IndInv, TypeOK
      <3>3. CASE workspaces[i] # None /\ workspaces[i].grace > 0
        <4>1. workspaces'[i] = [workspaces[i] EXCEPT !.grace = @ - 1]
          BY <1>2, <3>3 DEF Tick
        <4>2. QED
          BY SMT, <3>1, <3>3, <4>1, NoneAssumption, IntervalAssumption DEF WorkspaceState, NoDeadline
      <3>4. CASE ~(workspaces[i] # None /\ workspaces[i].grace > 0)
        BY <1>2, <3>4 DEF Tick
      <3>5. QED
        BY <3>3, <3>4
    <2>2. UNCHANGED RuntimeOf
      BY <2>1 DEF RuntimeOf
    <2>3. UNCHANGED Users
      BY <1>2 DEF Tick, Users
    <2>4. QED
      BY <2>2, <2>3
  <1>3. ASSUME NEW l \in Lease, Issue(l, None) PROVE UNCHANGED <<RuntimeOf, Users>>
    <2>1. binding[l] = None
      BY <1>3 DEF Issue, IndInv, LeaseTableOK
    <2>2. binding' = binding
      BY <1>3, <2>1 DEF Issue, IndInv, TypeOK
    <2>3. UNCHANGED RuntimeOf
      BY <1>3 DEF Issue, RuntimeOf
    <2>4. QED
      BY <2>2, <2>3 DEF Users
  <1>4. ASSUME NEW l \in Lease, NEW b \in Binding, Issue(l, b),
               workspaces[b.identity] # None => workspaces[b.identity].runtime = b.runtime
        PROVE  Promise!Next
    <2>1. /\ workspaces \in Workspaces /\ workspaces' = AddHolder(workspaces, l, b)
          /\ binding' = [binding EXCEPT ![l] = b]
      BY <1>4, NoneAssumption DEF Issue, IndInv, TypeOK, Workspaces
    <2>2. PICK ws \in Workspaces : ws = workspaces
      BY <2>1
    <2>3. RuntimeOf[b.identity] \in {None, b.runtime}
          /\ RuntimeOf' = [RuntimeOf EXCEPT ![b.identity] = b.runtime]
      BY <1>4, <2>1, <2>2, AddHolderRuntime
    <2>4. QED
      BY <2>1, <2>3, AttachStep
  <1>5. ASSUME NEW l \in Lease, NEW b \in Binding, Accepts(l, b), Rebind(l, b) PROVE Promise!Next
    BY <1>5, RebindRefines
  <1>6. ASSUME NEW l \in Lease, Heartbeat(l) PROVE UNCHANGED <<RuntimeOf, Users>>
    BY <1>6 DEF Heartbeat, RuntimeOf, Users
  <1>7. ASSUME NEW l \in Lease, Expire(l) PROVE Promise!Next
    BY <1>7, HolderLeavesRefines DEF Expire, EndLease
  <1>8. ASSUME NEW l \in Lease, NEW immediate \in BOOLEAN, Release(l, immediate) PROVE Promise!Next
    BY <1>8, HolderLeavesRefines DEF Release, EndLease
  <1>9. ASSUME NEW l \in Lease, NEW immediate \in BOOLEAN, ReleaseWorkspace(l, immediate)
        PROVE  Promise!Next
    BY <1>9, HolderLeavesRefines DEF ReleaseWorkspace
  <1>10. CASE UNCHANGED vars
    BY <1>10 DEF vars, RuntimeOf, Users
  <1>11. QED
    BY <1>1, <1>2, <1>3, <1>4, <1>5, <1>6, <1>7, <1>8, <1>9, <1>10 DEF Next, Client

\* The lease lifecycle implements SharedWorkspaces: whatever the leases, the
\* clock and the sweeps do, a runtime that is held is neither dropped nor
\* replaced, and an identity has at most one.
THEOREM Refinement == Spec => ImplementsPromise
  <1>1. Spec => []IndInv
    BY InitIndInv, NextIndInv, PTL DEF Spec
  <1>2. Init => Promise!Init
    BY DEF Init, Promise!Init
  <1>3. QED
    BY <1>1, <1>2, NextRefines, PTL DEF Spec, ImplementsPromise, Promise!Spec
=============================================================================
