------------------------------- MODULE Leases -------------------------------
(***************************************************************************)
(* LeaseLifecycle (daemon/leases.py): the daemon leases, the workspaces    *)
(* they hold, and the decision when a workspace's runtime must stop.       *)
(*                                                                         *)
(* Every method of the class runs under one RLock and reads the clock      *)
(* inside it, so one method call is one step here.  The clock is kept      *)
(* relative: the age of a lease is the time since its last heartbeat, cut  *)
(* off at Expiry, and the grace of a workspace is the time left until its  *)
(* deadline, cut off at 0.  The code only ever compares the clock with     *)
(* those two limits, so nothing is lost and behaviours stay infinite.      *)
(***************************************************************************)
EXTENDS WorkspaceTypes

VARIABLES
    active,      \* the keys of _active
    expired,     \* _expired
    binding,     \* the binding of each active lease; None if it has none
    age,         \* clock - last_heartbeat_at of each active lease
    workspaces,  \* _workspaces; None where the identity has no entry
    issued       \* the lease ids handed out so far: uuid4 repeats none

vars == <<active, expired, binding, age, workspaces, issued>>

\* The lease tables hold values of their types: ages stop at the expiry boundary
\* and grace deadlines within the warm grace of the constructor.
TypeOK ==
    /\ active \subseteq Lease
    /\ expired \subseteq Lease
    /\ issued \subseteq Lease
    /\ binding \in [Lease -> Binding \cup {None}]
    /\ age \in [Lease -> 0..Expiry]
    /\ workspaces \in [Identity -> WorkspaceState \cup {None}]

Init ==
    /\ active = {} /\ expired = {} /\ issued = {}
    /\ binding = [l \in Lease |-> None]
    /\ age = [l \in Lease |-> 0]
    /\ workspaces = [i \in Identity |-> None]

-----------------------------------------------------------------------------
\* now < expires_at for an active lease: what _require_active_locked accepts.
Live(l) == l \in active /\ age[l] < Expiry

\* An active lease at or past its expiry boundary that nobody has touched yet.
Lapsed(l) == l \in active /\ age[l] >= Expiry

\* Mutant: an immediate release stops the runtime under the other holders.
RemoveHolder_StopsUnderOthers(ws, l, i, immediate) ==
    IF immediate THEN [ws EXCEPT ![i] = None]
    ELSE [ws EXCEPT ![i].holders = @ \ {l}, ![i].grace = IF ws[i].holders \ {l} = {} THEN Grace ELSE @]

\* Take a holder away.  The last one starts the warm grace, or, when the
\* release is immediate, deletes the entry so that its runtime is stopped.
RemoveHolder(ws, l, i, immediate) ==
    LET rest == ws[i].holders \ {l}
    IN  [ws EXCEPT ![i] =
            IF rest = {} /\ immediate
            THEN None
            ELSE [runtime |-> ws[i].runtime,
                  holders |-> rest,
                  grace   |-> IF rest = {} THEN Grace ELSE ws[i].grace]]

\* Add a holder; a warm workspace loses its deadline.
AddHolder(ws, l, b) ==
    [ws EXCEPT ![b.identity] =
        IF ws[b.identity] = None
        THEN [runtime |-> b.runtime, holders |-> {l}, grace |-> NoDeadline]
        ELSE [runtime |-> ws[b.identity].runtime,
              holders |-> ws[b.identity].holders \cup {l},
              grace   |-> NoDeadline]]

\* The runtime_to_stop of the decision that ends or unbinds lease l.
RuntimeToStop(l, immediate) ==
    IF immediate /\ binding[l] # None
       /\ workspaces[binding[l].identity].holders \ {l} = {}
    THEN workspaces[binding[l].identity].runtime
    ELSE None

\* Neither ValueError about a second runtime for one identity is raised.
Accepts(l, b) ==
    IF binding[l] # None /\ binding[l].identity = b.identity
    THEN binding[l].runtime = b.runtime
    ELSE workspaces[b.identity] # None => workspaces[b.identity].runtime = b.runtime

\* _end_locked: the lease is gone, its workspace loses a holder.
EndLease(l, immediate) ==
    /\ active' = active \ {l}
    /\ binding' = [binding EXCEPT ![l] = None]
    /\ age' = [age EXCEPT ![l] = 0]
    /\ workspaces' = IF binding[l] = None
                     THEN workspaces
                     ELSE RemoveHolder(workspaces, l, binding[l].identity, immediate)
    /\ UNCHANGED issued

-----------------------------------------------------------------------------
\* issue / acquire_lease, with or without a binding.
Issue(l, b) ==
    /\ l \notin issued
    /\ issued' = issued \cup {l}
    /\ active' = active \cup {l}
    /\ age' = [age EXCEPT ![l] = 0]
    /\ binding' = [binding EXCEPT ![l] = b]
    /\ workspaces' = IF b = None THEN workspaces ELSE AddHolder(workspaces, l, b)
    /\ UNCHANGED expired

\* Any method that needs the lease (heartbeat, rebind, require_active,
\* binding_for, release_workspace, and release too) finds it past its boundary:
\* the lease ends as expired, never with an immediate stop.
Expire(l) ==
    /\ Lapsed(l)
    /\ EndLease(l, FALSE)
    /\ expired' = expired \cup {l}

\* rebind of a live lease.  It does not renew the lease.
Rebind(l, b) ==
    /\ Live(l)
    /\ LET old   == binding[l]
           moves == old = None \/ old.identity # b.identity
           left  == IF old = None THEN workspaces
                    ELSE RemoveHolder(workspaces, l, old.identity, FALSE)
       IN  workspaces' = IF moves THEN AddHolder(left, l, b) ELSE workspaces
    /\ binding' = [binding EXCEPT ![l] = b]
    /\ UNCHANGED <<active, expired, age, issued>>

\* heartbeat of a live lease.
Heartbeat(l) ==
    /\ Live(l)
    /\ age' = [age EXCEPT ![l] = 0]
    /\ UNCHANGED <<active, expired, binding, workspaces, issued>>

\* release of a live lease.
Release(l, immediate) ==
    /\ Live(l)
    /\ EndLease(l, immediate)
    /\ UNCHANGED expired

\* release_workspace of a bound live lease: the lease stays active, unbound.
ReleaseWorkspace(l, immediate) ==
    /\ Live(l)
    /\ binding[l] # None
    /\ workspaces' = RemoveHolder(workspaces, l, binding[l].identity, immediate)
    /\ binding' = [binding EXCEPT ![l] = None]
    /\ UNCHANGED <<active, expired, age, issued>>

\* sweep, first loop: every lapsed lease leaves its workspace.
AfterExpiry(i) ==
    IF workspaces[i] = None THEN None
    ELSE LET rest == {l \in workspaces[i].holders : ~Lapsed(l)}
         IN  [runtime |-> workspaces[i].runtime,
              holders |-> rest,
              grace   |-> IF rest = {} /\ workspaces[i].holders # {}
                          THEN Grace ELSE workspaces[i].grace]

\* sweep, second loop: the unheld workspaces whose grace has run out, the ones
\* the first loop has just vacated included (their grace may be zero).
GraceOver == {i \in Identity : LET ws == AfterExpiry(i)
                               IN  ws # None /\ ws.holders = {} /\ ws.grace = 0}

Sweep ==
    LET lapsed == {l \in Lease : Lapsed(l)}
    IN  /\ active' = active \ lapsed
        /\ expired' = expired \cup lapsed
        /\ binding' = [l \in Lease |-> IF l \in lapsed THEN None ELSE binding[l]]
        /\ age' = [l \in Lease |-> IF l \in lapsed THEN 0 ELSE age[l]]
        /\ workspaces' = [i \in Identity |-> IF i \in GraceOver THEN None ELSE AfterExpiry(i)]
        /\ UNCHANGED issued

\* The clock moves on by one tick.
Tick ==
    /\ age' = [l \in Lease |-> IF Live(l) THEN age[l] + 1 ELSE age[l]]
    /\ workspaces' = [i \in Identity |->
                        IF workspaces[i] # None /\ workspaces[i].grace > 0
                        THEN [workspaces[i] EXCEPT !.grace = @ - 1]
                        ELSE workspaces[i]]
    /\ UNCHANGED <<active, expired, binding, issued>>

\* The bindings come from the registry, which keeps one runtime per identity:
\* Accepts states that contract, and DaemonService shows that it is kept.
Client(l) ==
    \/ Issue(l, None)
    \/ \E b \in Binding : (workspaces[b.identity] # None
                             => workspaces[b.identity].runtime = b.runtime) /\ Issue(l, b)
    \/ \E b \in Binding : Accepts(l, b) /\ Rebind(l, b)
    \/ Heartbeat(l)
    \/ Expire(l)
    \/ \E immediate \in BOOLEAN : Release(l, immediate) \/ ReleaseWorkspace(l, immediate)

Next == Sweep \/ Tick \/ \E l \in Lease : Client(l)

Spec == Init /\ [][Next]_vars
-----------------------------------------------------------------------------
\* The holders of a workspace are exactly the active leases bound to it, and
\* they are bound to its one runtime: the two tables that rebind, release,
\* release_workspace, expiry and sweep each update separately never disagree.
HoldersAgree ==
    \A i \in Identity :
        LET bound == {l \in active : binding[l] # None /\ binding[l].identity = i}
        IN  IF workspaces[i] = None
            THEN bound = {}
            ELSE /\ workspaces[i].holders = bound
                 /\ \A l \in bound : binding[l].runtime = workspaces[i].runtime

\* A workspace has a grace deadline exactly while nobody holds it: an unheld
\* one without a deadline would stay warm for ever (sweep skips it), and a held
\* one with a deadline could be stopped under its holder after a last release.
GraceIffUnheld ==
    \A i \in Identity : workspaces[i] # None =>
        (workspaces[i].holders = {} <=> workspaces[i].grace # NoDeadline)

\* Expiry is final: an expired lease is never active again, whatever the
\* client still sends with its id (leases.LeaseExpiredError "cannot be
\* recreated").
ExpiryIsFinal == [][expired \subseteq expired' /\ active' \cap expired' = {}]_vars

\* A warm workspace nobody holds keeps its runtime until its grace has run out,
\* and no step but a new holder moves the deadline away.
WarmUntilDeadline ==
    [][\A i \in Identity :
         (workspaces[i] # None /\ workspaces[i].holders = {}) =>
            IF workspaces'[i] = None
            THEN workspaces[i].grace = 0
            ELSE workspaces'[i].holders = {} => workspaces'[i].grace <= workspaces[i].grace]_vars

\* The lease lifecycle implements the promise of SharedWorkspaces.
Promise == INSTANCE SharedWorkspaces WITH
    runtimeOf <- [i \in Identity |-> IF workspaces[i] = None THEN None ELSE workspaces[i].runtime],
    users     <- [i \in Identity |-> {l \in Lease : binding[l] # None /\ binding[l].identity = i}]

\* A runtime that some lease is bound to is never dropped or replaced, one
\* identity never has two runtimes, and a lease never uses two workspaces.
ImplementsPromise == Promise!Spec
=============================================================================
