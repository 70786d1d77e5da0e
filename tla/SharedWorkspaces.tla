-------------------------- MODULE SharedWorkspaces --------------------------
(***************************************************************************)
(* What the daemon promises about shared workspace runtimes, free of       *)
(* clocks, grace periods and registry references: a workspace identity has *)
(* at most one runtime, every lease uses at most one workspace, a runtime  *)
(* in use is neither replaced nor given up, and only an unused one goes.   *)
(***************************************************************************)
CONSTANTS Lease, Identity, Runtime, None

VARIABLES
    runtimeOf,  \* the runtime of each identity, or None
    users       \* the leases that use it

vars == <<runtimeOf, users>>

Init ==
    /\ runtimeOf = [i \in Identity |-> None]
    /\ users = [i \in Identity |-> {}]

\* A lease starts to use workspace i, and with that stops using any other.
Attach(l, i, r) ==
    /\ runtimeOf[i] \in {None, r}
    /\ runtimeOf' = [runtimeOf EXCEPT ![i] = r]
    /\ users' = [j \in Identity |-> IF j = i THEN users[j] \cup {l} ELSE users[j] \ {l}]

\* Some leases stop using their workspace; some unused workspaces lose their
\* runtime, possibly in the same step.
Leave(ls, is) ==
    /\ users' = [j \in Identity |-> users[j] \ ls]
    /\ \A i \in is : users'[i] = {}
    /\ runtimeOf' = [j \in Identity |-> IF j \in is THEN None ELSE runtimeOf[j]]

Next ==
    \/ \E l \in Lease, i \in Identity, r \in Runtime : Attach(l, i, r)
    \/ \E ls \in SUBSET Lease, is \in SUBSET Identity : Leave(ls, is)

Spec == Init /\ [][Next]_vars
=============================================================================
