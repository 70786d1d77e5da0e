--------------------------- MODULE WorkspaceTypes ---------------------------
(***************************************************************************)
(* The values the lease lifecycle (daemon/leases.py) and the runtime       *)
(* registry (workspace/registry.py) share.                                 *)
(***************************************************************************)
EXTENDS Integers, FiniteSets

CONSTANTS
    Lease,           \* daemon lease ids (UUIDs)
    Identity,        \* workspace identities (registry keys)
    Runtime,         \* WorkspaceRuntime instances
    WorkspaceLease,  \* ids (UUIDs) of the registry's own leases
    Subdir,          \* working subdirectories
    None,
    Expiry,          \* LEASE_EXPIRY_SECONDS, in clock ticks
    Grace            \* WARM_GRACE_SECONDS, in clock ticks; may be zero

\* The constructor's checks of its intervals.
ASSUME IntervalAssumption == Expiry \in Nat \ {0} /\ Grace \in Nat

Session == Lease  \* the registry binds the daemon's leases

Binding == [id: WorkspaceLease, identity: Identity, runtime: Runtime, subdir: Subdir]
Handle == [identity: Identity, runtime: Runtime]

NoDeadline == -1

\* _WorkspaceState: the grace is NoDeadline while a lease holds the workspace.
WorkspaceState ==
    [runtime: Runtime, holders: SUBSET Lease, grace: {NoDeadline} \cup 0..Grace]

\* PreparedWorkspaceActivation.
Prepared == [session: Session, expected: Binding \cup {None}, binding: Binding,
             provisional: BOOLEAN, created: BOOLEAN]

\* None is the Python None: it is no value of any other kind.
ASSUME NoneAssumption ==
    /\ None \notin Runtime /\ None \notin Binding /\ None \notin WorkspaceState

ASSUME RegistryAssumption ==
    /\ IsFiniteSet(WorkspaceLease)
    /\ None \notin Runtime /\ None \notin Binding /\ None \notin Handle /\ None \notin Prepared
=============================================================================
