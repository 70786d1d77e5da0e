\* Two clients share one workspace.  Two runtimes: one may be stopping while
\* its successor serves.  Three lease ids: two bindings and one candidate (the
\* binding lock admits one activation at a time).
CONSTANTS
    Lease = {l1, l2}
    Identity = {x}
    Runtime = {r1, r2}
    WorkspaceLease = {w1, w2, w3}
    Subdir = {d1}
    None = None
    Expiry = 1
    Grace = 1
    Request = {q1, q2}
    Sweeper = Sweeper
SPECIFICATION Spec
SYMMETRY Symmetry
INVARIANTS
    TablesAgree
    LeasesAccounted
    NeverStopInUse
    CommitNeverRefused
PROPERTY ImplementsPromise
