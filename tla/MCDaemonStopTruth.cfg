\* Two clients of one workspace: one expires and waits for the binding lock,
\* the other releases at once.
CONSTANTS
    Lease = {l1, l2}
    Identity = {x}
    Runtime = {r1, r2}
    WorkspaceLease = {w1, w2, w3}
    Subdir = {d1}
    None = None
    Expiry = 1
    Grace = 1
    Request = {q1, q2}
    Sweeper = Sweeper
SPECIFICATION Spec
SYMMETRY Symmetry
INVARIANT StopTruth
