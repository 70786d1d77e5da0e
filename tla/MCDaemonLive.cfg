\* One client, one workspace and two requests besides the sweep: enough for a
\* request to wait on each lock behind another, and for a stop to fail and be
\* retried.  No symmetry: the properties are temporal.
CONSTANTS
    Lease = {l1}
    Identity = {x}
    Runtime = {r1, r2}
    WorkspaceLease = {w1, w2}
    Subdir = {d1}
    None = None
    Expiry = 1
    Grace = 1
    Request = {q1, q2}
    Sweeper = Sweeper
SPECIFICATION FairSpec
PROPERTIES
    RequestsAnswered
    GivenUpIsStopped
