\* Two concurrent calls and the heartbeat, the inherited workspace and another:
\* two calls and one fault, or one call and two, such as a session lost while
\* another is being recovered.
CONSTANTS
    Call = {a, b}
    Heart = Heart
    Workspace = {p}
    Cwd = cwd
    None = None
    MaxCalls = 2
    MaxFaults = 2
    MaxEvents = 3
SPECIFICATION MCSpec
SYMMETRY Symmetry
INVARIANTS
    RecoveredOnce
    OneBoundLease
CHECK_DEADLOCK FALSE
