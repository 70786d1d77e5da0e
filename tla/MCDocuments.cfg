\* Both kinds of engine: two documents for one open buffer, three operations,
\* callers that wait and callers that give up, two writes, a crash and a publication in flight.
SPECIFICATION Spec
CONSTANTS
    d1 = d1
    d2 = d2
    None = None
    Doc = {d1, d2}
    Initial = {d1}
    Versioning = {TRUE, FALSE}
    MaxOpen = 1
    MaxWrites = 2
    MaxOps = 3
    MaxQueued = 1
    Patience = {TRUE, FALSE}
    MaxCrashes = 1
    MaxWire = 1
INVARIANTS
    DiagnosticsCurrent
    DiagnosticsTruthful
    RetryAdmitted
    PatientBufferFresh
\* A bounded number of operations: the adapter ends idle.
CHECK_DEADLOCK FALSE
