\* Executor: one item more of each kind than is admitted, so that both limits are
\* reached; two threads close, cancelling the queue or not.  Edits: two of one file
\* race each other, one other program and a stop, with a language server that may
\* never answer.  No symmetry: two properties are temporal.
CONSTANTS
    Item = {o1, o2, k1, k2}
    Cleanup = {k1, k2}
    Closer = {c1, c2}
    Capacity = 1
    CleanupReserve = 1
    CancelQueued = {TRUE, FALSE}
    Stop = Stop
    Edit = {e1, e2}
    Foreign = {f1}
    Original = Original
SPECIFICATION MCSpec
INVARIANTS
    AdmittedFindsRoom
    SettledAtExit
    AnswersTruthful
PROPERTIES
    NoUnseenOverwrite
    ImplementsSerial
    EveryItemSettles
    StopDrains
