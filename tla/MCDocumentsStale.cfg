\* The same of one document, with a caller that gives up.
SPECIFICATION Spec
CONSTANTS
    d1 = d1
    None = None
    Doc = {d1}
    Initial = {d1}
    Versioning = {FALSE}
    MaxOpen = 1
    MaxWrites = 3
    MaxOps = 3
    MaxQueued = 1
    Patience = {FALSE}
    MaxCrashes = 1
    MaxWire = 0
INVARIANTS
    NoStaleBuffer
\* A bounded number of operations: the adapter ends idle.
CHECK_DEADLOCK FALSE
