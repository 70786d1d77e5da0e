\* One call of each kind may be made, two of them beside the stop, with one waiting
\* while one runs; one fault, two program generations.  The second crash begins a
\* cooldown.  The adapter may rest: nobody is obliged to call it.
SPECIFICATION FairSpec
CONSTANTS
    r1 = r1
    e1 = e1
    p1 = p1
    w1 = w1
    s1 = s1
    Call = {r1, e1, w1, p1, s1}
    Kind <- MCKind
    Threshold = 2
    MaxCalls = 2
    MaxQueued = 1
    MaxFaults = 1
    MaxProgram = 2
INVARIANTS
    ProcessesAccounted
    ReadinessHonest
PROPERTIES
    LossNoticed
CHECK_DEADLOCK FALSE
