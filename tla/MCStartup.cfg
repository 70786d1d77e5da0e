\* Two connectors, two daemons and one fault: a second daemon can start while
\* the first leaves, and each can unlink files of the other.
CONSTANTS
    Conn = {c1, c2}
    None = None
    MaxDaemons = 2
    MaxFaults = 1
SPECIFICATION FairSpec
INVARIANTS
    StartsOne
PROPERTIES
    Attaches
    OrphanRetires
CHECK_DEADLOCK FALSE
