\* Both families; two changes of the disk, so that the second meets what the first
\* left unfinished; one fault.  Nobody is obliged to read, and a stopped runtime rests.
SPECIFICATION FairSpec
CONSTANTS
    Family = {python, typescript}
    MaxChanges = 2
    MaxFaults = 1
INVARIANTS
    AdmittedIsCurrent
    AdaptersOwned
PROPERTIES
    StopSucceeds
CHECK_DEADLOCK FALSE
