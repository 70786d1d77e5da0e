SPECIFICATION Spec
CONSTANTS
    e1 = e1
    e2 = e2
    Evaluators = {e1, e2}
    MaxFaults = 1
    MaxCrashes = 2
    MaxDrift = 2
    MaxCalls = 3
    Outputs <- MCOutputs
    Trouble <- MCTrouble
SYMMETRY Symmetry
INVARIANTS
    FreezeSound HandedRuntimeStays ReportMatchesRecord AdmissionSound NoBackendLeft EvidenceBacked
CHECK_DEADLOCK FALSE
