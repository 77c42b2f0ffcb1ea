CONSTANTS
    Tasks = {g1, p1}
    Gated = {g1}
    Restartable = {p1}
    Resumes = FALSE
    None = none
    Faults = {}
    MaxIds = 2
    MaxCalls = 6
    MaxFaults = 0
SPECIFICATION Spec
CHECK_DEADLOCK FALSE
INVARIANTS
    ApprovedEffectsRun
