CONSTANTS
    Tasks = {g1, g2, p1}
    Gated = {g1, g2}
    Restartable = {p1}
    Resumes = TRUE
    None = none
    Faults = {"crash", "loss", "outage", "storage", "refusal"}
    MaxIds = 2
    MaxCalls = 4
    MaxFaults = 2
SPECIFICATION Spec
SYMMETRY ToolSymmetry
CHECK_DEADLOCK FALSE
INVARIANTS
    EffectOncePerTask
    ToldTruth
    EvidenceForOwnSuspension
