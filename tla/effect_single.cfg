CONSTANTS
    s1 = s1
    k1 = k1
    k2 = k2
    i1 = i1
    i2 = i2
    d1 = d1
    d2 = d2
    x1 = x1
    e1 = e1
    Scopes = {s1}
    Keys = {k1, k2}
    Ids = {i1, i2}
    Digests = {d1, d2}
    Contexts = {x1}
    Entropy = {e1}
    Checkpoints <- MCCheckpoints
    NoCheckpoint = none
    Records <- MCRecords
    Retention = 1
    ClockLag = 0
    MaxTime = 1
    Durable = TRUE
    Procs = {p1}
    Calls = {c1, c2, c3}
    Requests <- RivalRequests
    Faults = {"crash", "cancel", "audit", "storage"}
SPECIFICATION Spec
SYMMETRY CallSymmetry
CHECK_DEADLOCK FALSE
INVARIANTS
    InvocationTypeOK
    WriteAhead
    AtMostOnce
    StatusTellsTruth
    ExclusiveEffects
    AnswersStand
    OutcomesBelong
