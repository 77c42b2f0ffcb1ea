CONSTANTS
    Scopes = {s1}
    Keys = {k1, k2}
    Ids = {i1, i2}
    Digests = {d1, d2}
    Contexts = {x1, x2}
    Checkpoints = {c1}
    NoCheckpoint = none
    Records = {a1, a2}
    Retention = 1
    ClockLag = 1
    MaxTime = 1
    Durable = FALSE
SPECIFICATION StoreSpec
SYMMETRY StoreSymmetry
CHECK_DEADLOCK FALSE
INVARIANTS
    AuditTrail
