CONSTANTS
    Scopes = {s1, s2}
    Keys = {k1, k2}
    Ids = {i1, i2}
    Digests = {d1, d2}
    Contexts = {x1}
    Checkpoints = {c1}
    NoCheckpoint = none
    Records = {a1}
    Retention = 1
    ClockLag = 1
    MaxTime = 2
    Durable = TRUE
SPECIFICATION StoreSpec
SYMMETRY StoreSymmetry
CHECK_DEADLOCK FALSE
INVARIANTS
    TypeOK
    ScopeFence
    OneRowPerId
    RetentionPromised
PROPERTIES
    ResolvedUntilRetention
    UnresolvedNeverDropped
    FenceSpec
