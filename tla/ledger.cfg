CONSTANTS
    p1 = p1
    p2 = p2
    Partitions = {t1, t2}
    Ids = {i1}
    Outcomes = {"succeeded"}
    Procs = {p1, p2}
    Threads <- MCThreads
    NoReceipt = none
    MaxEntries = 2
SPECIFICATION Spec
SYMMETRY LedgerSymmetry
INVARIANTS
    ChainsHold
    ReceiptsStand
    ReadersSeeWholeLines
    OutcomesOfOwnTenant
PROPERTIES
    SinkSpec
