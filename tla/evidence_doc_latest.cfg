SPECIFICATION Spec
CONSTANTS
    t1 = t1
    t2 = t2
    a1 = a1
    a2 = a2
    genesis = genesis
    Thread <- OneThread
    Account <- OneAccount
    Owner <- OneOwner
    Genesis = genesis
    Keyless = {}
    Grant = 1
    MaxCalls = 4
    InitBal = 4
    Treasury = 0
    Deleting = TRUE
    BadDesc = FALSE
    MayCrash = FALSE
    NetOutcomes = {"ok"}
    DbOutcomes = {"ok"}
    Garbage = {}
    None = None
INVARIANTS LatestPredecessor
CHECK_DEADLOCK FALSE
