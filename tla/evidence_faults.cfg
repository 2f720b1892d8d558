SPECIFICATION Spec
CONSTANTS
    t1 = t1
    t2 = t2
    a1 = a1
    a2 = a2
    genesis = genesis
    Thread <- MCThread
    Account <- OneAccount
    Owner <- OneOwner
    Genesis = genesis
    Keyless = {}
    Grant = 1
    MaxCalls = 2
    InitBal = 1
    Treasury = 1
    Deleting = FALSE
    BadDesc = TRUE
    MayCrash = TRUE
    NetOutcomes = {"ok", "fail", "lost", "reject"}
    DbOutcomes = {"ok", "fail"}
    Garbage = {}
    None = None
SYMMETRY ThreadSymmetry
INVARIANTS TypeOK AtMostOnce ResultIsTrue
CHECK_DEADLOCK FALSE
