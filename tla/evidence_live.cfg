SPECIFICATION FairSpec
CONSTANTS
    t1 = t1
    t2 = t2
    a1 = a1
    a2 = a2
    genesis = genesis
    Thread <- MCThread
    Account <- OneAccount
    Owner <- OneOwner
    Genesis = genesis
    Keyless = {}
    Grant = 1
    MaxCalls = 1
    InitBal = 0
    Treasury = 1
    Deleting = FALSE
    BadDesc = FALSE
    MayCrash = FALSE
    NetOutcomes = {"ok", "fail", "lost", "reject"}
    DbOutcomes = {"ok", "fail"}
    Garbage = {}
    None = None
PROPERTIES Implements CallsReturn
CHECK_DEADLOCK FALSE
