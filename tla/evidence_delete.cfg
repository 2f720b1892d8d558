SPECIFICATION Spec
CONSTANTS
    t1 = t1
    t2 = t2
    a1 = a1
    a2 = a2
    genesis = genesis
    Thread <- MCThread
    Account <- TwoAccounts
    Owner <- TwoOwners
    Genesis = genesis
    Keyless = {a2}
    Grant = 1
    MaxCalls = 2
    InitBal = 4
    Treasury = 0
    Deleting = TRUE
    BadDesc = FALSE
    MayCrash = FALSE
    NetOutcomes = {"ok"}
    DbOutcomes = {"ok", "fail"}
    Garbage = {}
    None = None
SYMMETRY ThreadSymmetry
INVARIANTS VersionChain DeleteCovers
CHECK_DEADLOCK FALSE
