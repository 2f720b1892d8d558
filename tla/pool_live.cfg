SPECIFICATION FairSpec
CONSTANTS
    t1 = t1
    t2 = t2
    a1 = a1
    a2 = a2
    a3 = a3
    u1 = u1
    c1 = c1
    genesis = genesis
    None = None
    Thread <- MCThread
    Account <- MCAccount
    Address <- MCAddress
    Genesis = genesis
    Grant = 1
    User = {u1}
    Contract = {}
    Target = 1
    Prepared = {}
    RepeatUntil = 0
    MayCrash = FALSE
    NetOutcomes = {"ok"}
    DbOutcomes = {"ok"}
    Garbage = {}
PROPERTIES CallsReturn
