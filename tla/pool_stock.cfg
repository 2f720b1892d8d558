SPECIFICATION Spec
CONSTANTS
    t1 = t1
    t2 = t2
    a1 = a1
    a2 = a2
    a3 = a3
    u1 = u1
    c1 = c1
    genesis = genesis
    None = None
    Thread <- MCThread
    Account <- MCAccount3
    Address <- MCAddress3
    Genesis = genesis
    Grant = 1
    User = {}
    Contract = {}
    Target = 1
    Prepared = {}
    RepeatUntil = 1
    MayCrash = FALSE
    NetOutcomes = {"ok"}
    DbOutcomes = {"ok"}
    Garbage = {}
SYMMETRY MCSymmetry3
INVARIANTS StockBound CreatedIsOwn
