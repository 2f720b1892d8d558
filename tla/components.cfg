SPECIFICATION FairSpec
CONSTANTS
    Parts = {"lock", "timer", "log", "session", "pages", "cache", "expr", "uint128", "files", "issue"}
    r1 = r1
    r2 = r2
    r3 = r3
    RwThread <- MCRwThread
    RwNobody = nobody
    RwMaxHold = 2
    TmInterval = 1
    TmDelay = {0, 1, 2}
    TmMaxTimers = 3
    TmMaxTime = 4
    LgThread <- MCLgThread
    LgNobody = nobody
    LgNull = null
    LgPeriod = 2
    LgDay = 3
    LgFull = 3
    LgRate = 2
    LgStart = 3
    LgMaxTime = 6
    SesFiles <- MCFiles
    SesMaxCalls = 2
    PgPer = {1, 2, 3}
    PgMax = 6
    EcKey = {1, 2}
    EcVal = {"v", "w"}
    EcAbsent = absent
    EcGarbage = {"MOD", "DEL"}
    ExLeaf = {0, 2}
    ExGarbage <- MCExGarbage
    ExMaxCalls = 2
    UHalfBits = 2
    ULeft = {0, 1, 2, 3, 5, 7, 8, 15, 16, 17, 31, 33, 63, 64, 77, 100, 127, 128, 129, 160, 200, 238, 239, 240, 241, 254, 255}
    URight = {0, 1, 2, 3, 4, 5, 7, 8, 9, 14, 15, 16, 17, 18, 31, 100, 127, 128, 129, 200, 240, 254, 255}
    LwTimeCap = 2
    LwSizeCap = 1
    LwExpire = 1
    LwMaxTime = 3
    LwMaxLines = 3
    Account = {issuer, genesis}
    Genesis = genesis
    Grant = 1
    IaThread <- MCLgThread
    IaIssuer = issuer
    IaFee = 1
    IaMaxCalls = 2
INVARIANTS TypeOK RwExclusive TmOnce TmInOrder LgFilesIntact LgDayIsFollowed SesReady IniLookup PgComplete EcContents EcMergeFails ExParses ExMeaning UResult LwKept IaResult
PROPERTIES RwWriterEnters TmFires
CHECK_DEADLOCK FALSE
