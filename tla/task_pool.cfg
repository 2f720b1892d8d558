SPECIFICATION FairSpec
CONSTANTS
    c1 = c1
    c2 = c2
    x1 = x1
    x2 = x2
    threadNum = 2
    Task <- TwoTasks
    Client <- TwoClients
    Owner = owner
    CreateFails = TRUE
    None = None
INVARIANTS TypeOK TakenOnce JoinedIsFinished NoTaskAbandoned
PROPERTIES EndReturns
CHECK_DEADLOCK FALSE
