SPECIFICATION Spec
CONSTANTS
    c1 = c1
    c2 = c2
    x1 = x1
    x2 = x2
    threadNum = 2
    Task <- TwoTasks
    Client <- TwoClients
    Owner = owner
    CreateFails = FALSE
    None = None
INVARIANTS Stopped
CHECK_DEADLOCK FALSE
