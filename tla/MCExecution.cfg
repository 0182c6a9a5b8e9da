SPECIFICATION FairSpec
CONSTANTS
    any = any
    other = other
    Requests = {any, other}
    Apps <- EachKind
    MaxTasks = 2
    MaxChunks = 2
    StartupHandlers = 1
    ShutdownHandlers = 2
INVARIANTS
    TasksFollowHandler
    RequestsWithinLifespan
    HooksPaired
PROPERTIES
    ChunksReachClient
    RequestsFinish
    TasksRun
    InterruptedServerReturns
    LoopStopsWithServer
CHECK_DEADLOCK FALSE
