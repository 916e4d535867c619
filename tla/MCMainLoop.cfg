SPECIFICATION FairSpec
CONSTANTS
    Threads = {t1, t2}
    Main = main
    NoOne = nobody
    Levels = {10, 30}
    MaxCalls = 2
CHECK_DEADLOCK FALSE
INVARIANTS
    TypeOK
    PromiseAlive
    PromiseSetOnce
    SyncInvokeRan
    RunInCallOrder
    ExitLevelHonoured
PROPERTIES
    SyncInvokeReturns
    ImplementsMainThreadQueue
