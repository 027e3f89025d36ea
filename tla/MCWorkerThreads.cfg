CONSTANTS
    Threads = {worker, async, other, another}
    thr = worker
    asyncThr = async
    MaxFuncs = 5
    MaxAsync = 4
    NumInodes = 2
    MaxMkdir = 1
    MaxErrors = 1
    Grows = {TRUE}
SPECIFICATION FairSpec
INVARIANTS
    ContextAlive
    DeletedOnce
    ValidIsClean
PROPERTIES
    QueuedRuns
    StopReturns
    AsyncRuns
    AllWrittenBack
    CloseCompletes
CHECK_DEADLOCK FALSE
