CONSTANTS
    a = a  b = b  u = u  v = v  w = w
    Thread <- MCThread
    Proc <- MCProc
    ProcOf <- MCProcOf
    MaxRelease = 2
    NumPages = 3
    MaxMap = 3
    MaxCalls = 3
    NumCpus = 2
    Mapped <- MCMapped
    Ops <- MCOps
SPECIFICATION FairSpec
INVARIANTS
    FaultHeld
    OneEntryPerPage
    PresentIsBacked
    KilledOnlyIfDisturbed
    ReleaseProtected
PROPERTIES
    FaultServed
CHECK_DEADLOCK FALSE
