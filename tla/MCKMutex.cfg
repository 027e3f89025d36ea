CONSTANTS
    Tasks = {t1, t2, t3}
    TicketMod = 32
    HighMark = 31
    LowMark = 1
    FirstTicket = 0
    MaxLocks = 6
    MAX_RESOURCES = 1
SPECIFICATION FairSpec
INVARIANTS
    MutualExclusion
    NoLostWakeup
    PriorityReturned
PROPERTIES
    LockServed
    ImplementsFifo
CHECK_DEADLOCK FALSE
