CONSTANTS
    Tasks = {t1, t2, t3}
    TicketMod = 32
    HighMark = 31
    LowMark = 1
    FirstTicket = 30
    MaxLocks = 4
    MAX_RESOURCES = 1
SPECIFICATION Spec
INVARIANTS
    NoLostWakeup
CHECK_DEADLOCK FALSE
