CONSTANTS
    Tasks = {t1, t2}
    Timer = timer
    TicketMod = 8
    InitialPermits = 0
    MaxPermits = 2
SPECIFICATION FairSpec
INVARIANTS
    NoStaleHandler
PROPERTIES
    PermitTaken
    ImplementsSemaphore
