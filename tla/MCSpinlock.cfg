CONSTANTS
    CPUs = {cpu1, cpu2}
    TicketMod = 5
SPECIFICATION FairSpec
INVARIANTS
    MutualExclusion
PROPERTIES
    FlagRestored
    TicketServed
    ImplementsFifo
