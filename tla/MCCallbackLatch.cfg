CONSTANTS
    Tasks = {t1, t2, t3}
    Callbacks = {c1, c2}
    MaxReleases = 2
SPECIFICATION FairSpec
INVARIANTS
    SlotsAlive
    DequeuedIsGranted
    TimeoutIsTrue
PROPERTIES
    AcquireReturns
