CONSTANTS
    Threads = {t1, t2, t3}
    Addr = {a1}
    WakeNums = {3}
    NoThread = none
    UninitHandle = {none, t1, t2, t3}
SYMMETRY ThreadSymmetry
SPECIFICATION Spec
INVARIANTS
    OneReturn
    NoMissedWake
    SignalFindsSleeper
    KilledSleepersFound
CHECK_DEADLOCK FALSE
