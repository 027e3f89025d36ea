CONSTANTS
    CPUs = {cpu1, cpu2}
    BSP = cpu1
    MaxTask = 4
    MAX_POINTS = 1
    CONTINUE_RUNNING_BIAS = 1
    RESOURCE_PRIORITY_BIAS = 1
    MAX_RESOURCES = 1
    MaxSleep = 1
    Ops = {}
    Outcomes = {}
    UninitCurrent = {0, 1, 2, 3, 4}
SPECIFICATION Spec
INVARIANTS
    StackExclusive
