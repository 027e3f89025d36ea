CONSTANTS
    CPUs = {cpu1, cpu2}
    BSP = cpu1
    MaxTask = 4
    MAX_POINTS = 1
    CONTINUE_RUNNING_BIAS = 1
    RESOURCE_PRIORITY_BIAS = 1
    MAX_RESOURCES = 1
    MaxSleep = 1
    Ops = {"async"}
    Outcomes = {"terminate"}
    UninitCurrent = {0}
SPECIFICATION Spec
INVARIANTS
    CurrentFound
