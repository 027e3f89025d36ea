CONSTANTS
    CPUs = {cpu1}
    BSP = cpu1
    MaxTask = 4
    MAX_POINTS = 1
    CONTINUE_RUNNING_BIAS = 1
    RESOURCE_PRIORITY_BIAS = 1
    MAX_RESOURCES = 1
    MaxSleep = 1
    Ops = {"resource", "nanos", "async"}
    Outcomes = {"terminate"}
    UninitCurrent = {0}
SPECIFICATION FairSpec
PROPERTIES
    NoStarvation
