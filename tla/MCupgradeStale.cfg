SPECIFICATION Spec
CONSTANTS
    Sparks = {a}
    Package <- OneRollout
    LEASE = 2
    WINDOW = 2
    FENCE = 3
    RECOVERY = 4
    MaxFaults = 1
    MaxOrphans = 1
    OBSERVE_BUDGET = 1
    LOST_OBSERVATION_BOUND = 1
    STOP_BUDGET = 1
    MaxDelay = 4
PROPERTY DoneRunsTarget
