SPECIFICATION FairSpec
CONSTANTS
    Sparks = {a}
    Package <- TwoRollouts
    LEASE = 2
    WINDOW = 1
    FENCE = 2
    RECOVERY = 3
    MaxFaults = 1
    MaxOrphans = 1
    OBSERVE_BUDGET = 1
    LOST_OBSERVATION_BOUND = 1
    STOP_BUDGET = 1
    MaxDelay = 3
PROPERTIES DoneRunsOrUndone RolloutConcludes
