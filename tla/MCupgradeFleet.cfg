SPECIFICATION Spec
CONSTANTS
    Sparks = {a, b}
    Package <- OneRollout
    LEASE = 1
    WINDOW = 1
    FENCE = 2
    RECOVERY = 3
    MaxFaults = 1
    MaxOrphans = 0
    OBSERVE_BUDGET = 1
    LOST_OBSERVATION_BOUND = 1
    STOP_BUDGET = 1
    MaxDelay = 3
SYMMETRY SparkSymmetry
INVARIANTS EndedRolloutIsSettled
