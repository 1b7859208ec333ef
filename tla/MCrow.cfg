SPECIFICATION FairSpec
CONSTANTS
    OBSERVE_BUDGET = 8
    LOST_OBSERVATION_BOUND = 6
    STOP_BUDGET = 6
    MaxDelay = 3
    Irreversible = TRUE
    Actions = {"retire", "stop"}
    Deadlines <- SomeDeadlines
    Leases = {1, 2}
    Delays = {1, 2}
    MaxAttempts = 2
CHECK_DEADLOCK FALSE
INVARIANTS NoBlindReplay SuccessIsReal
PROPERTIES CancelIsMonotonic ClockSuffices
