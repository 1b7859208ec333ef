SPECIFICATION Spec
CONSTANTS
    OBSERVE_BUDGET = 1
    LOST_OBSERVATION_BOUND = 2
    STOP_BUDGET = 2
    MaxDelay = 4
    Kinds = {"job"}
    MaxAttempts = 2
    LEASE = 1
    PROGRESSING = 1
    RECOVERY_BUDGET = 3
    START_BUDGET = 1
    STALL_WINDOW = 1
    JOB_BOUND = 1
    RETENTION = 3
    CANCEL_WINDOW = 1
    WAIT_STEP = 1
    Delays = {1}
    Prompt = FALSE
INVARIANTS ReissueIsProven
CHECK_DEADLOCK FALSE
