SPECIFICATION FairSpec
CONSTANTS
    OBSERVE_BUDGET = 1
    LOST_OBSERVATION_BOUND = 2
    STOP_BUDGET = 2
    MaxDelay = 3
    Kinds = {"job", "start", "transfer"}
    MaxAttempts = 2
    LEASE = 1
    PROGRESSING = 1
    RECOVERY_BUDGET = 1
    START_BUDGET = 1
    STALL_WINDOW = 1
    JOB_BOUND = 1
    RETENTION = 2
    CANCEL_WINDOW = 1
    WAIT_STEP = 1
    Delays = {1}
    Prompt = TRUE
CHECK_DEADLOCK FALSE
INVARIANTS RowsAgree AtMostOneLaunch NoOverlap ReissueIsProven
PROPERTIES EndedStaysEnded WithdrawnIsNotIssued Concludes
