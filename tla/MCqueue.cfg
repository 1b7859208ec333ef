SPECIFICATION FairSpec
CONSTANTS
    Orders = {1, 2, 3}
    Plans <- AllPlans
    MaxIntent = 2
    MaxRestarts = 1
    LEASE = 1
    START_BUDGET = 2
    CANCEL_WINDOW = 1
    RECOVERY = 2
    FENCE = 2
    WAIT_STEP = 1
    Unfit = {"build", "job"}
    OBSERVE_BUDGET = 1
    LOST_OBSERVATION_BOUND = 1
    STOP_BUDGET = 1
    MaxDelay = 2
INVARIANTS OneAtATime StoppedStaysStopped
PROPERTIES NoOrderStarves
