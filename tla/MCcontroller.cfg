SPECIFICATION PartsSpec
CONSTANTS
    Workers = {w1, w2}
    Clients = {c1, c2}
    Requests = {"install", "remove"}
    Lease = 1
    MaxAttempts = 2
    MaxVersion = 5
    S = 2
    RETRY_FIRST = 1
    RETRY_CAP = 2
    Horizon = 3
    MaxRestarts = 1
    N = 2
    K <- TwoAndOne
    batch_limit = 2
    WAIT_STEP = 1
CHECK_DEADLOCK FALSE
INVARIANTS Consistent BacksOff FairPass
PROPERTIES ImplementsBoard NobodyStarves
