SPECIFICATION PartsSpec
CONSTANTS
    N = 1
    OffLane = {1}
    JobRuns = {}
    MaxCrashes = 2
CHECK_DEADLOCK FALSE
INVARIANTS LaunchedOnce OutcomesSound NeverTorn SettledIsInstalled
PROPERTIES NothingKeptIsLost Recovers
