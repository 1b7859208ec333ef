SPECIFICATION FairSpec
CONSTANTS
    Handlers = {h1, h2}
    Keys = {k0, k1, k2}
    FirstKey = k0
    NoKey = NoKey
    Nobody = Nobody
    MaxSerial = 4
    Attempts = 2
    Rounds = 1
    MaxFaults = 2
CHECK_DEADLOCK FALSE
INVARIANTS RecordsAreSound AgentKeepsAccess
PROPERTIES RotationCompletes EndedIsRevoked
