SPECIFICATION FairSpec
CONSTANTS
    a = a
    b = b
    Runs = {a, b}
    MayEnd = {b}
    MayStop = {a}
    MayFail = {b}
    Fresh = FALSE
    MaxFaults = 2
CHECK_DEADLOCK FALSE
PROPERTIES RecordedIsLive DispatchSeesRouteGone GatewayConverges
