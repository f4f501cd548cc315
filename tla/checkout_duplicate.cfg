SPECIFICATION Spec
CONSTANTS
    Procs = {p1, p2}
    Holds = {h1, h2}
    NoHold = NoHold
    Price = 2
    Applied = {0, 1}
    MethodGiven = {TRUE}
    LegacyModes = {TRUE, FALSE}
    FaultPoints = {}
    MaxFaults = 0
    MaxRequests = 2
    MaxDeliveries = 2
    MaxAttempts = 1
PROPERTY SuccessIsRemembered
CHECK_DEADLOCK FALSE
