SPECIFICATION Spec
CONSTANTS
    Procs = {p1, p2}
    Price = 5
    Capacity = 3
    Parties = {2}
    Fees = {1}
    LegacyModes = {TRUE}
    ShareAnswers <- MCNoChallenge
    Alone = TRUE
    FaultPoints = {}
    MaxFaults = 0
    MaxRequests = 2
    MaxPays = 2
    MaxRegularisations = 1
PROPERTY NoClaimAfterCancel
CHECK_DEADLOCK FALSE
