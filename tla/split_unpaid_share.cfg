SPECIFICATION Spec
CONSTANTS
    Procs = {p1}
    Price = 5
    Capacity = 3
    Parties = {2}
    Fees = {1}
    LegacyModes = {TRUE}
    ShareAnswers <- MCAnyAnswer
    Alone = TRUE
    FaultPoints = {}
    MaxFaults = 0
    MaxRequests = 1
    MaxPays = 2
    MaxRegularisations = 1
INVARIANT PaidIsCollected
CHECK_DEADLOCK FALSE
