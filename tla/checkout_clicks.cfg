SPECIFICATION FairSpec
CONSTANTS
    Procs = {p1, p2, p3}
    Holds = {h1, h2}
    NoHold = NoHold
    Price = 2
    Applied = {0, 1, 2}
    MethodGiven = {TRUE}
    LegacyModes = {TRUE, FALSE}
    FaultPoints <- MCExternal
    MaxFaults = 1
    MaxRequests = 4
    MaxDeliveries = 1
    MaxAttempts = 1
INVARIANTS OnePass PaidExactly  ReviewKeepsFunds
PROPERTIES FollowsLifecycle SuccessIsRemembered NoSilentReopening PaymentSettles
CHECK_DEADLOCK FALSE
