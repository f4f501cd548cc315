SPECIFICATION Spec
CONSTANTS
    Procs = {p1, p2}
    Holds = {h1, h2}
    NoHold = NoHold
    Price = 2
    Applied = {0, 1, 2}
    MethodGiven = {TRUE, FALSE}
    LegacyModes = {TRUE, FALSE}
    FaultPoints <- MCAnywhere
    MaxFaults = 2
    MaxRequests = 3
    MaxDeliveries = 2
    MaxAttempts = 1
SYMMETRY MCSymmetry
INVARIANTS LegacyBeforeMoney
CHECK_DEADLOCK FALSE
