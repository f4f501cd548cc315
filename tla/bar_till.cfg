SPECIFICATION Spec
CONSTANTS
    Procs = {p1, p2}
    Keys = {k1, k2}
    Lines = {l1}
    Sessions = {s1}
    None = None
    Prices = {1}
    Amounts = {1}
    Opening = 1
    Credits = 1
    Apart <- MCApart
    FaultPoints <- MCHandled
    MaxFaults = 1
    MaxRequests = 5
SYMMETRY MCSymmetry
INVARIANTS LedgerMatches MarkedWhenPaid SessionBalanced
PROPERTIES ClosedIsFinal
CHECK_DEADLOCK FALSE
