SPECIFICATION Spec
CONSTANTS
    Procs = {p1, p2}
    Holds = {h1}
    Refs = {b1}
    NoRef = NoRef
    NoHold = NoHold
    Amounts = {2, 3}
    Openings <- MCSmallOpenings
    MaxCalls = 3
    MaxAborts = 1
SYMMETRY MCSymmetry
INVARIANTS HoldSpentAtMostOnce
CHECK_DEADLOCK FALSE
