SPECIFICATION Spec
CONSTANTS
    Procs = {p1, p2}
    Holds = {h1, h2}
    Refs = {b1}
    NoRef = NoRef
    NoHold = NoHold
    Amounts = {1, 2}
    Openings <- MCSmallOpenings
    MaxCalls = 2
    MaxAborts = 0
SYMMETRY MCSymmetry
INVARIANT NoOverdraft
CHECK_DEADLOCK FALSE
