SPECIFICATION ApartSpec
CONSTANTS
    Procs = {p1, p2}
    Holds = {h1, h2}
    Refs = {b1}
    NoRef = NoRef
    NoHold = NoHold
    Amounts = {1, 2}
    Openings <- MCOpenings
    MaxCalls = 4
    MaxAborts = 1
SYMMETRY MCSymmetry
INVARIANTS HoldAccounted RefundsWithinDebits
PROPERTY ImplementsAccount
CHECK_DEADLOCK FALSE
