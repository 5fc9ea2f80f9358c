\* Three launches, no kill, no failed write, every run short.
SPECIFICATION Spec
CONSTANTS
    Proc = {p1, p2, p3}
    NoOwner = none
    StaleAfter = 3
    Relaunch = FALSE
    LongRuns = FALSE
    MaxFaults = 0
    MaxReclaims = 3
SYMMETRY ProcSymmetry
INVARIANT MutualExclusion
CHECK_DEADLOCK FALSE
