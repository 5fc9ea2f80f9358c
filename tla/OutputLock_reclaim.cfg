\* Three processes, kills, failed writes, restarts and runs of any length.
SPECIFICATION FairSpec
CONSTANTS
    Proc = {p1, p2, p3}
    NoOwner = none
    StaleAfter = 2
    Relaunch = TRUE
    LongRuns = TRUE
    MaxFaults = 2
    MaxReclaims = 3
INVARIANTS IInv HoldersBoundedByReclaims
PROPERTY NotLockedOut
