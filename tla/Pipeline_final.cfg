\* A draft run, then one with --final, on a tree that no longer changes.
SPECIFICATION Spec
CONSTANTS
    Source = {1}
    FirstSource = 1
    IsTex = TRUE
    Broken = {}
    NoPdf = {}
    BadPdf = {}
    BibOf <- MCBib
    Rule <- MCRule
    BuildRule = "SYS-03"
    RuleSeverity <- MCSeverity
    FinalError = {"ANN-03"}
    Reads <- MCReads
    Violates <- MCViolates
    Request <- FinalRequests
    FaultKinds = {}
    MaxRuns = 3
    MaxEdits = 0
    MaxFaults = 0
INVARIANT FinalSeverityApplied
CHECK_DEADLOCK FALSE
