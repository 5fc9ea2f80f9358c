\* Ctrl+C during a run, then the same run again.
SPECIFICATION Spec
CONSTANTS
    Source = {1}
    FirstSource = 1
    IsTex = TRUE
    Broken = {}
    NoPdf = {}
    BadPdf = {}
    BibOf <- MCBib
    Rule <- MCRule
    BuildRule = "SYS-03"
    RuleSeverity <- MCSeverity
    FinalError = {"ANN-03"}
    Reads <- MCReads
    Violates <- MCViolates
    Request <- FullRequests
    FaultKinds = {"sigint"}
    MaxRuns = 3
    MaxEdits = 0
    MaxFaults = 1
INVARIANT EveryRuleJudged
CHECK_DEADLOCK FALSE
