\* Tools that fail, a rule or the engine raising, PDFs that are missing or
\* unreadable, a clean checkout, Ctrl+C or a crash at any point; fail-open and
\* fail-closed, with the LLM stage.
SPECIFICATION FairSpec
CONSTANTS
    Source = {1, 3, 5, 6}
    FirstSource = 1
    IsTex = TRUE
    Broken = {}
    NoPdf = {5}
    BadPdf = {6}
    BibOf <- MCBib
    Rule <- MCRule
    BuildRule = "SYS-03"
    RuleSeverity <- MCSeverity
    FinalError = {"ANN-03"}
    Reads <- MCReads
    Violates <- MCViolates
    Request <- FaultRequests
    FaultKinds = {"latexmk", "rule", "engine", "clean", "sigint", "io", "lose", "crash"}
    MaxRuns = 2
    MaxEdits = 1
    MaxFaults = 1
INVARIANTS NoPdfIsDegraded NoFalseFailHere ReportNeverOlder GapsAreExplained
PROPERTY CancelHonoured
CHECK_DEADLOCK FALSE
