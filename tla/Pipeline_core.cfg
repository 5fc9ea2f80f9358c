\* Three runs, two edits, two crashes or lost entries; all fail-open; a LaTeX
\* project or a PDF.
SPECIFICATION InputsSpec
CONSTANTS
    Source = {1, 2, 3, 4}
    FirstSource = 1
    IsTex = TRUE
    Broken = {4}
    NoPdf = {}
    BadPdf = {}
    BibOf <- MCBib
    Rule <- MCRule
    BuildRule = "SYS-03"
    RuleSeverity <- MCSeverity
    FinalError = {"ANN-03"}
    Reads <- MCReads
    Violates <- MCViolates
    Request <- CoreRequests
    FaultKinds = {"crash", "lose"}
    MaxRuns = 3
    MaxEdits = 2
    MaxFaults = 2
INVARIANTS IInv NoFalsePass NoFalseFail SameInputSameVerdict
CHECK_DEADLOCK FALSE
