\* A fail-closed run, then a fail-open one, on a project without a PDF.
SPECIFICATION Spec
CONSTANTS
    Source = {5}
    FirstSource = 5
    IsTex = TRUE
    Broken = {}
    NoPdf = {5}
    BadPdf = {}
    BibOf <- MCBib
    Rule <- MCRule
    BuildRule = "SYS-03"
    RuleSeverity <- MCSeverity
    FinalError = {"ANN-03"}
    Reads <- MCReads
    Violates <- MCViolates
    Request <- ToolRequests
    FaultKinds = {}
    MaxRuns = 3
    MaxEdits = 0
    MaxFaults = 0
PROPERTY ReportAlwaysPublished
CHECK_DEADLOCK FALSE
