\* Three files, texts of up to thirteen pieces, PDFs of two pages.
SPECIFICATION Spec
CONSTANTS
    File = {"main", "a", "b"}
    Name <- MCName
    Bytes <- MCBytes
    Boundary <- MCBoundary
    Base <- MCBase
    Roles <- MCRoles
    Near = 0
    Budget = 10
    OverlapTokens = 1
    Infinity = 99
    Slack = 1
    Sources <- MCSources
    Specs <- MCSpecs
INVARIANTS
    TraversalIsSound ReadersAgree TextIsWhole FormsStayOut
    BatchesKeepSections
PROPERTY OnlyForward
