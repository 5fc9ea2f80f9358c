\* The same inputs; what a commented \begin{verbatim} takes with it.
SPECIFICATION Spec
CONSTANTS
    File = {"main", "a", "b"}
    Name <- MCName
    Bytes <- MCBytes
    Boundary <- MCBoundary
    Base <- MCBase
    Roles <- MCRoles
    Near = 0
    Budget = 10
    OverlapTokens = 1
    Infinity = 99
    Slack = 1
    Sources <- MCSources
    Specs <- MCSpecs
INVARIANT OnlyCommentsAreRemoved
