SPECIFICATION Spec
CONSTANTS
    WorkProfile <- MCProfiles
    DisabledFor <- MCDisabledFor
    ConfigPath = "top"
    Rubric <- MCRubric
    Scenes <- TwoTheses
    MaxEdits = 1
INVARIANT
    VerdictIsOfThisRun
CHECK_DEADLOCK FALSE
