SPECIFICATION Spec
CONSTANTS
    WorkProfile <- MCProfiles
    DisabledFor <- MCDisabledFor
    ConfigPath = "top"
    Rubric <- MCRubric
    Scenes <- MCScenes
    MaxEdits = 1
INVARIANTS
    OnlyWithConsent
    SummaryFitsRun
    DoctorAgreesWithRun
PROPERTY
    NeverAnotherThesis
CHECK_DEADLOCK FALSE
