\* Four rules, two requests each, three HTTP attempts in a budget of six.
SPECIFICATION FairSpec
CONSTANTS
    Size = 4
    Specified = {1, 3, 4}
    NoSection = {3}
    Numbered = {1}
    MaxElapsed = 6
    MaxAttempts = 3
    Maximum = 2
    Durations = {0, 2, 9}
    RetryAfter <- MCRetryAfter
INVARIANTS ReportSoFar VerdictsAreGrounded RetryWithinBudget
PROPERTY EveryRuleAnswered
