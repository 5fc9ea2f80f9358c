\* Every outcome of the build stage, fresh or from the cache of a run of either
\* policy, and every set of up to two findings of the other stages, over every
\* layer, severity and status.
SPECIFICATION Spec
CONSTANTS
    Check = {"SYS-03"}
    BuildCheck = "SYS-03"
    MaxFindings = 2
INVARIANTS IInv RefusedForARestoredBuildOnly AdvisoryLayersNeverDecide
    AdvisoryIsVisible
