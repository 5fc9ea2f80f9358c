\* Three formal rules in every mix of situations; sequential and in the pool.
SPECIFICATION FairSpec
CONSTANTS
    Size = 4
    Capabilities <- MCCapabilities
    Disabled = {}
    Severity <- MCSeverity
    Ask <- MCAsk
INVARIANTS IInv CrashNeverBlocks
PROPERTIES EngineIsVerdict EveryCallEnds
