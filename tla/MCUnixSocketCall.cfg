SPECIFICATION FairSpec
CONSTANTS
    VerbsTried <- MCVerbsTried
    ReplySizes <- MCReplySizes
    Timeout = 3
    MaxBytes = 3
INVARIANTS
    InBounds
    ReadScopeChangesNothing
    OneDeadline
PROPERTIES
    KeepsPromise
    EveryCallReturns
CHECK_DEADLOCK FALSE
