SPECIFICATION FairSpec
CONSTANTS
    ToolsTried <- MCToolsTried
    ReplySizes <- MCReplySizes
    Timeout = 2
    MaxBytes = 1
    Addresses = 2
    Tls = TRUE
INVARIANTS
    InTime
PROPERTIES
    KeepsPromise
    EveryCallReturns
CHECK_DEADLOCK FALSE
