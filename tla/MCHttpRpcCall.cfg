SPECIFICATION Spec
CONSTANTS
    VerbsTried <- MCVerbsTried
    ReplySizes <- MCReplySizes
    Timeout = 1
    MaxBytes = 1
    Addresses = 2
    Tls = TRUE
INVARIANTS
    TypeOK
PROPERTIES
    KeepsPromise
CHECK_DEADLOCK FALSE
