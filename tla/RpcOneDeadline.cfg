SPECIFICATION Spec
CONSTANTS
    VerbsTried <- MCVerbsTried
    ReplySizes <- MCReplySizes
    Timeout = 1
    MaxBytes = 1
    Addresses = 1
    Tls = FALSE
INVARIANTS
    OneDeadline
CHECK_DEADLOCK FALSE
