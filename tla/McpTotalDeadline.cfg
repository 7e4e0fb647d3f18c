SPECIFICATION Spec
CONSTANTS
    ToolsTried <- MCToolsTried
    ReplySizes <- MCReplySizes
    Timeout = 2
    MaxBytes = 1
    Addresses = 2
    Tls = FALSE
INVARIANTS
    TotalDeadline
CHECK_DEADLOCK FALSE
