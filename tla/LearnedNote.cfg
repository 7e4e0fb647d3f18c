SPECIFICATION CarefulSpec
CONSTANTS
    Agents = {a1, a2}
    Contents = {c1}
    Claims = {r1}
    NoClaim = NoClaim
    MaxCalls = 2
INVARIANT ReplacementIsNoted
CHECK_DEADLOCK FALSE
