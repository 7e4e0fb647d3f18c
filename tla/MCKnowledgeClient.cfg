SPECIFICATION Spec
CONSTANTS
    Agents = {a1, a2}
    Contents = {c1}
    Claims = {r1}
    NoClaim = NoClaim
    MaxCalls = 2
SYMMETRY AgentSymmetry
INVARIANTS
    TypeOK
    NoteOnce
    FailureLeavesNothing
    LearnedIsNoted
CHECK_DEADLOCK FALSE
