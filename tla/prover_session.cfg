SPECIFICATION Spec
CONSTANTS
    Inputs <- MCInputs
    Types = {"LRAT", "DRAT", "FRAT"}
    MaxDerived = 3
    MaxSessions = 2
INVARIANTS
    NothingLeaks
PROPERTIES
    FileAccepted
    RefutationKept
CHECK_DEADLOCK FALSE
