SPECIFICATION Spec
CONSTANTS
    VarCount = 5
    NULL = NULL
    Summands <- MCRepeated
    Systems <- MCNone
    InternalSets <- MCInternalSets
INVARIANT
    EdgesJoinArguments
CHECK_DEADLOCK FALSE
