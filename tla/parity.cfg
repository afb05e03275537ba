SPECIFICATION Spec
CONSTANTS
    VarCount = 5
    NULL = NULL
    Summands <- MCSummands
    Systems <- MCSystems
    InternalSets <- MCInternalSets
INVARIANTS
    SumRight
    EdgesKept
    EquationsKept
    AnswerRight
    SolvedForm
CHECK_DEADLOCK FALSE
