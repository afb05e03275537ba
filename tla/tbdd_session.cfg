SPECIFICATION Spec
CONSTANTS
    MAXREF = 100
    MaxNodeIncrease = 4
    CacheRatio = 4
    InitSize = 1
    Types = {"LRAT", "DRAT"}
    VarCount = 2
    Inputs <- MCRefutable
    InitNodes = 11
    Level2Var <- MCIdentityOrder
    Slots = {1, 2, 3}
    Named = {}
    PlainOps = {}
    Lemmas = {}
    MaxOps = 4
    NodeBound = 31
INVARIANTS
    RootsTrusted
    RefutationStays
PROPERTIES
    FileAccepted
    KeepsRefTable
CHECK_DEADLOCK FALSE
