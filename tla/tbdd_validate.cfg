SPECIFICATION Spec
CONSTANTS
    MAXREF = 100
    MaxNodeIncrease = 4
    CacheRatio = 4
    InitSize = 1
    Types = {"LRAT"}
    VarCount = 3
    Inputs <- MCInputs
    InitNodes = 11
    Level2Var <- MCIdentityOrder
    Slots = {1, 2, 3}
    Named = {4}
    PlainOps = {2, 11}
    Lemmas <- MCLemmas
    MaxOps = 4
    NodeBound = 31
INVARIANTS
    MeaningKept
    CacheSound
    ProofsSucceed
    EveryClauseOwned
PROPERTIES
    FileAccepted
CHECK_DEADLOCK FALSE
