SPECIFICATION DomainSpec
CONSTANTS
    MAXREF = 100
    MaxNodeIncrease = 4
    CacheRatio = 4
    MaxPairsId = 3
    VarCount = 3
    InitNodes = 15
    CacheSize = 3
    Menus <- MCAllMenus
    BinaryOps <- MCBinaryOps
INVARIANTS
    AnswersRight
    CacheSound
    ReferencesExact
CHECK_DEADLOCK FALSE
