SPECIFICATION Spec
CONSTANTS
    MAXREF = 100
    MaxNodeIncrease = 6
    CacheRatio = 4
    MaxPairsId = 100
    VarCount = 4
    CacheSize = 3
    Menus <- MCMenus
    Draws <- MCDraws
    Orders <- MCOrders
INVARIANTS
    MeaningsKept
    TableSound
    BlocksKept
    NeverLarger
CHECK_DEADLOCK FALSE
