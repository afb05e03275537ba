SPECIFICATION Spec
CONSTANTS
    MAXREF = 100
    MaxNodeIncrease = 6
    CacheRatio = 4
    MaxPairsId = 100
    VarCount = 3
    CacheSize = 3
    Menus <- MCCareless
    Draws <- MCDraws
    Orders <- MCOrders
INVARIANT
    Ordered
CHECK_DEADLOCK FALSE
