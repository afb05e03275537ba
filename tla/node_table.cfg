SPECIFICATION Spec
CONSTANTS
    MAXREF = 2
    MaxNodeIncrease = 8
    Setups <- MCSetups
    VarCount = 3
    InitNodes = 12
    MaxStack <- MCMaxStack
    MaxProduced = 4
    MaxHeld = 1
INVARIANTS
    Canonical
    FreeListExact
    LiveNodesDefined
    GivesUpOnlyWhenFull
PROPERTIES
    ReachableUntouched
CHECK_DEADLOCK FALSE
