SPECIFICATION Spec
CONSTANTS
    VarCount = 3
    CollectMin = 3
    CollectFraction = 10
    Files <- MCFiles
INVARIANTS
    SolutionsRight
    NoneMissed
    CheckerRight
CHECK_DEADLOCK FALSE
