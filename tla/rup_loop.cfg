SPECIFICATION Spec
CONSTANTS
    Literals <- MCLiterals
    Names = {1, 2, 3, 4}
    Orders <- MCOrders
    Clauses <- MCClauses
INVARIANTS
    ConflictSound
    UnitsFollow
    AntecedentsSuffice
CHECK_DEADLOCK FALSE
