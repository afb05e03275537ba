SPECIFICATION Spec
CONSTANTS
    Slots = {s1, s2, s3}
    Nodes = {2, 3}
    InitSize = 1
    MaxRef = 2
    MaxClauses = 3
INVARIANTS
    ClauseWhileHeld
    CountsExact
    TableExact
    NothingLeaks
PROPERTIES
    DeletedOnce
CHECK_DEADLOCK FALSE
