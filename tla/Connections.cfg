\* Three concurrent requests on two names.
CONSTANTS
    p1 = p1
    p2 = p2
    d1 = d1
    Requests = {r1, r2, r3}
    Names = {n1, n2}
    Paths <- MCPaths
    Dirs <- MCDirs
    Resolved <- MCResolved
    Remote = Remote
SYMMETRY Symmetry
SPECIFICATION Spec
CHECK_DEADLOCK FALSE
INVARIANTS
    AnswersAccountForTable
    NotFoundMadeNothing
