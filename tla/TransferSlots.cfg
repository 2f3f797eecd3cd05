\* Two requests compete for the only slot of one process.
CONSTANTS
    Transfers = {t1, t2}
    Procs = {p1}
    NoProc = NoProc
    Capacity = 1
    MaxChunks = 1
SPECIFICATION Spec
CHECK_DEADLOCK FALSE
INVARIANTS
    SlotsAccounted
