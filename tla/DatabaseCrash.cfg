\* A first start that dies, and a second one.
CONSTANTS
    Procs = {p1, p2}
    NoProc = NoProc
    Keys = {k1}
    NoKey = NoKey
SPECIFICATION StartupSpec
CHECK_DEADLOCK FALSE
INVARIANT CrashLeavesUsable
