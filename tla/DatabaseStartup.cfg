\* Four starts with two keys.
CONSTANTS
    Procs = {p1, p2, p3, p4}
    NoProc = NoProc
    Keys = {k1, k2}
    NoKey = NoKey
SPECIFICATION StartupSpec
CHECK_DEADLOCK FALSE
INVARIANTS
    ServesCompleteDatabase
    SecretsReadable
