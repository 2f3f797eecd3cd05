\* One transfer of up to two chunks; three processes, so that a thread can outlive two owners.
CONSTANTS
    Transfers = {t1}
    Procs = {p1, p2, p3}
    NoProc = NoProc
    Capacity = 1
    MaxChunks = 2
SPECIFICATION FairSpec
CHECK_DEADLOCK FALSE
INVARIANTS
    TypeOK
    StagedInFull
    UnchangedIsUnchanged
    BlameIsRight
PROPERTIES
    SettledIsFinal
    RecoverySparesOwnThreads
    ResponseTellsOutcome
    RecordsImplemented
    EveryTransferReturns
