\* Two writers race for one destination, which one of them reaches through a symbolic link.
CONSTANTS
    Writers = {w1, w2}
    Direct = {w1}
    MaxChunks = 1
    MaxHistory = 4
SPECIFICATION Spec
CHECK_DEADLOCK FALSE
INVARIANTS
    NeverTorn
    NoStageLeft
    SyncedSurvives
    NoClobber
PROPERTIES
    SinkImplemented
