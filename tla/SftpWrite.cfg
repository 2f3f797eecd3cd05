\* Three chunks through a window of two, every kind of server.
CONSTANTS
    Window = 2
    MaxChunks = 3
SPECIFICATION FairSpec
CHECK_DEADLOCK FALSE
INVARIANTS
    PublishedIsWhole
    NoStageLeft
PROPERTIES
    NoClobber
    WriteReturns
    SinkImplemented
