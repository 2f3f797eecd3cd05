SPECIFICATION FairSpec
CONSTANTS
    Window = 2
    RequestSize = 2
    MaxSize = 5
    MaxRead = 3
INVARIANTS
    InOrder
    EndsWhole
PROPERTY
    ReadReturns
