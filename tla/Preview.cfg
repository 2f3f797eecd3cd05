\* A budget of five tokens, files of up to seven, one or two rows, nesting of two.
CONSTANTS
    Budget = 5
    ChunkSize = 2
    MaxSize = 7
    MaxRows = 2
    MaxDepth = 2
    MaxValues = 3
SPECIFICATION PreviewSpec
CHECK_DEADLOCK FALSE
INVARIANTS
    SourceContract
    PreviewFaithful
    LimitIsReal
    SchemaIsJoin
