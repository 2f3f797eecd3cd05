\* Two requests, one reply too many; any server.
CONSTANTS
    MaxRequests = 2
    MaxStray = 1
SPECIFICATION FairSpec
CHECK_DEADLOCK FALSE
INVARIANTS
    RepliesMatched
    OverdueIsTimeout
    IdleNeverExpires
PROPERTIES
    SessionEnds
