\* Caps of five and three, batches of two, pages of up to four entries.
CONSTANTS
    MaxScan = 5
    MaxResults = 3
    Window = 2
    MaxPage = 4
SPECIFICATION FairSpec
CHECK_DEADLOCK FALSE
INVARIANTS
    ListingExact
    CheckLeavesNothing
PROPERTIES
    RequestReturns
