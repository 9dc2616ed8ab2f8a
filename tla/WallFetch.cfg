SPECIFICATION FairSpec
CONSTANTS
    Horizon = 4
    MaxPosts = 4
    MaxPinned = 3
    PageSize = 2
    CallsPerExecute = 2
    MaxChanges = 1
    MaxFaults = 1
INVARIANTS
    IInv
    RangeAnswered
    OneNewPostAbsorbed
PROPERTIES
    FetchEnds
CHECK_DEADLOCK FALSE
