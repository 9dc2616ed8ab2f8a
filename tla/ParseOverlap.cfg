\* Two requests of one group side by side, with ranges of several gaps; the counters of a post change.
SPECIFICATION Spec
CONSTANTS
    Groups = {g1}
    Requests = {r1, r2}
    None = None
    Horizon = 3
    MaxRequests = 2
    MaxEdits = 1
    MaxFaults = 1
SYMMETRY Alike
INVARIANTS
    IInv
    PeriodsAccounted
    AnswersComplete
    SavedArePublished
    GapsAreTheRest
PROPERTIES
    OnlyGapsFetched
CHECK_DEADLOCK FALSE
