\* No failure at all, but getmany may return more records than a batch takes.
SPECIFICATION Spec
CONSTANTS
    Channels = {c1}
    Workers = {w1}
    PostIds = {p1}
    None = None
    BatchSize = 1
    FetchLimit = 2
    MaxLog = 3
    MaxFaults = 0
    UpsertMayFail = FALSE
INVARIANTS
    AtLeastOnce
CHECK_DEADLOCK FALSE
