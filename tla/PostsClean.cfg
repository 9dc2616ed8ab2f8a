\* One process; no batch fails and getmany never returns more than a batch.
SPECIFICATION FairSpec
CONSTANTS
    Channels = {c1}
    Workers = {w1}
    PostIds = {p1, p2}
    None = None
    BatchSize = 2
    FetchLimit = 2
    MaxLog = 4
    MaxFaults = 2
    UpsertMayFail = FALSE
INVARIANTS
    CommittedRowsNotStale
    FreshInv
PROPERTIES
    DeliversAtLeastOnce
    EveryPostWritten
CHECK_DEADLOCK FALSE
