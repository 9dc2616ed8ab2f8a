\* Two processes of one channel, batches cut by the limit, failing upserts.
SPECIFICATION FairSpec
CONSTANTS
    Channels = {c1}
    Workers = {w1, w2}
    PostIds = {p1}
    None = None
    BatchSize = 2
    FetchLimit = 3
    MaxLog = 4
    MaxFaults = 2
    UpsertMayFail = TRUE
INVARIANTS
    LossAccounted
    IInv
PROPERTIES
    CommittedNeverMovesBack
    EveryPostHandled
CHECK_DEADLOCK FALSE
