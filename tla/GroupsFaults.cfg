\* Two partitions, a shutdown and a failure anywhere.
SPECIFICATION FairSpec
CONSTANTS
    Partitions = {q1, q2}
    Groups = {g1}
    None = None
    BatchSize = 2
    MaxLog = 3
    MaxStops = 1
    MaxFaults = 1
INVARIANTS
    IInv
    AnnouncedAreStored
    ShutdownLosesNothing
    TableMatchesDiff
PROPERTIES
    FullBatchesFlushed
CHECK_DEADLOCK FALSE
