\* One partition; nothing fails and nothing stops.
SPECIFICATION FairSpec
CONSTANTS
    Partitions = {q1}
    Groups = {g1}
    None = None
    BatchSize = 2
    MaxLog = 2
    MaxStops = 0
    MaxFaults = 0
PROPERTIES
    BatchTimeoutHonoured
CHECK_DEADLOCK FALSE
