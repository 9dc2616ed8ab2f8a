\* The scheduled cycle alone, with failures at any query.
SPECIFICATION FairSpec
CONSTANTS
    Groups = {g1}
    Cycles = {scheduled}
    None = None
    MaxChanges = 1
    MaxCycles = 3
    MaxFaults = 2
INVARIANTS
    IInv
    VersionCountsWrites
    MarkedMeansIndexed
PROPERTIES
    IndexSettles
CHECK_DEADLOCK FALSE
