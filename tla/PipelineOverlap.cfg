\* A scheduled and a triggered cycle at one time, and the sync; nothing fails.
SPECIFICATION FairSpec
CONSTANTS
    Groups = {g1}
    Cycles = {scheduled, triggered}
    None = None
    MaxChanges = 1
    MaxCycles = 3
    MaxFaults = 0
PROPERTIES
    IndexSettles
CHECK_DEADLOCK FALSE
