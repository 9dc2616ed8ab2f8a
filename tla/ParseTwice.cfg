\* One group, one request at a time, nothing fails; the counters of a post change.
SPECIFICATION Spec
CONSTANTS
    Groups = {g1}
    Requests = {r1}
    None = None
    Horizon = 2
    MaxRequests = 2
    MaxEdits = 1
    MaxFaults = 0
SYMMETRY Alike
INVARIANTS
    NoPostTwice
CHECK_DEADLOCK FALSE
