\* Two connections that share the cache; two spellings of one query and another query.
SPECIFICATION FairSpec
CONSTANTS
    Connections = {c1, c2}
    Forms = {f1, f2}
    Spellings = {s1, s2}
    None = None
    MaxQueries = 2
    MaxFaults = 1
INVARIANTS
    IInv
    NoOrphanTask
    AnswersFit
    NoBorrowedToken
PROPERTIES
    NewestAnswered
    LastQueryAnswered
CHECK_DEADLOCK FALSE
