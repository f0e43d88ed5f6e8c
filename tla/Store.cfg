\* Every operation, two packages, a crash, lock timeouts; cleanups run again.
SPECIFICATION FairSpec
CONSTANTS
    Ids = {p1, p2}
    Procs = {x, y}
    Ops = {"save", "load", "delete", "cleanup"}
    TTL = 1
    MaxTime = 3
    MaxCrashes = 1
    None = None
    Nobody = Nobody
INVARIANTS
    TypeOK
    ListedIsLoadable
    OrphansAreAbandonedSaves
PROPERTIES
    RemovalsAreAudited
    ExpiredIsRemoved
\* Every package is saved once, and time ends.
CHECK_DEADLOCK FALSE
