\* The four stores: a retried package, a sweeper that comes again, a reader; lost
\* requests and answers in the stores that are reached over a network.
SPECIFICATION FairSpec
CONSTANTS
    c1 = c1  c2 = c2  c3 = c3  p1 = p1  p2 = p2
    Ids = {p1}
    Calls = {c1, c2}
    Sweepers = {s1}
    PackageOf <- Retried
    Given <- SomeGiven
    Backends = {"memory", "redis", "postgres", "s3"}
    Lossy = TRUE
    TTL = 4
    TicksPerSecond = 2
    MaxTime = 5
    None = None
    Nobody = Nobody
INVARIANTS
    TypeOK
    OverstaysOnlyByDelay
    PendingIsKept
PROPERTIES
    ResumedAlive
    ImplementsLease
    ExpiredGoes
\* Time ends at MaxTime.
CHECK_DEADLOCK FALSE
