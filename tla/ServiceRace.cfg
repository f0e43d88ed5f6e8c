\* A retry that saves between the listing and the deletion of a cleanup.
SPECIFICATION Spec
CONSTANTS
    c1 = c1  c2 = c2  c3 = c3  p1 = p1  p2 = p2
    Ids = {p1, p2}
    Calls = {c1, c2}
    Sweepers = {s1}
    PackageOf <- Retried
    Given <- SomeGiven
    Backends = {"postgres"}
    Lossy = FALSE
    TTL = 2
    TicksPerSecond = 2
    MaxTime = 4
    None = None
    Nobody = Nobody
INVARIANT PendingIsServed
\* Time ends at MaxTime.
CHECK_DEADLOCK FALSE
