\* A load that meets the cleanup of the package it has just found.
SPECIFICATION Spec
CONSTANTS
    Ids = {p1}
    Procs = {x, y}
    Ops = {"save", "load", "cleanup"}
    TTL = 1
    MaxTime = 3
    MaxCrashes = 0
    None = None
    Nobody = Nobody
INVARIANTS
    LoadFindsItsFile
\* Every package is saved once, and time ends.
CHECK_DEADLOCK FALSE
