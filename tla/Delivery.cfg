\* One task of an agent whose tokens run out, and another agent that takes it over and
\* whose own run out; two handoffs at a time, one failed save.
SPECIFICATION FairSpec
CONSTANTS
    a = a  b = b  plain = plain  dict = dict  c1 = c1  c2 = c2
    Calls = {c1, c2}
    Pool <- Line
    Able = {b}
    MaxConcurrency <- OneEach
    Window <- Windows
    Weight = 1
    Keys = {plain, dict}
    Nested = {dict}
    FirstRuns <- Firsts
    MaxRuns = 4
    MaxWrites = 1
    MaxFailures = 1
INVARIANTS
    OverloadIsBounded
    DropsAreRecorded
    InjectedIsStored
PROPERTIES
    BreachIsStored
\* Agents stop.
CHECK_DEADLOCK FALSE
