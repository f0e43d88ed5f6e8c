\* Two runs, the first of which may crash; a commit of the user; one sweep.
SPECIFICATION FairSpec
CONSTANTS
    Tasks = {1, 2}
    Plans <- SomePlans
    MaxConcurrent = 1
    Titles = {"x"}
    Files = {1, 2}
    ClaimChoices <- SomeClaims
    AgentsObey = TRUE
    MaxRuns = 2
    MaxCrashes = 1
    MaxSweeps = 1
    MaxUserCommits = 1
INVARIANTS
    TypeOK
    CommittedWorkIsDelivered
    OwnershipPreventsConflicts
PROPERTIES
    MergedWorkIsAccountedFor
    CommittedWorkSurvives
    RunsEnd
\* The project rests after MaxRuns runs.
CHECK_DEADLOCK FALSE
