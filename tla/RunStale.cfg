\* The documented fresh branch, against what a failed run leaves behind.
SPECIFICATION Spec
CONSTANTS
    Tasks = {1, 2}
    Plans <- AcyclicPlans
    MaxConcurrent = 2
    Titles = {"x"}
    Files = {1, 2}
    ClaimChoices <- DisjointClaims
    AgentsObey = TRUE
    MaxRuns = 2
    MaxCrashes = 0
    MaxSweeps = 0
    MaxUserCommits = 0
PROPERTY BranchesAreFresh
CHECK_DEADLOCK FALSE
