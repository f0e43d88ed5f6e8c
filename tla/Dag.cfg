\* All graphs over four tasks, with and without cycles; two permits.
SPECIFICATION LiveDagSpec
CONSTANTS
    Tasks = {t1, t2, t3, t4}
    Plans <- AllPlans
    MaxConcurrent = 2
INVARIANTS
    DagTypeOK
    PermitsConserved
    NoStrayAgents
    AcyclicPlansAreDecided
PROPERTIES
    ImplementsTaskGraph
    PlanReturns
\* A plan that has returned has nothing left to do.
CHECK_DEADLOCK FALSE
