\* The comment on the loop's last branch, against the plans that can arrive.
SPECIFICATION DagSpec
CONSTANTS
    Tasks = {t1, t2, t3}
    Plans <- AllPlans
    MaxConcurrent = 2
INVARIANT NeverStalls
CHECK_DEADLOCK FALSE
