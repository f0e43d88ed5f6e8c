--------------------------- MODULE MCDagExecutor ---------------------------
(* Instances of DagExecutor for TLC. *)
EXTENDS DagExecutor

\* Every graph over the tasks, cycles and self-dependencies included: the
\* decomposer keeps whatever indices the planner's answer contains.
AllPlans == [Tasks -> SUBSET Tasks]
=============================================================================
