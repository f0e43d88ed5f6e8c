----------------------------- MODULE TaskGraph -----------------------------
(***************************************************************************)
(* What DAGExecutor promises of a plan (docstring of planner/dag.py):      *)
(* tasks without dependencies run in parallel, a task with dependencies    *)
(* waits until all of them are completed, and the work that a failure      *)
(* blocks is given up only when nothing else can run.                      *)
(* Waves, semaphore permits, processes and timeouts are not visible here.  *)
(***************************************************************************)
CONSTANTS Tasks,    \* the sub-tasks of one plan
          Plans     \* the dependency graphs a plan may have

VARIABLES deps,     \* deps[t]: the tasks that t depends on
          state     \* state[t]: what has become of t

vars == <<deps, state>>

TaskStates == {"waiting", "running", "done", "failed"}

TypeOK == /\ deps \in Plans
          /\ state \in [Tasks -> TaskStates]

Startable == {t \in Tasks : /\ state[t] = "waiting"
                            /\ \A d \in deps[t] : state[d] = "done"}

Init == /\ deps \in Plans
        /\ state = [t \in Tasks |-> "waiting"]

Start(S) == /\ S # {}
            /\ S \subseteq Startable
            /\ state' = [t \in Tasks |-> IF t \in S THEN "running" ELSE state[t]]
            /\ UNCHANGED deps

Finish(t, outcome) == /\ state[t] = "running"
                      /\ state' = [state EXCEPT ![t] = outcome]
                      /\ UNCHANGED deps

Abandon == /\ Startable = {}
           /\ \A t \in Tasks : state[t] # "running"
           /\ \E t \in Tasks : state[t] = "failed"
           /\ state' = [t \in Tasks |-> IF state[t] = "waiting" THEN "failed"
                                                                ELSE state[t]]
           /\ UNCHANGED deps

Next == \/ \E S \in SUBSET Tasks : Start(S)
        \/ \E t \in Tasks, outcome \in {"done", "failed"} : Finish(t, outcome)
        \/ Abandon

Spec == Init /\ [][Next]_vars
=============================================================================
