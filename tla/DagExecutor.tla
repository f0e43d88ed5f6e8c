---------------------------- MODULE DagExecutor ----------------------------
(***************************************************************************)
(* Phase 4 of a community run: DAGExecutor.execute_plan runs a plan wave   *)
(* by wave through ProcessPool.execute_task and BaseRunner.execute.        *)
(*                                                                         *)
(* One coroutine of the event loop owns the plan (pc); gather() creates    *)
(* one coroutine per ready task, which waits for a permit of the pool's    *)
(* semaphore, spawns the agent process and waits for it with a timeout.    *)
(* Order among the waiters of the semaphore is left open; prompts, output, *)
(* cost and duration are left out.                                         *)
(***************************************************************************)
EXTENDS Naturals, FiniteSets

CONSTANTS Tasks,          \* the sub-tasks of one plan
          Plans,          \* the dependency graphs the decomposer may produce
          MaxConcurrent   \* permits of the pool's semaphore

ASSUME DagAssumption == /\ IsFiniteSet(Tasks)
                        /\ Plans \subseteq [Tasks -> SUBSET Tasks]
                        /\ MaxConcurrent \in Nat \ {0}

VARIABLES deps,     \* deps[t]: SubTask.depends_on
          status,   \* status[t]: SubTask.status
          run,      \* run[t]: where the coroutine of t is, or how it ended
          permits,  \* free permits of ProcessPool._semaphore
          pc        \* execute_plan: at the loop head, in gather(), or returned

dagVars == <<deps, status, run, permits, pc>>

Statuses  == {"planned", "running", "completed", "failed"}
Live      == {"agent", "killing"}      \* the coroutine holds a permit
Outcomes  == {"ok", "error"}           \* ExecutionResult.success
RunStates == {"idle", "queued"} \cup Live \cup Outcomes

Holding == {t \in Tasks : run[t] \in Live}

-----------------------------------------------------------------------------
(* TaskPlan *)

\* Faulty variant: dependencies are ignored.
ReadyIgnoringDeps == {t \in Tasks : status[t] = "planned"}
ReadyTasks == {t \in Tasks : /\ status[t] = "planned"
                             /\ \A d \in deps[t] : status[d] = "completed"}

AllCompleted == \A t \in Tasks : status[t] = "completed"

HasFailures == \E t \in Tasks : status[t] = "failed"

-----------------------------------------------------------------------------
(* DAGExecutor.execute_plan *)

DagInit == /\ deps \in Plans
           /\ status = [t \in Tasks |-> "planned"]
           /\ run = [t \in Tasks |-> "idle"]
           /\ permits = MaxConcurrent
           /\ pc = "loop"

StartWave == /\ pc = "loop"
             /\ ~AllCompleted
             /\ ReadyTasks # {}
             /\ status' = [t \in Tasks |-> IF t \in ReadyTasks THEN "running"
                                                               ELSE status[t]]
             /\ run' = [t \in Tasks |-> IF t \in ReadyTasks THEN "queued" ELSE run[t]]
             /\ pc' = "gather"
             /\ UNCHANGED <<deps, permits>>

\* gather() has returned: the results of the wave are written to the plan.
EndWave == /\ pc = "gather"
           /\ \A t \in Tasks : status[t] = "running" => run[t] \in Outcomes
           /\ status' = [t \in Tasks |-> IF status[t] = "running"
                                         THEN IF run[t] = "ok" THEN "completed" ELSE "failed"
                                         ELSE status[t]]
           /\ pc' = "loop"
           /\ UNCHANGED <<deps, run, permits>>

Finish == /\ pc = "loop"
          /\ AllCompleted
          /\ pc' = "returned"
          /\ UNCHANGED <<deps, status, run, permits>>

\* Faulty variant: the loop breaks without marking the blocked tasks.
CancelNothing == /\ pc = "loop"
                 /\ ReadyTasks = {}
                 /\ HasFailures
                 /\ pc' = "returned"
                 /\ UNCHANGED <<deps, status, run, permits>>
CancelBlocked == /\ pc = "loop"
                 /\ ReadyTasks = {}
                 /\ HasFailures
                 /\ status' = [t \in Tasks |-> IF status[t] = "planned" THEN "failed"
                                                                        ELSE status[t]]
                 /\ pc' = "returned"
                 /\ UNCHANGED <<deps, run, permits>>

\* "DAG deadlock": no ready task, no failure, and yet tasks left.
GiveUp == /\ pc = "loop"
          /\ ~AllCompleted
          /\ ReadyTasks = {}
          /\ ~HasFailures
          /\ pc' = "returned"
          /\ UNCHANGED <<deps, status, run, permits>>

-----------------------------------------------------------------------------
(* DAGExecutor._run_task, ProcessPool.execute_task and BaseRunner.execute *)

\* execute_task raises before the semaphore (no agent, no worktree, no runner
\* for the agent type); _run_task turns the exception into a failed result.
\* Faulty variants: the exception leaves gather(), and execute_plan with it; a
\* permit is released that was never acquired.
RaiseUncaught(t) == /\ run[t] = "queued"
                    /\ run' = [run EXCEPT ![t] = "error"]
                    /\ pc' = "returned"
                    /\ UNCHANGED <<deps, status, permits>>
RaiseReleases(t) == /\ run[t] = "queued"
                    /\ run' = [run EXCEPT ![t] = "error"]
                    /\ permits' = permits + 1
                    /\ UNCHANGED <<deps, status, pc>>
Raise(t) == /\ run[t] = "queued"
            /\ run' = [run EXCEPT ![t] = "error"]
            /\ UNCHANGED <<deps, status, permits, pc>>

Acquire(t) == /\ run[t] = "queued"
              /\ permits > 0
              /\ permits' = permits - 1
              /\ run' = [run EXCEPT ![t] = "agent"]
              /\ UNCHANGED <<deps, status, pc>>

\* The process ended (success iff its exit code is 0), or could not be spawned.
AgentEnds(t, outcome) == /\ run[t] = "agent"
                         /\ run' = [run EXCEPT ![t] = outcome]
                         /\ permits' = permits + 1
                         /\ UNCHANGED <<deps, status, pc>>

\* wait_for gives up on communicate(); the process is killed ...
Timeout(t) == /\ run[t] = "agent"
              /\ run' = [run EXCEPT ![t] = "killing"]
              /\ UNCHANGED <<deps, status, permits, pc>>

\* ... and communicate() is awaited again, now without a timeout: it returns
\* when every process that inherited the pipes has closed them.
\* Faulty variant: the permit of a timed-out task is not given back.
ReapLeaks(t) == /\ run[t] = "killing"
                /\ run' = [run EXCEPT ![t] = "error"]
                /\ UNCHANGED <<deps, status, permits, pc>>
Reap(t) == /\ run[t] = "killing"
           /\ run' = [run EXCEPT ![t] = "error"]
           /\ permits' = permits + 1
           /\ UNCHANGED <<deps, status, pc>>

TaskStep(t) == \/ Raise(t)
               \/ Acquire(t)
               \/ \E outcome \in Outcomes : AgentEnds(t, outcome)
               \/ Timeout(t)
               \/ Reap(t)

LoopStep == StartWave \/ EndWave \/ Finish \/ CancelBlocked \/ GiveUp

DagNext == LoopStep \/ \E t \in Tasks : TaskStep(t)

DagSpec == DagInit /\ [][DagNext]_dagVars

(***************************************************************************)
(* The event loop runs every coroutine that can go on, and wait_for's      *)
(* timer fires.  Nothing in the code makes an agent end by itself, nor     *)
(* makes the pipes of a killed agent reach end of file: PipesClose is an   *)
(* assumption about the processes an agent leaves behind.                  *)
(***************************************************************************)
LoopFairness == /\ WF_dagVars(LoopStep)
                /\ \A t \in Tasks : WF_dagVars(Acquire(t)) /\ WF_dagVars(Timeout(t))
PipesClose == \A t \in Tasks : WF_dagVars(Reap(t))

FairDagSpec == DagSpec /\ LoopFairness
LiveDagSpec == FairDagSpec /\ PipesClose

-----------------------------------------------------------------------------
(* Properties *)

\* Every variable keeps its type.
DagTypeOK == /\ deps \in Plans
             /\ status \in [Tasks -> Statuses]
             /\ run \in [Tasks -> RunStates]
             /\ permits \in 0 .. MaxConcurrent
             /\ pc \in {"loop", "gather", "returned"}

\* The semaphore never loses or invents a permit, whichever way the tasks end
\* (exit, failed spawn, timeout and kill, exception before the semaphore): the
\* free permits and the agents alive always add up to max_concurrent.
PermitsConserved == permits + Cardinality(Holding) = MaxConcurrent

\* No agent is started on a task before all its dependencies are completed, and
\* they stay completed: the order that waves, gather() and the write-back of the
\* results are there to guarantee.
DependenciesFirst ==
    \A t \in Tasks : run[t] # "idle" => \A d \in deps[t] : status[d] = "completed"

\* When execute_plan has returned, no coroutine of it waits for a permit or has
\* an agent running: nothing goes on writing to a worktree that the caller is
\* about to merge and remove.
NoStrayAgents ==
    pc = "returned" => \A t \in Tasks : run[t] \notin Live \cup {"queued"}

\* When execute_plan has returned, a task is completed exactly if its agent
\* succeeded, and a task that failed is there for has_failures() to see.
OutcomesRecorded ==
    pc = "returned" => \A t \in Tasks : /\ run[t] = "ok" <=> status[t] = "completed"
                                        /\ run[t] = "error" => status[t] = "failed"

\* A failure stops nothing but the tasks that need the failed one: a task left
\* undone was tried and failed, or depends on a task left undone.
OnlyBlockedTasksAreSkipped ==
    pc = "returned" => \A t \in Tasks : \/ status[t] = "completed"
                                        \/ run[t] = "error"
                                        \/ \E d \in deps[t] : status[d] # "completed"

\* A dependency graph is acyclic iff every set of tasks has a member that
\* depends on none of them.
Acyclic == \A S \in SUBSET Tasks : S # {} => \E t \in S : deps[t] \cap S = {}

\* An acyclic plan is never left half done in silence: on return every task is
\* completed or failed, so "all completed" and has_failures() are the only cases.
AcyclicPlansAreDecided ==
    pc = "returned" /\ Acyclic => \A t \in Tasks : status[t] \in {"completed", "failed"}

\* The loop's own comment on the GiveUp branch, for every plan the decomposer
\* can produce: "No ready tasks and no failures -- shouldn't happen".
NeverStalls == pc = "returned" => AllCompleted \/ HasFailures

\* An agent is run at most once per task, and a settled task is never reopened.
SettledForGood ==
    [][\A t \in Tasks : /\ run[t] \in Outcomes => run'[t] = run[t]
                        /\ status[t] \in {"completed", "failed"} => status'[t] = status[t]]_dagVars

\* execute_plan returns, whatever the agents do.
PlanReturns == <>(pc = "returned")

-----------------------------------------------------------------------------
(* Refinement: waves, permits and processes implement TaskGraph.           *)

GraphState == [t \in Tasks |->
    CASE status[t] = "planned"   -> "waiting"
      [] status[t] = "completed" -> "done"
      [] status[t] = "failed"    -> "failed"
      [] OTHER -> CASE run[t] = "ok"    -> "done"
                    [] run[t] = "error" -> "failed"
                    [] OTHER            -> "running"]

Graph == INSTANCE TaskGraph WITH state <- GraphState

\* Seen task by task, execute_plan is the executor its docstring describes.
ImplementsTaskGraph == Graph!Spec
=============================================================================
