------------------------- MODULE DagExecutorProofs -------------------------
(***************************************************************************)
(* Proofs about DagExecutor, for every set of tasks, every set of          *)
(* dependency graphs and every number of permits.                          *)
(*                                                                         *)
(* IInv is the inductive invariant.  Its heart is Agreement: the plan      *)
(* (status), written by execute_plan, and the coroutines (run), written by *)
(* the tasks, tell the same story except between the end of a task and the *)
(* end of its wave.  No other property holds by itself across a step.      *)
(***************************************************************************)
EXTENDS DagExecutor, FiniteSetTheorems, TLAPS

-----------------------------------------------------------------------------
(* The inductive invariant *)

\* What the status of a task in the plan says of its coroutine.
Agreement == \A t \in Tasks : /\ status[t] = "planned"   => run[t] = "idle"
                              /\ status[t] = "running"   => run[t] # "idle"
                              /\ status[t] = "completed" => run[t] = "ok"
                              /\ status[t] = "failed"    => run[t] \in {"error", "idle"}

\* Tasks are running only while execute_plan waits in gather(), and a task that
\* was given up without being tried has been given up at the very end.
WavesInGather == \A t \in Tasks : /\ status[t] = "running" => pc = "gather"
                                  /\ status[t] = "failed" /\ run[t] = "idle" => pc = "returned"

Types == /\ deps \in Plans
         /\ status \in [Tasks -> Statuses]
         /\ run \in [Tasks -> RunStates]
         /\ permits \in Nat
         /\ pc \in {"loop", "gather", "returned"}

IInv == /\ Types
        /\ PermitsConserved
        /\ Agreement
        /\ WavesInGather
        /\ DependenciesFirst
        /\ OnlyBlockedTasksAreSkipped
        /\ AcyclicPlansAreDecided

-----------------------------------------------------------------------------
(* Lemmas *)

\* The agents alive are finitely many, so that they can be counted.
LEMMA HoldingFinite == IsFiniteSet(Holding) /\ Cardinality(Holding) \in Nat
  BY DagAssumption, FS_Subset, FS_CardinalityType DEF Holding

\* The permits in use stay the permits in use when no task gets or loses one.
LEMMA HoldingSame ==
    ASSUME Types, PermitsConserved, UNCHANGED permits,
           \A t \in Tasks : run'[t] \in Live <=> run[t] \in Live
    PROVE  PermitsConserved'
  <1>1. Holding' = Holding  BY DEF Holding
  <1>2. QED  BY <1>1 DEF PermitsConserved

\* A dependency of a task is a task of the plan.
LEMMA DepsAreTasks == ASSUME Types PROVE \A t \in Tasks : deps[t] \subseteq Tasks
  BY DagAssumption DEF Types

\* A task whose coroutine is under way belongs to the wave that is running.
LEMMA UnderWay ==
    ASSUME Types, Agreement, WavesInGather, NEW t \in Tasks,
           run[t] \in {"queued"} \cup Live
    PROVE  status[t] = "running" /\ pc = "gather"
  BY DEF Types, Agreement, WavesInGather, Live, Statuses

\* An acyclic plan without a failure always has a task that is ready.
LEMMA AcyclicPlansProgress ==
    ASSUME Types, Acyclic, ~AllCompleted,
           \A t \in Tasks : status[t] \in {"planned", "completed"}
    PROVE  ReadyTasks # {}
  <1> DEFINE S == {t \in Tasks : status[t] = "planned"}
  <1>1. S # {} /\ S \in SUBSET Tasks  BY DEF AllCompleted
  <1>2. PICK t \in S : deps[t] \cap S = {}  BY <1>1 DEF Acyclic
  <1>3. \A d \in deps[t] : status[d] = "completed"  BY <1>2, DepsAreTasks
  <1>4. t \in ReadyTasks  BY <1>2, <1>3 DEF ReadyTasks
  <1> QED  BY <1>4

-----------------------------------------------------------------------------
(* Steps of a task *)

\* What the steps of a task have in common: the task belongs to the wave that is
\* running, only its own coroutine moves, and the plan is left alone.
TaskMoves(t, where) == /\ status[t] = "running" /\ pc = "gather"
                       /\ where \in RunStates \ {"idle"}
                       /\ run' = [run EXCEPT ![t] = where]
                       /\ UNCHANGED <<deps, status, pc>>

\* A step of a coroutine (_run_task down to BaseRunner.execute) moves one task of
\* the wave and leaves the loop and the plan alone.
LEMMA TaskStepMoves ==
    ASSUME Types, Agreement, WavesInGather, NEW t \in Tasks, TaskStep(t)
    PROVE  \E where \in RunStates : TaskMoves(t, where)
  <1> USE DEF TaskMoves, RunStates, Live, Outcomes
  <1>1. status[t] = "running" /\ pc = "gather"
    BY UnderWay DEF TaskStep, Raise, Acquire, AgentEnds, Timeout, Reap
  <1>2. CASE Raise(t)  BY <1>1, <1>2 DEF Raise
  <1>3. CASE Acquire(t)  BY <1>1, <1>3 DEF Acquire
  <1>4. CASE \E outcome \in Outcomes : AgentEnds(t, outcome)  BY <1>1, <1>4 DEF AgentEnds
  <1>5. CASE Timeout(t)  BY <1>1, <1>5 DEF Timeout
  <1>6. CASE Reap(t)  BY <1>1, <1>6 DEF Reap
  <1> QED  BY <1>2, <1>3, <1>4, <1>5, <1>6 DEF TaskStep

\* Whichever way a task moves, permits are taken and given back one at a time,
\* together with the agent that holds them.
LEMMA TaskStepKeepsPermits ==
    ASSUME Types, PermitsConserved, NEW t \in Tasks, TaskStep(t)
    PROVE  permits' \in Nat /\ PermitsConserved'
  <1> USE DEF Types, Live
  <1>1. CASE Raise(t) \/ Timeout(t)
    <2>1. \A u \in Tasks : run'[u] \in Live <=> run[u] \in Live
      BY <1>1 DEF Raise, Timeout
    <2> QED  BY <1>1, <2>1, HoldingSame DEF Raise, Timeout
  <1>2. CASE Acquire(t)
    <2>1. Holding' = Holding \cup {t} /\ t \notin Holding
      BY <1>2 DEF Acquire, Holding
    <2>2. Cardinality(Holding') = Cardinality(Holding) + 1
      BY <2>1, HoldingFinite, FS_AddElement
    <2>3. permits' = permits - 1 /\ permits > 0  BY <1>2 DEF Acquire
    <2> QED  BY <2>2, <2>3, HoldingFinite, DagAssumption DEF PermitsConserved
  <1>3. CASE Reap(t) \/ \E outcome \in Outcomes : AgentEnds(t, outcome)
    <2>1. Holding' = Holding \ {t} /\ t \in Holding
      BY <1>3 DEF Reap, AgentEnds, Outcomes, Holding
    <2>2. Cardinality(Holding') = Cardinality(Holding) - 1
      BY <2>1, HoldingFinite, FS_RemoveElement
    <2>3. permits' = permits + 1  BY <1>3 DEF Reap, AgentEnds
    <2> QED  BY <2>2, <2>3, HoldingFinite, DagAssumption DEF PermitsConserved
  <1> QED  BY <1>1, <1>2, <1>3 DEF TaskStep

\* Every step of a coroutine preserves the inductive invariant.
LEMMA TaskStepKeepsIInv == ASSUME IInv, NEW t \in Tasks, TaskStep(t) PROVE IInv'
  <1> USE DEF IInv
  <1>1. PICK where \in RunStates : TaskMoves(t, where)  BY TaskStepMoves
  <1> USE DEF TaskMoves
  <1>2. Types'  BY <1>1, TaskStepKeepsPermits DEF Types
  <1>3. PermitsConserved'  BY TaskStepKeepsPermits
  <1>4. Agreement'  BY <1>1 DEF Agreement, Types, Statuses
  <1>5. WavesInGather'  BY <1>1 DEF WavesInGather, Types
  <1>6. run[t] # "idle"  BY <1>1 DEF Agreement
  <1>7. DependenciesFirst'  BY <1>1, <1>6 DEF DependenciesFirst, Types
  <1>8. pc' = "gather"  BY <1>1
  <1>9. OnlyBlockedTasksAreSkipped' /\ AcyclicPlansAreDecided'
    BY <1>8 DEF OnlyBlockedTasksAreSkipped, AcyclicPlansAreDecided
  <1> QED  BY <1>2, <1>3, <1>4, <1>5, <1>7, <1>9

-----------------------------------------------------------------------------
(* Steps of execute_plan *)

\* Starting a wave preserves it: only tasks with completed dependencies move.
LEMMA StartWaveKeepsIInv == ASSUME IInv, StartWave PROVE IInv'
  <1> USE DEF IInv, StartWave
  <1>1. Types'  BY DEF Types, Statuses, RunStates
  <1>2. \A t \in ReadyTasks : status[t] = "planned" /\ run[t] = "idle"
    BY DEF ReadyTasks, Agreement
  <1>3. PermitsConserved'
    <2>1. \A t \in Tasks : run'[t] \in Live <=> run[t] \in Live  BY <1>2 DEF Live
    <2> QED  BY <2>1, HoldingSame
  <1>4. Agreement'  BY <1>2 DEF Agreement, Types
  <1>5. WavesInGather'  BY DEF WavesInGather
  <1>6. DependenciesFirst'
    <2> SUFFICES ASSUME NEW t \in Tasks, run'[t] # "idle", NEW d \in deps[t]
                 PROVE  status'[d] = "completed"
      BY DEF DependenciesFirst
    <2>1. d \in Tasks  BY DepsAreTasks
    <2>2. status[d] = "completed"
      BY <2>1 DEF DependenciesFirst, ReadyTasks
    <2> QED  BY <2>1, <2>2, <1>2
  <1>7. OnlyBlockedTasksAreSkipped' /\ AcyclicPlansAreDecided'
    BY DEF OnlyBlockedTasksAreSkipped, AcyclicPlansAreDecided
  <1> QED  BY <1>1, <1>3, <1>4, <1>5, <1>6, <1>7

\* Writing back the results of a wave preserves it.
LEMMA EndWaveKeepsIInv == ASSUME IInv, EndWave PROVE IInv'
  <1> USE DEF IInv, EndWave
  <1>1. Types'  BY DEF Types, Statuses
  <1>2. PermitsConserved'  BY HoldingSame
  <1>3. Agreement'  BY DEF Agreement, Outcomes, Types, Statuses
  <1>4. WavesInGather'  BY DEF WavesInGather, Agreement, Types, Statuses
  <1>5. DependenciesFirst'
    BY DepsAreTasks DEF DependenciesFirst
  <1>6. OnlyBlockedTasksAreSkipped' /\ AcyclicPlansAreDecided'
    BY DEF OnlyBlockedTasksAreSkipped, AcyclicPlansAreDecided
  <1> QED  BY <1>1, <1>2, <1>3, <1>4, <1>5, <1>6

\* Returning from execute_plan with every task completed preserves it.
LEMMA FinishKeepsIInv == ASSUME IInv, Finish PROVE IInv'
  <1> USE DEF IInv, Finish
  <1>1. Types' /\ PermitsConserved' /\ Agreement' /\ WavesInGather' /\ DependenciesFirst'
    BY HoldingSame DEF Types, Agreement, WavesInGather, DependenciesFirst
  <1>2. OnlyBlockedTasksAreSkipped' /\ AcyclicPlansAreDecided'
    BY DEF OnlyBlockedTasksAreSkipped, AcyclicPlansAreDecided, AllCompleted
  <1> QED  BY <1>1, <1>2

\* Failing the blocked tasks preserves it: each has a dependency left undone.
LEMMA CancelBlockedKeepsIInv == ASSUME IInv, CancelBlocked PROVE IInv'
  <1> USE DEF IInv, CancelBlocked
  <1>1. Types'  BY DEF Types, Statuses
  <1>2. PermitsConserved'  BY HoldingSame
  <1>3. Agreement'  BY DEF Agreement, Types
  <1>4. \A t \in Tasks : status[t] \in {"planned", "completed", "failed"}
    BY DEF WavesInGather, Types, Statuses
  <1>5. WavesInGather'  BY <1>4 DEF WavesInGather, Types
  <1>6. DependenciesFirst'  BY DepsAreTasks DEF DependenciesFirst
  <1>7. OnlyBlockedTasksAreSkipped'
    <2> SUFFICES ASSUME NEW t \in Tasks, status'[t] # "completed", run'[t] # "error"
                 PROVE  \E d \in deps'[t] : status'[d] # "completed"
      BY DEF OnlyBlockedTasksAreSkipped
    <2>1. status[t] = "planned"  BY <1>4 DEF Agreement, WavesInGather, Types
    <2>2. PICK d \in deps[t] : status[d] # "completed"  BY <2>1 DEF ReadyTasks
    <2>3. status'[d] # "completed"  BY <2>2, DepsAreTasks
    <2> QED  BY <2>2, <2>3
  <1>8. AcyclicPlansAreDecided'  BY <1>4 DEF AcyclicPlansAreDecided
  <1> QED  BY <1>1, <1>2, <1>3, <1>5, <1>6, <1>7, <1>8

\* The deadlock branch preserves it: it is out of reach for an acyclic plan.
LEMMA GiveUpKeepsIInv == ASSUME IInv, GiveUp PROVE IInv'
  <1> USE DEF IInv, GiveUp
  <1>1. Types' /\ PermitsConserved' /\ Agreement' /\ DependenciesFirst'
    BY HoldingSame DEF Types, Agreement, DependenciesFirst
  <1>2. \A t \in Tasks : status[t] \in {"planned", "completed"}
    BY DEF WavesInGather, Types, Statuses, HasFailures
  <1>3. WavesInGather'  BY <1>2 DEF WavesInGather
  <1>4. OnlyBlockedTasksAreSkipped'
    BY <1>2 DEF OnlyBlockedTasksAreSkipped, ReadyTasks
  <1>5. AcyclicPlansAreDecided'
    <2>1. ~Acyclic  BY <1>2, AcyclicPlansProgress
    <2> QED  BY <2>1 DEF AcyclicPlansAreDecided, Acyclic
  <1> QED  BY <1>1, <1>3, <1>4, <1>5

-----------------------------------------------------------------------------
(* Theorems *)

\* A plan that has not started satisfies the inductive invariant.
LEMMA InitIInv == DagInit => IInv
  <1> SUFFICES ASSUME DagInit PROVE IInv  OBVIOUS
  <1> USE DEF DagInit
  <1>1. Types  BY DagAssumption DEF Types, Statuses, RunStates
  <1>2. PermitsConserved
    <2>1. Holding = {}  BY DEF Holding, Live
    <2> QED  BY <2>1, FS_EmptySet, DagAssumption DEF PermitsConserved
  <1>3. Agreement /\ WavesInGather  BY DEF Agreement, WavesInGather
  <1>4. DependenciesFirst  BY DEF DependenciesFirst
  <1>5. OnlyBlockedTasksAreSkipped /\ AcyclicPlansAreDecided
    BY DEF OnlyBlockedTasksAreSkipped, AcyclicPlansAreDecided
  <1> QED  BY <1>1, <1>2, <1>3, <1>4, <1>5 DEF IInv

\* A step that changes nothing of the executor preserves it.
LEMMA StutterKeepsIInv == ASSUME IInv, UNCHANGED dagVars PROVE IInv'
  <1> USE DEF IInv, dagVars
  <1>1. Types' /\ Agreement' /\ WavesInGather' /\ DependenciesFirst'
    BY DEF Types, Agreement, WavesInGather, DependenciesFirst
  <1>2. PermitsConserved'  BY HoldingSame
  <1>3. OnlyBlockedTasksAreSkipped' /\ AcyclicPlansAreDecided'
    BY DEF OnlyBlockedTasksAreSkipped, AcyclicPlansAreDecided, Acyclic
  <1> QED  BY <1>1, <1>2, <1>3

\* Every step of execute_plan and its coroutines preserves the invariant.
LEMMA NextIInv == IInv /\ [DagNext]_dagVars => IInv'
  BY TaskStepKeepsIInv, StartWaveKeepsIInv, EndWaveKeepsIInv, FinishKeepsIInv,
     CancelBlockedKeepsIInv, GiveUpKeepsIInv, StutterKeepsIInv
  DEF DagNext, LoopStep

\* The inductive invariant holds in every state of every run of execute_plan.
THEOREM Invariance == DagSpec => []IInv
  BY InitIInv, NextIInv, PTL DEF DagSpec

\* Every variable keeps its type, the semaphore's counter included: it stays
\* between 0 and max_concurrent because of the agents that hold its permits.
THEOREM TypeCorrect == DagSpec => []DagTypeOK
  <1>1. IInv => DagTypeOK
    <2> SUFFICES ASSUME IInv PROVE DagTypeOK  OBVIOUS
    <2>1. permits + Cardinality(Holding) = MaxConcurrent /\ permits \in Nat
      BY DEF IInv, Types, PermitsConserved
    <2>2. permits \in 0 .. MaxConcurrent  BY <2>1, HoldingFinite, DagAssumption
    <2> QED  BY <2>2 DEF IInv, Types, DagTypeOK
  <1> QED  BY <1>1, Invariance, PTL

\* The semaphore of ProcessPool never loses or invents a permit.
THEOREM PermitsAreConserved == DagSpec => []PermitsConserved
  BY Invariance, PTL DEF IInv

\* No agent is started before the dependencies of its task are completed.
THEOREM DependenciesComeFirst == DagSpec => []DependenciesFirst
  BY Invariance, PTL DEF IInv

\* execute_plan leaves no agent and no waiting coroutine behind.
THEOREM NothingIsLeftRunning == DagSpec => []NoStrayAgents
  <1>1. IInv => NoStrayAgents
    <2> SUFFICES ASSUME IInv, pc = "returned", NEW t \in Tasks
                 PROVE  run[t] \notin Live \cup {"queued"}
      BY DEF NoStrayAgents
    <2> QED  BY UnderWay DEF IInv
  <1> QED  BY <1>1, Invariance, PTL

\* On return, the plan says of every task what its agent did.
THEOREM OutcomesAreRecorded == DagSpec => []OutcomesRecorded
  <1>1. IInv => OutcomesRecorded
    BY DEF IInv, OutcomesRecorded, Agreement, WavesInGather, Types, Statuses
  <1> QED  BY <1>1, Invariance, PTL

\* A failure stops nothing but the tasks that need the failed one.
THEOREM FailuresAreIsolated == DagSpec => []OnlyBlockedTasksAreSkipped
  BY Invariance, PTL DEF IInv

\* On return every task of an acyclic plan is completed or failed.
THEOREM AcyclicPlansDecided == DagSpec => []AcyclicPlansAreDecided
  BY Invariance, PTL DEF IInv

\* No step reopens a task that is settled or runs an agent again.
THEOREM TasksSettleForGood == DagSpec => SettledForGood
  <1> DEFINE Settled == \A t \in Tasks :
                /\ run[t] \in Outcomes => run'[t] = run[t]
                /\ status[t] \in {"completed", "failed"} => status'[t] = status[t]
  <1>1. ASSUME IInv, [DagNext]_dagVars PROVE [Settled]_dagVars
    <2> USE <1>1 DEF IInv
    <2>1. ASSUME NEW t \in Tasks, TaskStep(t) PROVE Settled
      <3>1. PICK where \in RunStates : TaskMoves(t, where)  BY <2>1, TaskStepMoves
      <3>2. run[t] \notin Outcomes
        BY <2>1 DEF TaskStep, Raise, Acquire, AgentEnds, Timeout, Reap, Outcomes
      <3> QED  BY <3>1, <3>2 DEF TaskMoves, Types
    <2>2. CASE StartWave  BY <2>2 DEF StartWave, ReadyTasks, Agreement, Types, Outcomes
    <2>3. CASE EndWave  BY <2>3 DEF EndWave, Types
    <2>4. CASE Finish \/ CancelBlocked \/ GiveUp
      BY <2>4 DEF Finish, CancelBlocked, GiveUp, Types
    <2>5. CASE UNCHANGED dagVars  BY <2>5 DEF dagVars
    <2> QED  BY <2>1, <2>2, <2>3, <2>4, <2>5 DEF DagNext, LoopStep
  <1> QED  BY <1>1, Invariance, PTL DEF DagSpec, SettledForGood

-----------------------------------------------------------------------------
(* Refinement: execute_plan implements TaskGraph *)

\* Where a task is on the abstract level.
LEMMA GraphStateIs ==
    ASSUME Types, NEW t \in Tasks
    PROVE  /\ status[t] = "planned"   => GraphState[t] = "waiting"
           /\ status[t] = "completed" => GraphState[t] = "done"
           /\ status[t] = "failed"    => GraphState[t] = "failed"
           /\ status[t] = "running"   =>
                /\ run[t] = "ok"    => GraphState[t] = "done"
                /\ run[t] = "error" => GraphState[t] = "failed"
                /\ run[t] \notin Outcomes => GraphState[t] = "running"
  BY DEF GraphState, Types, Statuses, Outcomes

\* The same after a step.
LEMMA GraphStateIsNext ==
    ASSUME Types', NEW t \in Tasks
    PROVE  /\ status'[t] = "planned"   => GraphState'[t] = "waiting"
           /\ status'[t] = "completed" => GraphState'[t] = "done"
           /\ status'[t] = "failed"    => GraphState'[t] = "failed"
           /\ status'[t] = "running"   =>
                /\ run'[t] = "ok"    => GraphState'[t] = "done"
                /\ run'[t] = "error" => GraphState'[t] = "failed"
                /\ run'[t] \notin Outcomes => GraphState'[t] = "running"
  BY DEF GraphState, Types, Statuses, Outcomes

\* Two functions on the tasks are equal if they agree on every task.
LEMMA GraphStateEqual ==
    ASSUME NEW F, F = [t \in Tasks |-> F[t]], \A t \in Tasks : GraphState'[t] = F[t]
    PROVE  GraphState' = F
  BY DEF GraphState

\* A wave of execute_plan is one Start of the abstract graph.
LEMMA StartWaveStarts == ASSUME IInv, IInv', StartWave PROVE Graph!Start(ReadyTasks)
  <1> USE DEF IInv
  <1>1. ReadyTasks # {}  BY DEF StartWave
  <1>2. ReadyTasks \subseteq Graph!Startable
    <2> SUFFICES ASSUME NEW t \in ReadyTasks PROVE t \in Graph!Startable  OBVIOUS
    <2>1. t \in Tasks /\ GraphState[t] = "waiting"  BY GraphStateIs DEF ReadyTasks
    <2>2. \A d \in deps[t] : GraphState[d] = "done"
      BY <2>1, GraphStateIs, DepsAreTasks DEF ReadyTasks
    <2> QED  BY <2>1, <2>2 DEF Graph!Startable
  <1>3. GraphState' = [t \in Tasks |-> IF t \in ReadyTasks THEN "running"
                                                            ELSE GraphState[t]]
    <2> DEFINE F == [t \in Tasks |-> IF t \in ReadyTasks THEN "running" ELSE GraphState[t]]
    <2>1. ASSUME NEW t \in Tasks PROVE GraphState'[t] = F[t]
      <3>1. CASE t \in ReadyTasks
        BY <3>1, GraphStateIsNext DEF StartWave, Outcomes
      <3>2. CASE t \notin ReadyTasks
        BY <3>2 DEF StartWave, GraphState
      <3> QED  BY <3>1, <3>2
    <2> QED  BY <2>1, GraphStateEqual
  <1> QED  BY <1>1, <1>2, <1>3 DEF Graph!Start, StartWave

\* The write-back of a wave changes nothing on the abstract level.
LEMMA EndWaveStutters == ASSUME IInv, IInv', EndWave PROVE UNCHANGED Graph!vars
  <1> USE DEF IInv
  <1>1. ASSUME NEW t \in Tasks PROVE GraphState'[t] = GraphState[t]
    <2>1. CASE status[t] = "running"
      BY <2>1, GraphStateIs, GraphStateIsNext DEF EndWave, Outcomes
    <2>2. CASE status[t] # "running"
      BY <2>2 DEF EndWave, GraphState
    <2> QED  BY <2>1, <2>2
  <1>2. GraphState' = GraphState  BY <1>1, GraphStateEqual DEF GraphState
  <1> QED  BY <1>2 DEF Graph!vars, EndWave

\* Failing the blocked tasks is the Abandon of the abstract graph.
LEMMA CancelBlockedAbandons ==
    ASSUME IInv, IInv', CancelBlocked PROVE Graph!Abandon \/ UNCHANGED Graph!vars
  <1> USE DEF IInv
  <1>1. \A t \in Tasks : status[t] \in {"planned", "completed", "failed"}
    BY DEF CancelBlocked, WavesInGather, Types, Statuses
  <1>2. Graph!Startable = {}
    <2> SUFFICES ASSUME NEW t \in Tasks, GraphState[t] = "waiting",
                        \A d \in deps[t] : GraphState[d] = "done"
                 PROVE  FALSE
      BY DEF Graph!Startable
    <2>1. status[t] = "planned"  BY <1>1, GraphStateIs
    <2>2. \A d \in deps[t] : status[d] = "completed"
      BY <1>1, GraphStateIs, DepsAreTasks
    <2> QED  BY <2>1, <2>2 DEF CancelBlocked, ReadyTasks
  <1>3. \A t \in Tasks : GraphState[t] # "running"  BY <1>1, GraphStateIs
  <1>4. \E t \in Tasks : GraphState[t] = "failed"
    BY GraphStateIs DEF CancelBlocked, HasFailures
  <1>5. GraphState' = [t \in Tasks |-> IF GraphState[t] = "waiting" THEN "failed"
                                                                    ELSE GraphState[t]]
    <2> DEFINE F == [t \in Tasks |-> IF GraphState[t] = "waiting" THEN "failed"
                                                                  ELSE GraphState[t]]
    <2>1. ASSUME NEW t \in Tasks PROVE GraphState'[t] = F[t]
      BY <1>1, GraphStateIs, GraphStateIsNext DEF CancelBlocked
    <2> QED  BY <2>1, GraphStateEqual
  <1> QED  BY <1>2, <1>3, <1>4, <1>5 DEF Graph!Abandon, CancelBlocked

\* The step in which a coroutine ends is a Finish of the abstract graph; its
\* other steps are not visible there.
LEMMA TaskStepFinishes ==
    ASSUME IInv, IInv', NEW t \in Tasks, TaskStep(t)
    PROVE  Graph!Next \/ UNCHANGED Graph!vars
  <1> USE DEF IInv, TaskMoves
  <1>1. PICK where \in RunStates : TaskMoves(t, where)  BY TaskStepMoves
  <1>2. run[t] \notin Outcomes
    BY DEF TaskStep, Raise, Acquire, AgentEnds, Timeout, Reap, Outcomes
  <1>3. GraphState[t] = "running"  BY <1>1, <1>2, GraphStateIs
  <1>4. run'[t] = where  BY <1>1 DEF Types
  <1>5. \A u \in Tasks \ {t} : GraphState'[u] = GraphState[u]
    BY <1>1 DEF GraphState, Types
  <1>6. ASSUME NEW state, GraphState'[t] = state
        PROVE  GraphState' = [GraphState EXCEPT ![t] = state]
    <2> DEFINE F == [GraphState EXCEPT ![t] = state]
    <2>1. \A u \in Tasks : GraphState'[u] = F[u]  BY <1>5, <1>6 DEF GraphState
    <2>2. F = [u \in Tasks |-> F[u]]  BY DEF GraphState
    <2> QED  BY <2>1, <2>2, GraphStateEqual
  <1>7. CASE where \in Outcomes
    <2> DEFINE outcome == IF where = "ok" THEN "done" ELSE "failed"
    <2>1. GraphState'[t] = outcome
      BY <1>1, <1>4, <1>7, GraphStateIsNext DEF Outcomes
    <2>2. GraphState' = [GraphState EXCEPT ![t] = outcome]  BY <2>1, <1>6
    <2>3. Graph!Finish(t, outcome)  BY <1>1, <1>3, <2>2 DEF Graph!Finish
    <2>4. outcome \in {"done", "failed"}  OBVIOUS
    <2> QED  BY <2>3, <2>4 DEF Graph!Next
  <1>8. CASE where \notin Outcomes
    <2>1. GraphState'[t] = GraphState[t]
      BY <1>1, <1>3, <1>4, <1>8, GraphStateIsNext
    <2>2. GraphState' = GraphState
      BY <2>1, <1>5, GraphStateEqual DEF GraphState
    <2> QED  BY <1>1, <2>2 DEF Graph!vars
  <1> QED  BY <1>7, <1>8

\* execute_plan, with its waves, permits, processes and timeouts, is the task
\* graph executor of its docstring.
THEOREM Refinement == DagSpec => ImplementsTaskGraph
  <1>1. DagInit => Graph!Init
    <2> SUFFICES ASSUME DagInit PROVE Graph!Init  OBVIOUS
    <2>1. GraphState = [t \in Tasks |-> "waiting"]  BY DEF DagInit, GraphState
    <2> QED  BY <2>1 DEF DagInit, Graph!Init
  <1>2. IInv /\ [DagNext]_dagVars => [Graph!Next]_Graph!vars
    <2> SUFFICES ASSUME IInv, [DagNext]_dagVars
                 PROVE  Graph!Next \/ UNCHANGED Graph!vars
      OBVIOUS
    <2>1. IInv'  BY NextIInv
    <2>2. CASE StartWave
      <3>1. ReadyTasks \in SUBSET Tasks  BY DEF ReadyTasks
      <3> QED  BY <2>1, <2>2, <3>1, StartWaveStarts DEF Graph!Next
    <2>3. CASE EndWave  BY <2>1, <2>3, EndWaveStutters
    <2>4. CASE CancelBlocked  BY <2>1, <2>4, CancelBlockedAbandons DEF Graph!Next
    <2>5. CASE Finish \/ GiveUp \/ UNCHANGED dagVars
      BY <2>5 DEF Finish, GiveUp, dagVars, Graph!vars, GraphState
    <2>6. ASSUME NEW t \in Tasks, TaskStep(t) PROVE Graph!Next \/ UNCHANGED Graph!vars
      BY <2>1, <2>6, TaskStepFinishes
    <2> QED  BY <2>2, <2>3, <2>4, <2>5, <2>6 DEF DagNext, LoopStep
  <1> QED  BY <1>1, <1>2, Invariance, PTL DEF DagSpec, ImplementsTaskGraph, Graph!Spec
=============================================================================
