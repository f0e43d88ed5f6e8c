------------------------- MODULE CommunityRunProofs -------------------------
(***************************************************************************)
(* Proofs about CommunityRun, for every set of tasks, titles, files, plans *)
(* and claims, and any number of runs, crashes, sweeps and user's commits. *)
(*                                                                         *)
(* RunInv is the inductive invariant; during the execution it contains     *)
(* that of DagExecutor.  The rest says where a commit can come from: what  *)
(* is on a branch and not in the project is the work of the branch's task  *)
(* (Origin), of this run unless the branch was reused (Forks); and what    *)
(* the project has and a fresh branch has not is of this run (Bases).      *)
(***************************************************************************)
EXTENDS CommunityRun, DagExecutorProofs

-----------------------------------------------------------------------------
(* The inductive invariant *)

\* A commit of the current run.
Current(c) == c.run = runNo /\ runNo # 0

RunTypes == /\ DagTypeOK
            /\ phase \in Phases /\ runNo \in 0 .. MaxRuns
            /\ title \in Titles /\ claims \in ClaimChoices
            /\ placed \subseteq Tasks /\ reused \subseteq Tasks
            /\ merged \subseteq Tasks /\ conflicts \subseteq Tasks
            /\ success \in BOOLEAN /\ verdict \in {"none", "passed", "failed"}
            /\ crashed \in BOOLEAN /\ crashes \in 0 .. MaxCrashes /\ sweeps \in 0 .. MaxSweeps

GitTypes == /\ main \subseteq Commits
            /\ DOMAIN tip \subseteq Branches
            /\ \A b \in DOMAIN tip : tip[b] \subseteq Commits

TreesOK == /\ trees \subseteq [run : 1 .. MaxRuns, task : Tasks, branch : Branches]
           /\ \A w \in trees : w.branch \in DOMAIN tip
           /\ \A v, w \in trees : v.branch = w.branch => v = w

\* What the phase says of the plan and of the run.
PhaseOK == /\ phase = "trees" => DagInit
           /\ phase = "exec" => IInv
           /\ phase # "idle" => runNo # 0
           /\ phase \in {"trees", "exec", "merge"} => ~Overlap
           /\ phase \in {"exec", "merge"} => placed = Tasks
           /\ phase \in {"trees", "exec"} => merged = {} /\ conflicts = {} /\ ~success
           /\ success => merged = Tasks

Placement == \A t \in placed \cup merged : Branch(t) \in DOMAIN tip

Past == /\ \A c \in main : c.run <= runNo
        /\ \A b \in DOMAIN tip : \A c \in tip[b] : c.run <= runNo

Origin == \A b \in DOMAIN tip : \A c \in tip[b] : c \in main \/ c.task = b[1]

\* The commits of this run: each on the branch of its task, made by an agent that
\* was started, within its claims if it obeys.
Work == /\ \A b \in DOMAIN tip : \A c \in tip[b] : Current(c) =>
              /\ b = Branch(c.task) /\ c.task \in Tasks
              /\ AgentsObey => c.files \subseteq claims[c.task]
              /\ phase # "trees"
              /\ phase = "exec" => run[c.task] # "idle"
              /\ phase = "merge" => status[c.task] = "completed"
        /\ \A c \in main : Current(c) =>
              /\ Branch(c.task) \in DOMAIN tip /\ c \in tip[Branch(c.task)]

Forks == \A t \in placed \ reused : \A c \in tip[Branch(t)] : c \in main \/ Current(c)

Bases == reused = {} /\ (\A c \in main : c.run # 0) =>
            \A t \in placed : \A d \in main : d \in tip[Branch(t)] \/ Current(d)

Delivered == \A t \in merged : tip[Branch(t)] \subseteq main

RunInv == /\ RunTypes /\ GitTypes /\ TreesOK /\ PhaseOK /\ Placement
          /\ Past /\ Origin /\ Work /\ Forks /\ Bases /\ Delivered
          /\ OwnershipPreventsConflicts

-----------------------------------------------------------------------------
(* Lemmas *)

LEMMA RunBounds == /\ MaxRuns \in Nat /\ MaxCrashes \in Nat /\ MaxSweeps \in Nat
                   /\ MaxUserCommits \in Nat
  <1>1. {MaxRuns, MaxCrashes, MaxSweeps, MaxUserCommits} \subseteq Nat
    BY RunAssumption DEF RunAssumption
  <1> QED  BY <1>1

LEMMA IInvTypes == IInv => DagTypeOK
  <1> SUFFICES ASSUME IInv PROVE DagTypeOK  OBVIOUS
  <1>1. permits + Cardinality(Holding) = MaxConcurrent /\ permits \in Nat
    BY DEF IInv, Types, PermitsConserved
  <1>2. permits \in 0 .. MaxConcurrent
    BY <1>1, HoldingFinite, DagAssumption DEF DagAssumption
  <1> QED  BY <1>2 DEF IInv, Types, DagTypeOK

\* A task that has started does not go back to idle.
LEMMA StartedStays ==
    ASSUME DagNext, NEW t \in Tasks, run \in [Tasks -> RunStates], run[t] # "idle"
    PROVE  run'[t] # "idle"
  <1>1. CASE StartWave  BY <1>1 DEF StartWave
  <1>2. CASE EndWave \/ Finish \/ CancelBlocked \/ GiveUp
    BY <1>2 DEF EndWave, Finish, CancelBlocked, GiveUp
  <1>3. ASSUME NEW u \in Tasks, TaskStep(u) PROVE run'[t] # "idle"
    BY <1>3 DEF TaskStep, Raise, Acquire, AgentEnds, Timeout, Reap, Outcomes
  <1> QED  BY <1>1, <1>2, <1>3 DEF DagNext, LoopStep

\* What execute_plan returns without a failure has completed all it has started.
LEMMA StartedIsCompleted ==
    ASSUME IInv, pc = "returned", ~HasFailures, NEW t \in Tasks, run[t] # "idle"
    PROVE  status[t] = "completed"
  BY DEF IInv, Types, Agreement, WavesInGather, HasFailures, Statuses

-----------------------------------------------------------------------------
(* The invariant holds in the beginning, and every step keeps it *)

LEMMA RunInitInv == Init => RunInv
  <1> SUFFICES ASSUME Init PROVE RunInv  OBVIOUS
  <1> USE DEF Init
  <1>1. DagTypeOK  BY InitIInv, IInvTypes
  <1>2. RunTypes
    <2>1. runNo \in 0 .. MaxRuns /\ crashes \in 0 .. MaxCrashes /\ sweeps \in 0 .. MaxSweeps
      BY RunBounds
    <2>2. success \in BOOLEAN /\ crashed \in BOOLEAN  OBVIOUS
    <2> QED  BY <1>1, <2>1, <2>2 DEF RunTypes, Phases
  <1>3. DOMAIN tip = {}  OBVIOUS
  <1>4. GitTypes /\ TreesOK /\ Placement /\ Past /\ Origin /\ Work /\ Forks /\ Delivered
    BY <1>3 DEF GitTypes, TreesOK, Placement, Past, Origin, Work, Forks, Delivered, Current
  <1>5. PhaseOK
    <2>1. success = FALSE /\ phase = "idle"  OBVIOUS
    <2> QED  BY <2>1 DEF PhaseOK
  <1>6. Bases /\ OwnershipPreventsConflicts  BY DEF Bases, OwnershipPreventsConflicts
  <1> QED  BY <1>2, <1>4, <1>5, <1>6 DEF RunInv

\* The steps that leave the branches and the merges alone.
LEMMA QuietStep ==
    ASSUME RunInv, RunTypes', PhaseOK', trees' \subseteq trees,
           UNCHANGED <<planVars, placed, reused, merged, conflicts, main, tip>>,
           phase' # "idle" => phase # "idle", phase' = "trees" => phase = "trees",
           phase' = "exec" => phase = "exec" /\ \A t \in Tasks : run[t] # "idle" => run'[t] # "idle",
           phase' = "merge" =>
              \/ phase = "merge" /\ status' = status
              \/ phase = "exec" /\ \A t \in Tasks : run[t] # "idle" => status'[t] = "completed"
    PROVE  RunInv'
  <1> USE DEF RunInv
  <1>1. /\ main' = main /\ tip' = tip /\ placed' = placed /\ reused' = reused
        /\ runNo' = runNo /\ title' = title /\ claims' = claims
        /\ merged' = merged /\ conflicts' = conflicts
    BY DEF planVars
  <1>2. \A t : Branch(t)' = Branch(t)  BY <1>1 DEF Branch
  <1>3. GitTypes' /\ TreesOK' /\ Past' /\ Origin' /\ OwnershipPreventsConflicts'
    BY <1>1 DEF GitTypes, TreesOK, Past, Origin, OwnershipPreventsConflicts
  <1>4. Placement' /\ Forks' /\ Bases' /\ Delivered'
    BY <1>1, <1>2 DEF Placement, Forks, Bases, Delivered, Current
  <1>5. Work'
    BY <1>1, <1>2 DEF Work, Current
  <1> QED  BY <1>3, <1>4, <1>5

LEMMA StartRunInv == ASSUME RunInv, StartRun PROVE RunInv'
  <1> USE DEF RunInv, StartRun, envVars
  <1>1. /\ runNo' = runNo + 1 /\ runNo \in Nat /\ runNo' \in 0 .. MaxRuns
        /\ main' = main /\ tip' = tip /\ trees' = trees
        /\ placed' = {} /\ reused' = {} /\ merged' = {} /\ conflicts' = {} /\ ~success'
        /\ phase' \in {"cleanup", "trees"} /\ (phase' = "trees" => ~Overlap')
    BY RunBounds DEF RunTypes
  <1>2. DagInit'  BY DEF DagInit
  <1>3. DagTypeOK'
    BY <1>2, InitIInv, IInvTypes, PTL
  <1>4. RunTypes'
    <2>1. success' \in BOOLEAN /\ crashed' \in BOOLEAN  BY DEF RunTypes
    <2> QED  BY <1>1, <1>3, <2>1 DEF RunTypes, Phases
  <1>5. \A c \in main : c.run <= runNo /\ ~Current(c)'
    BY <1>1 DEF Past, Current, GitTypes, Commits
  <1>6. \A b \in DOMAIN tip : \A c \in tip[b] : c.run <= runNo /\ ~Current(c)'
    BY <1>1 DEF Past, Current, GitTypes, Commits
  <1>7. GitTypes' /\ TreesOK'
    BY <1>1 DEF GitTypes, TreesOK
  <1>8. PhaseOK'  BY <1>1, <1>2 DEF PhaseOK
  <1>9. Placement' /\ Forks' /\ Bases' /\ Delivered' /\ OwnershipPreventsConflicts'
    BY <1>1 DEF Placement, Forks, Bases, Delivered, OwnershipPreventsConflicts
  <1>10. Past'
    <2>1. \A c \in Commits : c.run \in Nat  BY RunBounds DEF Commits
    <2> QED  BY <1>1, <1>5, <1>6, <2>1 DEF Past, GitTypes
  <1>11. Origin' /\ Work'
    BY <1>1, <1>5, <1>6 DEF Origin, Work
  <1> QED  BY <1>4, <1>7, <1>8, <1>9, <1>10, <1>11

\* A task gets its worktree, on a branch that is new or left from before.
LEMMA PlacedInv ==
    ASSUME RunInv, NEW t \in Tasks, Placed(t), phase = "trees", t \notin placed,
           \/ /\ Branch(t) \notin DOMAIN tip
              /\ tip' = [b \in DOMAIN tip \cup {Branch(t)} |->
                           IF b = Branch(t) THEN main ELSE tip[b]]
              /\ reused' = reused
           \/ /\ Branch(t) \in DOMAIN tip /\ ~CheckedOut(Branch(t))
              /\ tip' = tip
              /\ reused' = reused \cup {t}
    PROVE  RunInv'
  <1> USE DEF RunInv, Placed, planVars, mergeVars, envVars
  <1>1. /\ runNo' = runNo /\ title' = title /\ claims' = claims /\ main' = main
        /\ merged' = merged /\ conflicts' = conflicts /\ success' = success
        /\ verdict' = verdict /\ crashed' = crashed /\ crashes' = crashes /\ sweeps' = sweeps
        /\ placed' = placed \cup {t} /\ trees' = trees \cup {Tree(t)}
        /\ deps' = deps /\ status' = status /\ run' = run /\ permits' = permits /\ pc' = pc
        /\ phase' = IF placed' = Tasks THEN "exec" ELSE "trees"
    BY DEF dagVars
  <1>2. \A u : Branch(u)' = Branch(u)  BY <1>1 DEF Branch
  <1>3. DagInit /\ runNo # 0 /\ runNo \in 1 .. MaxRuns /\ merged = {} /\ conflicts = {}
        /\ ~success /\ ~Overlap /\ title \in Titles
    BY DEF PhaseOK, RunTypes
  <1>4. /\ DOMAIN tip' = DOMAIN tip \cup {Branch(t)}
        /\ \A b \in DOMAIN tip : tip'[b] = tip[b]
        /\ Branch(t) \notin DOMAIN tip => tip'[Branch(t)] = main
    <2>1. CASE tip' = tip /\ Branch(t) \in DOMAIN tip  BY <2>1
    <2>2. CASE /\ Branch(t) \notin DOMAIN tip
               /\ tip' = [b \in DOMAIN tip \cup {Branch(t)} |->
                             IF b = Branch(t) THEN main ELSE tip[b]]
      BY <2>2
    <2> QED  BY <2>1, <2>2
  <1>5. \A b \in DOMAIN tip' : \/ b \in DOMAIN tip /\ tip'[b] = tip[b]
                               \/ b = Branch(t) /\ tip'[b] = main
    BY <1>4
  <1>6. \A c : Current(c)' <=> Current(c)  BY <1>1 DEF Current
  <1>7. Branch(t) \in Branches  BY <1>3 DEF Branch, Branches
  <1>8. \A u \in Tasks : Branch(u) = Branch(t) => u = t  BY DEF Branch
  <1>9. RunTypes'  BY <1>1 DEF RunTypes, DagTypeOK, Phases
  <1>10. GitTypes'  BY <1>1, <1>4, <1>5, <1>7 DEF GitTypes
  <1>11. TreesOK'
    <2>1. Tree(t) \in [run : 1 .. MaxRuns, task : Tasks, branch : Branches]
          /\ Tree(t).branch = Branch(t)
      BY <1>3, <1>7 DEF Tree
    <2>2. \A w \in trees : w.branch # Branch(t)
      BY DEF TreesOK, CheckedOut
    <2> QED  BY <1>1, <1>4, <2>1, <2>2 DEF TreesOK
  <1>12. PhaseOK'
    <2>1. DagInit'  BY <1>1, <1>3 DEF DagInit
    <2>2. IInv'  BY <2>1, InitIInv, PTL
    <2>3. ~Overlap'  BY <1>1, <1>3 DEF Overlap
    <2> QED  BY <1>1, <1>3, <2>1, <2>2, <2>3 DEF PhaseOK
  <1>13. Placement'
    BY <1>1, <1>2, <1>4 DEF Placement
  <1>14. Past'  BY <1>1, <1>5 DEF Past
  <1>15. Origin'  BY <1>1, <1>5 DEF Origin
  <1>16. Work'
    <2>1. \A b \in DOMAIN tip : \A c \in tip[b] : ~Current(c)
      BY DEF Work
    <2>2. \A c \in main : ~Current(c)
      BY <2>1 DEF Work
    <2> QED  BY <1>1, <1>5, <1>6, <2>1, <2>2 DEF Work
  <1>17. Forks'
    <2> SUFFICES ASSUME NEW u \in placed' \ reused', NEW c \in tip'[Branch(u)]
                 PROVE  c \in main \/ Current(c)
      BY <1>1, <1>2, <1>6 DEF Forks
    <2>1. CASE u = t  BY <1>4, <2>1
    <2>2. CASE u # t
      BY <1>1, <1>4, <2>2 DEF Forks, Placement
    <2> QED  BY <2>1, <2>2
  <1>18. Bases'
    <2> SUFFICES ASSUME reused' = {}, \A c \in main : c.run # 0,
                        NEW u \in placed', NEW d \in main
                 PROVE  d \in tip'[Branch(u)] \/ Current(d)
      BY <1>1, <1>2, <1>6 DEF Bases
    <2>1. reused = {} /\ Branch(t) \notin DOMAIN tip  OBVIOUS
    <2>2. CASE u = t  BY <1>4, <2>1, <2>2
    <2>3. CASE u # t
      BY <1>1, <1>4, <2>1, <2>3 DEF Bases, Placement
    <2> QED  BY <2>2, <2>3
  <1>19. Delivered' /\ OwnershipPreventsConflicts'
    BY <1>1, <1>3 DEF Delivered, OwnershipPreventsConflicts
  <1> QED  BY <1>9, <1>10, <1>11, <1>12, <1>13, <1>14, <1>15, <1>16, <1>17, <1>18, <1>19

LEMMA AgentCommitsInv == ASSUME RunInv, NEW t \in Tasks, AgentCommits(t) PROVE RunInv'
  <1> USE DEF RunInv, AgentCommits, planVars, mergeVars, envVars
  <1>1. /\ runNo' = runNo /\ title' = title /\ claims' = claims /\ main' = main
        /\ merged' = merged /\ conflicts' = conflicts /\ success' = success
        /\ verdict' = verdict /\ crashed' = crashed /\ crashes' = crashes /\ sweeps' = sweeps
        /\ placed' = placed /\ trees' = trees /\ phase' = phase /\ reused' = reused
        /\ deps' = deps /\ status' = status /\ run' = run /\ permits' = permits /\ pc' = pc
    BY DEF dagVars
  <1>2. \A u : Branch(u)' = Branch(u)  BY <1>1 DEF Branch
  <1>3. IInv /\ runNo # 0 /\ runNo \in 0 .. MaxRuns /\ merged = {} /\ conflicts = {} /\ ~success
        /\ claims \in [Tasks -> SUBSET Files] /\ run[t] # "idle" /\ placed = Tasks
    BY RunAssumption DEF PhaseOK, RunTypes, RunAssumption
  <1>4. Branch(t) \in DOMAIN tip  BY <1>3 DEF Placement
  <1>5. PICK F \in SUBSET (IF AgentsObey THEN claims[t] ELSE Files) \ {{}} :
               tip' = [tip EXCEPT ![Branch(t)] =
                         @ \cup {[run |-> runNo, task |-> t, files |-> F]}]
    OBVIOUS
  <1> DEFINE new == [run |-> runNo, task |-> t, files |-> F]
  <1>6. /\ new \in Commits /\ new.run = runNo /\ new.task = t /\ new.files = F
        /\ AgentsObey => F \subseteq claims[t]
    BY <1>3, <1>5 DEF Commits
  <1> HIDE DEF new
  <1>7. /\ DOMAIN tip' = DOMAIN tip
        /\ tip'[Branch(t)] = tip[Branch(t)] \cup {new}
        /\ \A b \in DOMAIN tip \ {Branch(t)} : tip'[b] = tip[b]
    BY <1>4, <1>5 DEF new
  <1>8. \A b \in DOMAIN tip : \A c \in tip'[b] : c \in tip[b] \/ (b = Branch(t) /\ c = new)
    BY <1>7
  <1>9. \A b \in DOMAIN tip : tip[b] \subseteq tip'[b]  BY <1>7
  <1>10. \A c : Current(c)' <=> Current(c)  BY <1>1 DEF Current
  <1>11. RunTypes'  BY <1>1 DEF RunTypes, DagTypeOK
  <1>12. GitTypes' /\ TreesOK'
    BY <1>1, <1>6, <1>7, <1>8 DEF GitTypes, TreesOK
  <1>13. PhaseOK'
    <2>1. IInv'  BY <1>1, <1>3, StutterKeepsIInv DEF dagVars
    <2>2. ~Overlap'  BY <1>1 DEF Overlap, PhaseOK
    <2> QED  BY <1>1, <1>3, <2>1, <2>2 DEF PhaseOK
  <1>14. Placement'  BY <1>1, <1>2, <1>7 DEF Placement
  <1>15. Past'  BY <1>1, <1>3, <1>6, <1>7, <1>8 DEF Past
  <1>16. Origin'
    <2>1. Branch(t)[1] = t  BY DEF Branch
    <2> QED  BY <1>1, <1>6, <1>7, <1>8, <2>1 DEF Origin
  <1>17. Work'
    <2>1. ASSUME NEW b \in DOMAIN tip, NEW c \in tip'[b], Current(c)
          PROVE  /\ b = Branch(c.task) /\ c.task \in Tasks
                 /\ AgentsObey => c.files \subseteq claims[c.task]
                 /\ run[c.task] # "idle"
      BY <1>3, <1>6, <1>8, <2>1 DEF Work
    <2>2. ASSUME NEW c \in main, Current(c)
          PROVE  Branch(c.task) \in DOMAIN tip /\ c \in tip'[Branch(c.task)]
      BY <1>9, <2>2 DEF Work
    <2> QED  BY <1>1, <1>2, <1>7, <1>10, <2>1, <2>2 DEF Work
  <1>18. Forks'
    <2>1. Current(new)  BY <1>3, <1>6 DEF Current
    <2> QED  BY <1>1, <1>2, <1>3, <1>8, <1>10, <2>1 DEF Forks, Placement
  <1>19. Bases'
    BY <1>1, <1>2, <1>9, <1>10 DEF Bases, Placement
  <1>20. Delivered' /\ OwnershipPreventsConflicts'
    BY <1>1, <1>3 DEF Delivered, OwnershipPreventsConflicts
  <1> QED  BY <1>11, <1>12, <1>13, <1>14, <1>15, <1>16, <1>17, <1>18, <1>19, <1>20

\* Branches of tasks that keep to their own files merge without conflict, unless
\* something else has come into the project or onto a branch.
LEMMA ConflictHasACause ==
    ASSUME RunInv, NEW t \in Tasks, phase = "merge", MayConflict(Branch(t)), AgentsObey,
           reused = {}, \A c \in main : c.run # 0
    PROVE  FALSE
  <1> USE DEF RunInv
  <1>1. PICK c \in tip[Branch(t)] \ main, d \in main \ tip[Branch(t)] : c.files \cap d.files # {}
    BY DEF MayConflict
  <1>2. placed = Tasks /\ ~Overlap  BY DEF PhaseOK
  <1>3. Branch(t) \in DOMAIN tip  BY <1>2 DEF Placement
  <1>4. Current(c) /\ Current(d)
    BY <1>1, <1>2 DEF Forks, Bases
  <1>5. Branch(t) = Branch(c.task) /\ c.files \subseteq claims[c.task]
    BY <1>1, <1>3, <1>4 DEF Work
  <1>6. c.task = t  BY <1>5 DEF Branch
  <1>7. Branch(d.task) \in DOMAIN tip /\ d \in tip[Branch(d.task)]
    BY <1>1, <1>4 DEF Work
  <1>8. d.task \in Tasks /\ d.files \subseteq claims[d.task]
    BY <1>4, <1>7 DEF Work
  <1>9. d.task # t  BY <1>1, <1>7
  <1> QED  BY <1>1, <1>2, <1>5, <1>6, <1>8, <1>9 DEF Overlap

LEMMA MergeInv == ASSUME RunInv, NEW t \in Tasks, Merge(t) PROVE RunInv'
  <1> USE DEF RunInv, Merge, NextToMerge, planVars, envVars
  <1>1. /\ runNo' = runNo /\ title' = title /\ claims' = claims /\ tip' = tip
        /\ conflicts' = conflicts /\ success' = success
        /\ verdict' = verdict /\ crashed' = crashed /\ crashes' = crashes /\ sweeps' = sweeps
        /\ placed' = placed /\ trees' = trees /\ phase' = "merge" /\ phase = "merge"
        /\ reused' = reused
        /\ deps' = deps /\ status' = status /\ run' = run /\ permits' = permits /\ pc' = pc
        /\ main' = main \cup tip[Branch(t)] /\ merged' = merged \cup {t}
    BY DEF dagVars
  <1>2. \A u : Branch(u)' = Branch(u)  BY <1>1 DEF Branch
  <1>3. /\ placed = Tasks /\ runNo # 0 /\ ~Overlap
        /\ Branch(t) \in DOMAIN tip
    BY <1>1 DEF PhaseOK, Placement
  <1>4. \A c : Current(c)' <=> Current(c)  BY <1>1 DEF Current
  <1>5. RunTypes'  BY <1>1 DEF RunTypes, DagTypeOK
  <1>6. GitTypes' /\ TreesOK'
    BY <1>1, <1>3 DEF GitTypes, TreesOK
  <1>7. PhaseOK'
    <2>1. ~Overlap'  BY <1>1, <1>3 DEF Overlap
    <2>2. success => merged' = Tasks  BY <1>1 DEF PhaseOK
    <2> QED  BY <1>1, <1>3, <2>1, <2>2 DEF PhaseOK
  <1>8. Placement'  BY <1>1, <1>2, <1>3 DEF Placement
  <1>9. Past'  BY <1>1, <1>3 DEF Past
  <1>10. Origin'  BY <1>1 DEF Origin
  <1>11. Work'
    <2>1. ASSUME NEW c \in tip[Branch(t)], Current(c)
          PROVE  Branch(c.task) \in DOMAIN tip /\ c \in tip[Branch(c.task)]
      BY <1>3, <2>1 DEF Work
    <2> QED  BY <1>1, <1>2, <1>4, <2>1 DEF Work
  <1>12. Forks'  BY <1>1, <1>2, <1>4 DEF Forks
  <1>13. Bases'
    <2> SUFFICES ASSUME reused = {}, \A c \in main' : c.run # 0,
                        NEW u \in placed, NEW d \in main'
                 PROVE  d \in tip[Branch(u)] \/ Current(d)
      BY <1>1, <1>2, <1>4 DEF Bases
    <2>1. CASE d \in main  BY <1>1, <2>1 DEF Bases
    <2>2. CASE d \notin main
      BY <1>1, <1>3, <2>2 DEF Forks
    <2> QED  BY <2>1, <2>2
  <1>14. Delivered'  BY <1>1, <1>2 DEF Delivered
  <1>15. OwnershipPreventsConflicts'  BY <1>1 DEF OwnershipPreventsConflicts
  <1> QED  BY <1>5, <1>6, <1>7, <1>8, <1>9, <1>10, <1>11, <1>12, <1>13, <1>14, <1>15

LEMMA ConflictInv == ASSUME RunInv, NEW t \in Tasks, Conflict(t) PROVE RunInv'
  <1> USE DEF RunInv, Conflict, NextToMerge, planVars, envVars
  <1>1. /\ runNo' = runNo /\ title' = title /\ claims' = claims /\ tip' = tip /\ main' = main
        /\ conflicts' = conflicts \cup {t} /\ success' = success /\ merged' = merged
        /\ verdict' = verdict /\ crashed' = crashed /\ crashes' = crashes /\ sweeps' = sweeps
        /\ placed' = placed /\ trees' = trees /\ phase' = "merge" /\ phase = "merge"
        /\ reused' = reused
        /\ deps' = deps /\ status' = status /\ run' = run /\ permits' = permits /\ pc' = pc
    BY DEF dagVars
  <1>2. \A u : Branch(u)' = Branch(u)  BY <1>1 DEF Branch
  <1>3. \A c : Current(c)' <=> Current(c)  BY <1>1 DEF Current
  <1>4. RunTypes'  BY <1>1 DEF RunTypes, DagTypeOK
  <1>5. GitTypes' /\ TreesOK' /\ Past' /\ Origin'
    BY <1>1 DEF GitTypes, TreesOK, Past, Origin
  <1>6. PhaseOK'
    <2>1. ~Overlap'  BY <1>1 DEF Overlap, PhaseOK
    <2> QED  BY <1>1, <2>1 DEF PhaseOK
  <1>7. Placement' /\ Forks' /\ Bases' /\ Delivered'
    BY <1>1, <1>2, <1>3 DEF Placement, Forks, Bases, Delivered
  <1>8. Work'  BY <1>1, <1>2, <1>3 DEF Work
  <1>9. OwnershipPreventsConflicts'
    <2>1. AgentsObey => reused # {} \/ \E c \in main : c.run = 0
      BY <1>1, ConflictHasACause
    <2> QED  BY <1>1, <2>1 DEF OwnershipPreventsConflicts
  <1> QED  BY <1>4, <1>5, <1>6, <1>7, <1>8, <1>9

LEMMA UserCommitInv == ASSUME RunInv, UserCommit PROVE RunInv'
  <1> USE DEF RunInv, UserCommit, planVars, mergeVars, envVars
  <1>1. /\ runNo' = runNo /\ title' = title /\ claims' = claims /\ tip' = tip
        /\ merged' = merged /\ conflicts' = conflicts /\ success' = success
        /\ verdict' = verdict /\ crashed' = crashed /\ crashes' = crashes /\ sweeps' = sweeps
        /\ placed' = placed /\ trees' = trees /\ phase' = phase /\ reused' = reused
        /\ deps' = deps /\ status' = status /\ run' = run /\ permits' = permits /\ pc' = pc
    BY DEF dagVars
  <1>2. PICK F \in SUBSET Files \ {{}} : main' = main \cup {[run |-> 0, task |-> 0, files |-> F]}
    OBVIOUS
  <1> DEFINE new == [run |-> 0, task |-> 0, files |-> F]
  <1>3. new \in Commits /\ new.run = 0  BY <1>2, RunBounds DEF Commits
  <1>4. main' = main \cup {new}  BY <1>2
  <1> HIDE DEF new
  <1>5. \A u : Branch(u)' = Branch(u)  BY <1>1 DEF Branch
  <1>6. (\A c : Current(c)' <=> Current(c)) /\ ~Current(new)
    BY <1>1, <1>3 DEF Current
  <1>7. RunTypes'  BY <1>1 DEF RunTypes, DagTypeOK
  <1>8. GitTypes' /\ TreesOK' /\ Placement'
    BY <1>1, <1>3, <1>4, <1>5 DEF GitTypes, TreesOK, Placement
  <1>9. PhaseOK'
    <2>1. phase = "exec" => IInv'  BY <1>1, StutterKeepsIInv DEF PhaseOK, dagVars
    <2>2. phase = "trees" => DagInit'  BY <1>1 DEF PhaseOK, DagInit
    <2>3. Overlap' <=> Overlap  BY <1>1 DEF Overlap
    <2> QED  BY <1>1, <2>1, <2>2, <2>3 DEF PhaseOK
  <1>10. Past'
    <2>1. runNo \in Nat  BY RunBounds DEF RunTypes
    <2> QED  BY <1>1, <1>3, <1>4, <2>1 DEF Past
  <1>11. Origin'  BY <1>1, <1>4 DEF Origin
  <1>12. Work'
    <2>1. \A c \in main' : Current(c) => c \in main  BY <1>4, <1>6
    <2> QED  BY <1>1, <1>5, <1>6, <2>1 DEF Work
  <1>13. Forks' /\ Delivered'  BY <1>1, <1>4, <1>5, <1>6 DEF Forks, Delivered
  <1>14. Bases' /\ OwnershipPreventsConflicts'
    BY <1>1, <1>3, <1>4 DEF Bases, OwnershipPreventsConflicts
  <1> QED  BY <1>7, <1>8, <1>9, <1>10, <1>11, <1>12, <1>13, <1>14

\* The steps of the run itself that touch neither a branch nor a merge.
LEMMA RunGoesOnInv ==
    ASSUME RunInv, \/ \E t \in Tasks : RefuseWorktree(t)
                   \/ ExecutionReturns \/ MergingReturns \/ Validate
                   \/ \E w \in trees : RemoveTree(w)
                   \/ EndRun
    PROVE  RunInv'
  <1> USE DEF RunInv, planVars, mergeVars, envVars
  <1>0. DagTypeOK /\ RunTypes /\ PhaseOK  BY DEF RunTypes
  <1>1. CASE \E t \in Tasks : RefuseWorktree(t)
    <2>1. PICK t \in Tasks : RefuseWorktree(t)  BY <1>1
    <2> USE <2>1 DEF RefuseWorktree, NextToPlace
    <2>2. DagTypeOK'  BY <1>0 DEF DagTypeOK, Statuses
    <2>3. RunTypes'  BY <1>0, <2>2 DEF RunTypes, Phases
    <2>4. PhaseOK'  BY <1>0 DEF PhaseOK
    <2> QED  BY <2>3, <2>4, QuietStep
  <1>2. CASE ExecutionReturns
    <2> USE <1>2 DEF ExecutionReturns
    <2>1. dagVars' = dagVars /\ DagTypeOK'  BY <1>0 DEF DagTypeOK, dagVars
    <2>2. RunTypes'  BY <1>0, <2>1 DEF RunTypes, Phases
    <2>3. PhaseOK'
      <3>1. Overlap' <=> Overlap  BY DEF Overlap
      <3> QED  BY <1>0, <3>1 DEF PhaseOK
    <2>4. phase' = "merge" => \A t \in Tasks : run[t] # "idle" => status'[t] = "completed"
      <3>1. IInv /\ status' = status  BY <1>0, <2>1 DEF PhaseOK, dagVars
      <3> QED  BY <3>1, StartedIsCompleted
    <2> QED  BY <2>2, <2>3, <2>4, QuietStep
  <1>3. CASE MergingReturns
    <2> USE <1>3 DEF MergingReturns
    <2>1. dagVars' = dagVars /\ DagTypeOK'  BY <1>0 DEF DagTypeOK, dagVars
    <2>2. RunTypes'
      <3>1. success' \in BOOLEAN  OBVIOUS
      <3> QED  BY <1>0, <2>1, <3>1 DEF RunTypes, Phases
    <2>3. PhaseOK'
      <3>1. success' => merged = Tasks  BY <1>0 DEF RunTypes
      <3> QED  BY <1>0, <3>1 DEF PhaseOK
    <2> QED  BY <2>2, <2>3, QuietStep
  <1>4. CASE Validate
    <2> USE <1>4 DEF Validate
    <2>1. dagVars' = dagVars /\ DagTypeOK'  BY <1>0 DEF DagTypeOK, dagVars
    <2>2. RunTypes'  BY <1>0, <2>1 DEF RunTypes, Phases
    <2>3. PhaseOK'  BY <1>0 DEF PhaseOK
    <2> QED  BY <2>2, <2>3, QuietStep
  <1>5. CASE \E w \in trees : RemoveTree(w)
    <2>1. PICK w \in trees : RemoveTree(w)  BY <1>5
    <2> USE <2>1 DEF RemoveTree
    <2>2. dagVars' = dagVars /\ DagTypeOK'  BY <1>0 DEF DagTypeOK, dagVars
    <2>3. RunTypes'  BY <1>0, <2>2 DEF RunTypes
    <2>4. PhaseOK'  BY <1>0 DEF PhaseOK
    <2> QED  BY <2>3, <2>4, QuietStep
  <1>6. CASE EndRun
    <2> USE <1>6 DEF EndRun
    <2>1. dagVars' = dagVars /\ DagTypeOK'  BY <1>0 DEF DagTypeOK, dagVars
    <2>2. RunTypes'
      <3>1. crashed' \in BOOLEAN  OBVIOUS
      <3> QED  BY <1>0, <2>1, <3>1 DEF RunTypes, Phases
    <2>3. PhaseOK'  BY <1>0 DEF PhaseOK
    <2> QED  BY <2>2, <2>3, QuietStep
  <1> QED  BY <1>1, <1>2, <1>3, <1>4, <1>5, <1>6

LEMMA ExecuteStepInv == ASSUME RunInv, ExecuteStep PROVE RunInv'
  <1> USE DEF RunInv, ExecuteStep, runVars, planVars, mergeVars, envVars
  <1>1. IInv /\ runNo # 0 /\ run \in [Tasks -> RunStates]
    BY DEF PhaseOK, IInv, Types
  <1>2. IInv'  BY <1>1, NextIInv
  <1>3. DagTypeOK'  BY <1>2, IInvTypes, PTL
  <1>4. RunTypes'  BY <1>3 DEF RunTypes
  <1>5. PhaseOK'
    <2>1. Overlap' <=> Overlap  BY DEF Overlap
    <2> QED  BY <1>2, <2>1 DEF PhaseOK
  <1>6. \A t \in Tasks : run[t] # "idle" => run'[t] # "idle"
    BY <1>1, StartedStays
  <1> QED  BY <1>4, <1>5, <1>6, QuietStep

\* Crashes, interrupts and sweeps from another terminal.
LEMMA DisturbedInv ==
    ASSUME RunInv, Interrupt \/ Crash \/ ForeignSweep
    PROVE  RunInv'
  <1> USE DEF RunInv, planVars, mergeVars, envVars
  <1>0. DagTypeOK /\ RunTypes /\ PhaseOK  BY DEF RunTypes
  <1>1. StopExecution => DagTypeOK'
    BY <1>0, DagAssumption DEF StopExecution, DagTypeOK, DagAssumption, RunStates
  <1>2. CASE Interrupt
    <2> USE <1>2 DEF Interrupt
    <2>1. RunTypes'  BY <1>0, <1>1 DEF RunTypes, Phases
    <2>2. PhaseOK'  BY <1>0 DEF PhaseOK
    <2> QED  BY <2>1, <2>2, QuietStep
  <1>3. CASE Crash
    <2> USE <1>3 DEF Crash
    <2>1. RunTypes'
      <3>1. crashed' \in BOOLEAN  OBVIOUS
      <3>2. crashes' \in 0 .. MaxCrashes  BY <1>0, RunBounds DEF RunTypes
      <3> QED  BY <1>0, <1>1, <3>1, <3>2 DEF RunTypes, Phases
    <2>2. PhaseOK'  BY <1>0 DEF PhaseOK
    <2> QED  BY <2>1, <2>2, QuietStep
  <1>4. CASE ForeignSweep
    <2> USE <1>4 DEF ForeignSweep
    <2>1. /\ deps' = deps /\ status' = status /\ run' = run /\ permits' = permits /\ pc' = pc
      BY DEF dagVars
    <2>2. RunTypes'
      <3>1. sweeps' \in 0 .. MaxSweeps  BY <1>0, RunBounds DEF RunTypes
      <3> QED  BY <1>0, <2>1, <3>1 DEF RunTypes, DagTypeOK
    <2>3. PhaseOK'
      <3>1. phase = "exec" => IInv'  BY <1>0, <2>1, StutterKeepsIInv DEF PhaseOK, dagVars
      <3>2. phase = "trees" => DagInit'  BY <1>0, <2>1 DEF PhaseOK, DagInit
      <3>3. Overlap' <=> Overlap  BY DEF Overlap
      <3> QED  BY <1>0, <3>1, <3>2, <3>3 DEF PhaseOK
    <2> QED  BY <2>1, <2>2, <2>3, QuietStep
  <1> QED  BY <1>2, <1>3, <1>4

LEMMA RunStutterInv == ASSUME RunInv, UNCHANGED vars PROVE RunInv'
  <1> USE DEF RunInv, vars, runVars, planVars, mergeVars, envVars
  <1>1. /\ deps' = deps /\ status' = status /\ run' = run /\ permits' = permits /\ pc' = pc
    BY DEF dagVars
  <1>2. RunTypes'  BY <1>1 DEF RunTypes, DagTypeOK
  <1>3. PhaseOK'
    <2>1. phase = "exec" => IInv'  BY <1>1, StutterKeepsIInv DEF PhaseOK, dagVars
    <2>2. phase = "trees" => DagInit'  BY <1>1 DEF PhaseOK, DagInit
    <2>3. Overlap' <=> Overlap  BY DEF Overlap
    <2> QED  BY <2>1, <2>2, <2>3 DEF PhaseOK
  <1> QED  BY <1>1, <1>2, <1>3, QuietStep

LEMMA RunNextInv == RunInv /\ [Next]_vars => RunInv'
  <1> SUFFICES ASSUME RunInv, [Next]_vars PROVE RunInv'  OBVIOUS
  <1>1. ASSUME NEW t \in Tasks, ForkBranch(t) \/ ReuseBranch(t) PROVE RunInv'
    BY <1>1, PlacedInv DEF ForkBranch, ReuseBranch, NextToPlace, IsFirst
  <1>2. CASE RunStep
    BY <1>1, <1>2, MergeInv, ConflictInv, RunGoesOnInv DEF RunStep
  <1>3. CASE Environment
    BY <1>3, DisturbedInv, UserCommitInv DEF Environment
  <1> QED
    BY <1>2, <1>3, StartRunInv, ExecuteStepInv, AgentCommitsInv, RunStutterInv DEF Next

-----------------------------------------------------------------------------
(* Theorems *)

\* RunInv holds in every reachable state of any number of runs.
THEOREM RunInvariance == Spec => []RunInv
  BY RunInitInv, RunNextInv, PTL DEF Spec

\* The variables of a run keep their types, and git's rule is kept: no branch is
\* checked out in two worktrees.
THEOREM RunTypeCorrect == Spec => []TypeOK
  <1>1. RunInv => TypeOK
    BY DEF RunInv, RunTypes, GitTypes, TreesOK, TypeOK
  <1> QED  BY <1>1, RunInvariance, PTL

\* A run that reports merge_success has merged everything its agents committed.
THEOREM SuccessDelivers == Spec => []CommittedWorkIsDelivered
  <1>1. RunInv => CommittedWorkIsDelivered
    <2> SUFFICES ASSUME RunInv, success, phase \in {"validate", "cleanup"},
                        NEW b \in DOMAIN tip, NEW c \in tip[b], c.run = runNo
                 PROVE  c \in main
      BY DEF CommittedWorkIsDelivered
    <2> USE DEF RunInv
    <2>1. merged = Tasks /\ Current(c)  BY DEF PhaseOK, Current
    <2>2. b = Branch(c.task) /\ c.task \in merged  BY <2>1 DEF Work
    <2> QED  BY <2>2 DEF Delivered
  <1> QED  BY <1>1, RunInvariance, PTL

\* Agents that keep to files of their own produce branches that merge.
THEOREM OwnershipSuffices == Spec => []OwnershipPreventsConflicts
  BY RunInvariance, PTL DEF RunInv

\* What a merge brings in is of a completed task of this run, or of a reused branch.
THEOREM MergesAreAccountedFor == Spec => MergedWorkIsAccountedFor
  <1> DEFINE Accounted ==
        \A c \in main' \ main :
           \/ c.run = 0
           \/ c.run = runNo /\ status[c.task] = "completed"
           \/ c.task \in reused
  <1>1. ASSUME RunInv, [Next]_vars PROVE [Accounted]_vars
    <2> USE <1>1 DEF RunInv
    <2>1. ASSUME NEW t \in Tasks, Merge(t) PROVE Accounted
      <3> USE <2>1 DEF Merge, NextToMerge
      <3>1. Branch(t) \in DOMAIN tip /\ placed = Tasks  BY <2>1 DEF PhaseOK, Placement
      <3> SUFFICES ASSUME NEW c \in tip[Branch(t)] \ main, t \notin reused
                   PROVE  c.run = runNo /\ status[c.task] = "completed"
        <4>1. Branch(t)[1] = t  BY DEF Branch
        <4>2. \A c \in tip[Branch(t)] \ main : c.task = t  BY <3>1, <4>1 DEF Origin
        <4> QED  BY <2>1, <4>2
      <3>2. Current(c)  BY <3>1 DEF Forks
      <3> QED  BY <2>1, <3>1, <3>2 DEF Work, Current
    <2>2. CASE UserCommit  BY <2>2 DEF UserCommit
    <2>3. CASE main' = main  BY <2>3
    <2>4. \/ \E t \in Tasks : Merge(t)
          \/ UserCommit
          \/ main' = main
      BY <1>1 DEF Next, RunStep, Environment, StartRun, ForkBranch, ReuseBranch, Placed,
                  RefuseWorktree, Conflict, ExecutionReturns, MergingReturns, Validate,
                  RemoveTree, EndRun, ExecuteStep, AgentCommits, Interrupt, Crash, ForeignSweep,
                  runVars, vars
    <2> QED  BY <2>1, <2>2, <2>3, <2>4
  <1>2. RunInv /\ [Next]_vars => [Accounted]_vars  BY <1>1
  <1> QED  BY <1>2, RunInvariance, PTL DEF Spec, MergedWorkIsAccountedFor

\* No step of any run, crash or sweep takes a branch, or a commit from a branch.
THEOREM BranchesSurvive == Spec => CommittedWorkSurvives
  <1> DEFINE Kept == \A b \in DOMAIN tip : b \in DOMAIN tip' /\ tip[b] \subseteq tip'[b]
  <1>1. ASSUME RunInv, [Next]_vars PROVE [Kept]_vars
    <2>1. ASSUME NEW t \in Tasks, ForkBranch(t) PROVE Kept
      BY <2>1 DEF ForkBranch
    <2>2. ASSUME NEW t \in Tasks, AgentCommits(t) PROVE Kept
      <3>1. PICK X : tip' = [tip EXCEPT ![Branch(t)] = @ \cup X]
        BY <2>2 DEF AgentCommits
      <3> QED  BY <3>1
    <2>3. CASE tip' = tip  BY <2>3
    <2>4. \/ \E t \in Tasks : ForkBranch(t) \/ AgentCommits(t)
          \/ tip' = tip
      BY <1>1 DEF Next, RunStep, Environment, StartRun, ReuseBranch, UserCommit, Merge,
                  RefuseWorktree, Conflict, ExecutionReturns, MergingReturns, Validate,
                  RemoveTree, EndRun, ExecuteStep, Interrupt, Crash, ForeignSweep,
                  runVars, vars
    <2> QED  BY <2>1, <2>2, <2>3, <2>4
  <1>2. RunInv /\ [Next]_vars => [Kept]_vars  BY <1>1
  <1> QED  BY <1>2, RunInvariance, PTL DEF Spec, CommittedWorkSurvives
=============================================================================
