---------------------------- MODULE CommunityRun ----------------------------
(***************************************************************************)
(* CommunityOrchestrator.run, one run after another in one git project:    *)
(* plan, worktrees, execution (DagExecutor), merge, validation, cleanup.   *)
(*                                                                         *)
(* Git is modelled by what the code uses of it: a branch is the set of     *)
(* commits reachable from it, a commit is who made it and the files it     *)
(* touches, a branch is checked out in at most one worktree, and a merge   *)
(* may conflict when both sides touched a file since they diverged.        *)
(* Branches outlive a run; so does a worktree when the run crashes.        *)
(* The project's own working tree is clean: git refuses no merge for       *)
(* uncommitted changes.                                                    *)
(***************************************************************************)
EXTENDS DagExecutor

CONSTANTS Titles,         \* what the planner may call the tasks
          Files,          \* paths in the project
          ClaimChoices,   \* files_creates + files_modifies a plan may assign
          AgentsObey,     \* agents touch only the files of their own task
          MaxRuns, MaxCrashes, MaxSweeps, MaxUserCommits   \* bounds

ASSUME RunAssumption == /\ Tasks \subseteq Nat \ {0}    \* position in the plan
                        /\ ClaimChoices \subseteq [Tasks -> SUBSET Files]
                        /\ AgentsObey \in BOOLEAN
                        /\ {MaxRuns, MaxCrashes, MaxSweeps, MaxUserCommits} \subseteq Nat

VARIABLES phase,      \* where CommunityOrchestrator.run is
          runNo,      \* which run of the project this is
          title,      \* SubTask.title, part of every branch name of the plan
          claims,     \* claims[t]: SubTask.all_files
          placed,     \* tasks whose worktree_path is set
          merged, conflicts,    \* branches handled by merge_branches so far
          success, verdict,     \* merge_success, validation_passed
          main, tip, trees,     \* git: current branch, other branches, worktrees
          reused,     \* history: tasks put on a branch that existed already
          crashed,    \* history: the previous run died before its cleanup
          crashes, sweeps

planVars  == <<runNo, title, claims>>
mergeVars == <<merged, conflicts, success, verdict>>
envVars   == <<crashed, crashes, sweeps>>
runVars   == <<phase, planVars, placed, mergeVars, main, tip, trees, reused, envVars>>
vars      == <<dagVars, runVars>>

Commits  == [run : 0 .. MaxRuns, task : Tasks \cup {0}, files : SUBSET Files]
Branches == Tasks \X Titles
Phases   == {"idle", "trees", "exec", "merge", "validate", "cleanup"}

Branch(t) == <<t, title>>       \* community/task-<i>-<title>
CheckedOut(b) == \E w \in trees : w.branch = b
\* Tasks are numbered in plan order.
IsFirst(t, S) == t \in S /\ \A u \in S : t <= u
Tree(t) == [run |-> runNo, task |-> t, branch |-> Branch(t)]

-----------------------------------------------------------------------------
(* Phases 1 and 2: decompose, check ownership, route *)

\* Faulty variant: the ownership check is skipped.
NoOverlap == FALSE
Overlap == \E t, u \in Tasks : t # u /\ claims[t] \cap claims[u] # {}

\* The planner finds the task unsuitable, no agent can be routed to, or the run
\* is a dry run: it goes straight to the finally block, and so does a plan in
\* which two tasks claim one file.
StartRun == /\ phase = "idle"
            /\ runNo < MaxRuns
            /\ runNo' = runNo + 1
            /\ title' \in Titles
            /\ claims' \in ClaimChoices
            /\ deps' \in Plans
            /\ status' = [t \in Tasks |-> "planned"]
            /\ run' = [t \in Tasks |-> "idle"]
            /\ permits' = MaxConcurrent /\ pc' = "loop"
            /\ placed' = {} /\ reused' = {}
            /\ merged' = {} /\ conflicts' = {}
            /\ success' = FALSE /\ verdict' = "none"
            /\ \/ phase' = "cleanup"
               \/ phase' = "trees" /\ ~Overlap'
            /\ UNCHANGED <<main, tip, trees, envVars>>

-----------------------------------------------------------------------------
(* Phase 3: WorktreeManager.create_worktree for each task, in plan order *)

NextToPlace(t) == /\ phase = "trees"
                  /\ IsFirst(t, Tasks \ placed)

Placed(t) == /\ trees' = trees \cup {Tree(t)}
             /\ placed' = placed \cup {t}
             /\ phase' = IF placed' = Tasks THEN "exec" ELSE "trees"
             /\ UNCHANGED <<dagVars, planVars, mergeVars, main, envVars>>

\* git worktree add -b <branch> <path> HEAD
ForkBranch(t) == /\ NextToPlace(t)
                 /\ Branch(t) \notin DOMAIN tip
                 /\ tip' = [b \in DOMAIN tip \cup {Branch(t)} |->
                             IF b = Branch(t) THEN main ELSE tip[b]]
                 /\ Placed(t)
                 /\ UNCHANGED reused

\* -b fails for an existing branch: git worktree add <path> <branch>
\* Faulty variant: git worktree add --force.
ReuseByForce(t) == /\ NextToPlace(t)
                   /\ Branch(t) \in DOMAIN tip
                   /\ reused' = reused \cup {t}
                   /\ Placed(t)
                   /\ UNCHANGED tip
ReuseBranch(t) == /\ NextToPlace(t)
                  /\ Branch(t) \in DOMAIN tip
                  /\ ~CheckedOut(Branch(t))
                  /\ reused' = reused \cup {t}
                  /\ Placed(t)
                  /\ UNCHANGED tip

\* git refuses a branch that another worktree has checked out: WorktreeError.
RefuseWorktree(t) == /\ NextToPlace(t)
                     /\ CheckedOut(Branch(t))
                     /\ status' = [status EXCEPT ![t] = "failed"]
                     /\ phase' = "cleanup"
                     /\ UNCHANGED <<deps, run, permits, pc, planVars, placed, mergeVars,
                                    main, tip, trees, reused, envVars>>

-----------------------------------------------------------------------------
(* Phase 4: execution, and what the agents do to their branches *)

ExecuteStep == /\ phase = "exec"
               /\ DagNext
               /\ UNCHANGED runVars

\* An agent commits in its worktree: at most one commit per task and run.
AgentCommits(t) == /\ phase = "exec"
                   /\ run[t] = "agent"
                   /\ Tree(t) \in trees
                   /\ \A c \in tip[Branch(t)] : ~(c.run = runNo /\ c.task = t)
                   /\ \E F \in SUBSET (IF AgentsObey THEN claims[t] ELSE Files) \ {{}} :
                        tip' = [tip EXCEPT ![Branch(t)] =
                                  @ \cup {[run |-> runNo, task |-> t, files |-> F]}]
                   /\ UNCHANGED <<dagVars, phase, planVars, placed, mergeVars, main, trees,
                                  reused, envVars>>

\* Faulty variant: the failures are not looked at.
MergeAnyway == /\ phase = "exec"
               /\ pc = "returned"
               /\ phase' = "merge"
               /\ UNCHANGED <<dagVars, planVars, placed, mergeVars, main, tip, trees, reused,
                              envVars>>
ExecutionReturns == /\ phase = "exec"
                    /\ pc = "returned"
                    /\ phase' = IF HasFailures THEN "cleanup" ELSE "merge"
                    /\ UNCHANGED <<dagVars, planVars, placed, mergeVars, main, tip, trees,
                                   reused, envVars>>

-----------------------------------------------------------------------------
(* Phases 5 and 6: BranchMerger.merge_branches, validate_merge *)

\* git merge may find both sides of the merge in one file.
MayConflict(b) == \E c \in tip[b] \ main, d \in main \ tip[b] : c.files \cap d.files # {}

NextToMerge(t) == /\ phase = "merge"
                  /\ IsFirst(t, Tasks \ (merged \cup conflicts))

Merge(t) == /\ NextToMerge(t)
            /\ main' = main \cup tip[Branch(t)]
            /\ merged' = merged \cup {t}
            /\ UNCHANGED <<dagVars, phase, planVars, placed, conflicts, success, verdict, tip,
                           trees, reused, envVars>>

\* The merge is aborted, and the loop goes on with the next branch.
Conflict(t) == /\ NextToMerge(t)
               /\ MayConflict(Branch(t))
               /\ conflicts' = conflicts \cup {t}
               /\ UNCHANGED <<dagVars, phase, planVars, placed, merged, success, verdict, main,
                              tip, trees, reused, envVars>>

\* Faulty variant: the run succeeds as soon as one branch is merged.
MergingReturnsAny == /\ phase = "merge"
                     /\ merged # {} \/ conflicts = Tasks
                     /\ success' = (merged # {})
                     /\ \/ phase' = "cleanup"
                        \/ phase' = "validate" /\ success'
                     /\ UNCHANGED <<dagVars, planVars, placed, merged, conflicts, verdict, main,
                                    tip, trees, reused, envVars>>
MergingReturns == /\ phase = "merge"
                  /\ merged \cup conflicts = Tasks
                  /\ success' = (conflicts = {})
                  /\ \/ phase' = "cleanup"                  \* conflicts, or skip_validation
                     \/ phase' = "validate" /\ success'
                  /\ UNCHANGED <<dagVars, planVars, placed, merged, conflicts, verdict, main,
                                 tip, trees, reused, envVars>>

\* The test command passes, fails, or outlives its timeout (an exception that
\* run() catches: validation_passed stays None).
Validate == /\ phase = "validate"
            /\ verdict' \in {"passed", "failed", "none"}
            /\ phase' = "cleanup"
            /\ UNCHANGED <<dagVars, planVars, placed, merged, conflicts, success, main, tip,
                           trees, reused, envVars>>

-----------------------------------------------------------------------------
(* The finally block: WorktreeManager.cleanup_all *)

\* Faulty variant: the branch goes with its worktree.
RemoveTreeAndBranch(w) == /\ phase = "cleanup"
                          /\ trees' = trees \ {w}
                          /\ tip' = [b \in DOMAIN tip \ {w.branch} |-> tip[b]]
                          /\ UNCHANGED <<dagVars, phase, planVars, placed, mergeVars, main,
                                         reused, envVars>>
\* git worktree remove --force (or rmtree and prune): the branch stays.
RemoveTree(w) == /\ phase = "cleanup"
                 /\ trees' = trees \ {w}
                 /\ UNCHANGED <<dagVars, phase, planVars, placed, mergeVars, main, tip, reused,
                                envVars>>

EndRun == /\ phase = "cleanup"
          /\ trees = {}
          /\ phase' = "idle"
          /\ crashed' = FALSE
          /\ UNCHANGED <<dagVars, planVars, placed, mergeVars, main, tip, trees, reused,
                         crashes, sweeps>>

-----------------------------------------------------------------------------
(* What can happen to a run *)

\* The coroutines of execute_plan are gone; what they had written stays.
StopExecution == /\ pc' = "returned"
                 /\ run' = [t \in Tasks |-> IF run[t] \in Outcomes THEN run[t] ELSE "idle"]
                 /\ permits' = MaxConcurrent
                 /\ UNCHANGED <<deps, status>>

\* Ctrl-C: the run is cancelled and its finally block runs.
Interrupt == /\ phase = "exec"
             /\ pc # "returned"
             /\ StopExecution
             /\ phase' = "cleanup"
             /\ UNCHANGED <<planVars, placed, mergeVars, main, tip, trees, reused, envVars>>

\* The process dies without running its finally block.
Crash == /\ phase # "idle"
         /\ crashes < MaxCrashes
         /\ crashes' = crashes + 1
         /\ crashed' = TRUE
         /\ phase' = "idle"
         /\ StopExecution
         /\ UNCHANGED <<planVars, placed, mergeVars, main, tip, trees, reused, sweeps>>

\* `community cleanup`, or the finally block of a run in another terminal,
\* removes every community worktree of the project.
ForeignSweep == /\ sweeps < MaxSweeps
                /\ trees # {}
                /\ trees' = {}
                /\ sweeps' = sweeps + 1
                /\ UNCHANGED <<dagVars, phase, planVars, placed, mergeVars, main, tip, reused,
                               crashed, crashes>>

\* The user commits to the current branch while the agents work.
UserCommit == /\ Cardinality({c \in main : c.run = 0}) < MaxUserCommits
              /\ \E F \in SUBSET Files \ {{}} :
                   main' = main \cup {[run |-> 0, task |-> 0, files |-> F]}
              /\ UNCHANGED <<dagVars, phase, planVars, placed, mergeVars, tip, trees, reused,
                             envVars>>

-----------------------------------------------------------------------------
Init == /\ DagInit
        /\ phase = "idle" /\ runNo = 0
        /\ title \in Titles /\ claims \in ClaimChoices
        /\ placed = {} /\ reused = {}
        /\ merged = {} /\ conflicts = {}
        /\ success = FALSE /\ verdict = "none"
        /\ main = {} /\ tip = << >> /\ trees = {}
        /\ crashed = FALSE /\ crashes = 0 /\ sweeps = 0

RunStep == \/ \E t \in Tasks : \/ ForkBranch(t) \/ ReuseBranch(t) \/ RefuseWorktree(t)
                               \/ Merge(t) \/ Conflict(t)
           \/ ExecutionReturns \/ MergingReturns \/ Validate
           \/ \E w \in trees : RemoveTree(w)
           \/ EndRun

Environment == Interrupt \/ Crash \/ ForeignSweep \/ UserCommit

Next == \/ StartRun
        \/ RunStep
        \/ ExecuteStep
        \/ \E t \in Tasks : AgentCommits(t)
        \/ Environment

Spec == Init /\ [][Next]_vars

\* run() is straight-line code that goes on by itself; execution goes on as
\* DagExecutor says, pipes of killed agents included.
FairSpec == /\ Spec
            /\ WF_vars(RunStep)
            /\ WF_vars(phase = "exec" /\ LoopStep /\ UNCHANGED runVars)
            /\ \A t \in Tasks :
                 /\ WF_vars(phase = "exec" /\ Acquire(t) /\ UNCHANGED runVars)
                 /\ WF_vars(phase = "exec" /\ Timeout(t) /\ UNCHANGED runVars)
                 /\ WF_vars(phase = "exec" /\ Reap(t) /\ UNCHANGED runVars)

-----------------------------------------------------------------------------
(* Properties *)

\* Every variable keeps its type; a branch name is in one worktree at most.
TypeOK == /\ DagTypeOK
          /\ phase \in Phases /\ runNo \in 0 .. MaxRuns
          /\ title \in Titles /\ claims \in ClaimChoices
          /\ {placed, reused, merged, conflicts} \subseteq SUBSET Tasks
          /\ success \in BOOLEAN /\ verdict \in {"none", "passed", "failed"}
          /\ main \subseteq Commits
          /\ DOMAIN tip \subseteq Branches
          /\ \A b \in DOMAIN tip : tip[b] \subseteq Commits
          /\ trees \subseteq [run : 1 .. MaxRuns, task : Tasks, branch : Branches]
          /\ \A v, w \in trees : v.branch = w.branch => v = w
          /\ crashed \in BOOLEAN /\ crashes \in 0 .. MaxCrashes /\ sweeps \in 0 .. MaxSweeps

\* What a merge brings into the project is either work of a task that this run
\* completed, or was already on a branch that create_worktree found and reused:
\* no failed, interrupted or crashed execution is merged by its own run.
MergedWorkIsAccountedFor ==
    [][\A c \in main' \ main : \/ c.run = 0
                               \/ c.run = runNo /\ status[c.task] = "completed"
                               \/ c.task \in reused]_vars

\* A run that reports merge_success has put into the project everything its
\* agents committed, even when another process swept the worktrees meanwhile.
CommittedWorkIsDelivered ==
    success /\ phase \in {"validate", "cleanup"} =>
        \A b \in DOMAIN tip : \A c \in tip[b] : c.run = runNo => c \in main

\* Disjoint file ownership is what keeps the branches of one plan mergeable: if
\* agents keep to their files, a conflict needs a reused branch or a commit of
\* the user.
OwnershipPreventsConflicts ==
    AgentsObey /\ conflicts # {} => reused # {} \/ \E c \in main : c.run = 0

\* Branches are never lost: committed work stays reachable from its branch.
CommittedWorkSurvives ==
    [][\A b \in DOMAIN tip : b \in DOMAIN tip' /\ tip[b] \subseteq tip'[b]]_vars

\* Every run ends, in its finally block or by a crash.
RunsEnd == phase # "idle" ~> phase = "idle"

\* The docstring of create_worktree, "Create a new git worktree on a fresh
\* branch": what a run merges is its own work, whatever earlier runs left.
BranchesAreFresh == [][\A c \in main' \ main : c.run \in {0, runNo}]_vars

=============================================================================
