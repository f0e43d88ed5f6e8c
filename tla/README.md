# Formal models of multiagent-handoff

TLA+ modules, TLC configurations and TLAPS proofs for the program under `src/`. Each definition
is written from the Python source; `PROJECT.json` maps it to the lines it stands for.
Paths below are relative to `src/src/`.

## 1. The system

Three packages that share no process and meet in files, git and storage backends.

**agent_community** — `community run "<goal>"` splits a goal into sub-tasks, runs one coding agent
(Claude Code or Codex CLI) per sub-task in its own git worktree, merges the branches, validates
and removes the worktrees.

| part | state | operations | hard part | correct means |
|---|---|---|---|---|
| `planner/decomposer.py` | none | ask a model for tasks, resolve dependencies by index | dependencies are not checked for cycles; the list is cut | the executor gets the order the model asked for, among the tasks that are kept |
| `models.py` TaskPlan | status and dependencies per task | ready tasks, all completed, failures, file ownership | stale status while a wave runs | readiness only after all dependencies |
| `planner/dag.py`, `executor/process_pool.py`, `executor/base_runner.py` | wave under way, semaphore permits, processes | run waves, take a permit, spawn, time out, kill, reap | interleaving of coroutines, exceptions, timeouts | order, no lost permit, no stray agent, failures isolated, returns |
| `orchestrator.py`, `executor/worktree_mgr.py`, `merger/branch_merger.py` | phase of the run, worktrees, branches, the project's current branch | create worktrees, execute, merge, validate, clean up | crashes, Ctrl-C, a second terminal, old branches, conflicts | only completed work is merged, and nothing committed is lost |
| `router/agent_registry.py` | agent profiles, shared by the process | score the agents for a task, choose | one orchestrator disables agents for the others | the agent with the keywords gets the task, and only one that is allowed |
| `cli.py`, `observer/cost_tracker.py` | totals | parse, print, sum | — | — |

**handoff** — builds, stores and delivers context packages between agents.

| part | state | operations | hard part | correct means |
|---|---|---|---|---|
| `orchestrator/orchestrator.py` | audit log; packages under way | initiate (sanitize, expire, save, select, inject), cleanup_expired | awaits between steps; retries by the monitor; lost answers | a stored package is there until it expires, and is injected alive |
| `orchestrator/store.py`, `redis_store.py`, `postgres_store.py`, `s3_store.py` | packages by id | save, load, delete, list_expired | four notions of expiry | load never answers with an expired package |
| `orchestrator/selector.py`, `injector.py` | loads as the caller knew them | choose a target; build prompt, history and variables | loads are read before a handoff and counted after it; shared values | an agent is overloaded by overlapping calls at most; what is injected is what was stored |
| `monitor.py` | token counts per agent | trigger a handoff over a threshold, call back | triggers again and again; calls back after failures | an agent over the limit gets its task stored |
| `summarizer/llm_summarizer.py` | none | progress summary by a model, or by rules | a client that fails, or answers anything, or a part of what is asked | the target is told of the progress |
| `models/*` | — | whitelist, expiry, copies | nested values stay shared | nothing is dropped unnoticed |
| `serialization/*`, `crypto.py`, `migrations.py` | none | conversions | — | — |
| `api/`, `mcp_adapter/`, `a2a_adapter/`, `framework_adapter/` | none | translate requests and formats | — | — |

**handoff_relay** — hands a coding session over between Claude Code and Codex on one machine.

| part | state | operations | hard part | correct means |
|---|---|---|---|---|
| `storage/local_store.py` | one JSON file per package, a SQLite index with an audit log | save, load, delete, cleanup_expired, list | several processes, crash between file and row, rollback after unlink, lock timeout | what is listed can be loaded; removals are audited; expired packages go |
| `service.py`, `cli.py`, `_utils.py` | marker file, shell hook, tmux pane | create, inject, switch, clean up | marker read and unlinked in two steps; terminals in parallel | the other agent is started once, with its context in place |
| `adapters/claude_code.py`, `adapters/codex.py` | handoff block in CLAUDE.md / AGENTS.md | inject, remove | read-change-write without a lock, creation after a look, two writers of one file | the block of the switch is there; at most one, unless writers meet; the user's text untouched |
| `adapters/session_parser.py` | none (files of other programs) | find the newest session, read it, make a snapshot | three formats, files being written, a newest file that changes | the last word of each side, and the first task, get into the package |

How they interact: the community orchestrator calls `execute_plan`, which calls the pool, which
calls a runner per task (calls and awaits in one event loop; processes outside it). Runs meet
through git (branches and worktrees survive a crash). The handoff orchestrator calls a store and
an injector; stores are shared by servers. The relay's processes share the local store, the
marker file and the project's context files, with SQLite's lock as the only synchronization.

The hazards are listed one by one, with their lines and the properties that watch them, under
`hazards` in `PROJECT.json`.

## 2. Modules

| module | models | how state and actions correspond |
|---|---|---|
| `TaskGraph` | the promise of `DAGExecutor` | one state per task; tasks start when their dependencies are done; the rest is given up only when nothing runs and something failed |
| `DagExecutor` | `dag.py`, `process_pool.py`, `base_runner.py`, `TaskPlan` | `pc` is where `execute_plan` is; `status` is `SubTask.status`; `run[t]` is where the coroutine of `t` is; `permits` is the semaphore. `StartWave` … `GiveUp` are the branches of the loop, `Raise` … `Reap` the awaits of one coroutine |
| `CommunityRun` | `orchestrator.py`, `worktree_mgr.py`, `branch_merger.py` | extends `DagExecutor`; `phase` is the point of `run()`; `main`, `tip`, `trees` are git; crash, Ctrl-C, a sweep from another terminal and a user's commit are actions |
| `PackageLease` | the promise of `HandoffStore` | a package stays until it is due, may go afterwards, and may be saved anew |
| `HandoffService` | `handoff/orchestrator/*`, the MCP server's resume prompt | `call[c]` is where one `initiate` is, `sweep[s]` one `cleanup_expired`, `reader` one `handoff_resume_prompt`; `stored` is what the backend holds; `backend` is which of the four the deployment has; `busy` holds the event loop for the store that never suspends |
| `Delivery` | `monitor.py`, `orchestrator.py`, `selector.py`, `injector.py`, `models/package.py`, `models/security.py` | a run is one agent's part in a task, with versions of its variables; `call[c]` is one `check_and_trigger`, suspended while the package is saved; `Check` is all up to the save, `Finish` all after it; a save that fails may have stored the package (`SaveFails`) |
| `Planning` | `decomposer.py`, `models.py`, `agent_registry.py`, `orchestrator.py` before the first agent, `community plan` | an answer of the planner is a sequence of raw tasks; `Decide` parses, checks ownership and routes; `enabled` is the availability in the shared profiles |
| `Capture` | `session_parser.py`, `create_package` of both adapters and of the service, `detect_current_agent` | a session is what was said, with the label and the form each message has in the file; `StartWrite` … `EndWrite` are the agents, `Begin` or `Detect`, `Find` and `Read` one call |
| `Briefing` | `llm_summarizer.py`, `PromptBasedInjector` | a conversation, a summary by the model, which fills the fields that its answer names, or by rules, the history and the prompt made of it |
| `FrontEnds` | — | `Planning`, `Capture` and `Briefing` side by side; `side` says which of the three a behaviour is about |
| `LocalStore` | `handoff_relay/storage/local_store.py` | `file`, `row`, `logged` are the directory, the index and the audit table; `lock` is SQLite's write lock; `proc[p]` is where one process is |
| `SwitchRelay` | `handoff_relay/service.py`, `cli.py`, `_utils.py`, `adapters/*` | `at[t]` is what a terminal is at (agent, prompt, in the hook), `sw[t]` where the switch command run in it is; `marker` is `~/.handoff/switch_cmd`, `text[a]` the instruction file of an agent. `files` says which of them exist. Every write is a truncation and a text, which goes over the beginning of what another writer has put there meanwhile; a missing file is created in steps of its own (`Miss`, `CreateOpen`, `CreateWrite`); the hook is a test, a read, and a removal with the evaluation |
| `DagExecutorProofs`, `HandoffServiceProofs`, `DeliveryProofs`, `LocalStoreProofs`, `SwitchRelayProofs`, `CommunityRunProofs`, `PlanningProofs`, `FrontEndsProofs` | — | theorems about the module each is named after |
| `MC*` | — | constants for TLC |

`CommunityRun` composes `DagExecutor` (by EXTENDS, so its steps are steps of the run).
`Planning`, `Capture` and `Briefing` share nothing and are joined, side by side, in `FrontEnds`: a
behaviour of that module is one of one of them. `DagExecutor` implements `TaskGraph`,
`HandoffService` over the in-memory store implements `PackageLease`: both are checked as PROPERTY
of a run, and both are proved.

What is abstracted: prompts, output, costs and durations; the contents of packages; the text of
names. A commit is who made it and the files it touches; time is a clock of ticks; a file of the
store is absent, partial or whole. A text of a session or of a conversation is the place where it was
said, and what a parser or a summarizer keeps is a function on the places kept, since only their order
is read afterwards. The order of a plan is the least transitive relation that holds its
dependencies (`Closure`).

Operators whose comment says "Faulty variant" are plausible bugs; no specification uses them. Each
is listed in `PROJECT.json` under `mutants`: substituted for the definition it varies, the property
named there fails, which shows that the property says something about the code.

## 3. Runs

Passing:

| run | shows | bounds |
|---|---|---|
| `dag` | permits, no stray agent, every task of an acyclic plan decided, refinement of `TaskGraph` (from which order and isolation of failures follow), and that `execute_plan` returns | every graph (cyclic ones included) over 4 tasks, 2 permits |
| `community_run` | what is merged, reported and left over; every run ends | 2 tasks, 2 runs, 1 crash, 1 sweep from another terminal, 1 commit of the user |
| `service` | what is pending stays, what is injected or read out is alive, Redis overstays by no more than the delay of a request, expired packages go, refinement of `PackageLease` | each of the four stores, 2 calls for one package, 1 sweeper, 1 reader, lost requests and answers, 2 ticks a second, 5 instants |
| `delivery` | repeated triggers: how far a target is overloaded, what hops drop, what is injected, what the audit log says, and that a breach ends in a stored package | 2 agents, 2 calls at a time, 4 runs, 1 write, 1 failed save (stored or not); the first hop is without a whitelist and makes one for the later ones |
| `front_ends` | plans, packages and briefings made of what a model or an agent wrote | 2 orchestrators, all graphs over 3 tasks of which 2 are kept; 4 sessions of 3 agents, 3 writes, 1 capture; 5 messages of which 3 are kept |
| `store` | listed packages load, orphans come from abandoned saves only, removals are audited, expired packages leave | 2 processes, 2 packages, interleaved at every file and SQL step, 1 crash |
| `switch` | what a started agent finds, what stays of the instruction file, the marker goes | 2 shells (none, one or both in tmux), 2 switches to an agent with an instruction file, missing at first or not, or to one with a brief, 1 interrupt, 1 edit |

The bounds are small and yet contain the interesting cases: four tasks are enough for a chain
beside a fork, two permits and three ready tasks for a queue, one crash between any two steps, a
second run that meets the remains of the first, two calls for one id beside a sweep, two ticks a
second for the truncated TTL, a removal between the steps of a load, a save that
has stored its package and fails, after which the task is handed off again, and two switches that meet in
one file or in the marker, with a second shell at its prompt: that is enough for two blocks in one file,
for a block that a header wipes out and for a line of the user that is lost.

Of a graph over three tasks with two kept, every dependency is kept, cut, out of range or leads through
a cut task. Three writes are enough for a word of each side and one under way, or for a session that
is overtaken; a conversation of five for a history that is below, at and beyond its limit.

Expected violations — where the program differs from what its text says:

| run | text | what happens |
|---|---|---|
| `dag_stall` | `planner/dag.py:73` "No ready tasks and no failures — shouldn't happen" | the decomposer keeps cyclic and self dependencies; the branch is taken, the tasks stay planned, and the run merges and reports as if it had finished |
| `run_stale` | `executor/worktree_mgr.py:46` "on a fresh branch" | a branch of an earlier failed run is checked out, and the commits of that run are merged |
| `service_race` | `orchestrator.py:223` "Remove all expired packages" | a package saved anew between listing and deletion is deleted alive |
| `store_race` | `local_store.py:135` "Returns None if …" | the file goes between the check and `open`; `load` raises |
| `switch_elsewhere` | `cli.py:319` "Your shell will automatically exec …" | the marker belongs to no terminal: the next prompt of any shell runs it |

Deadlock is not checked: a plan that has returned, the last of `MaxRuns` runs and a clock at
`MaxTime`, a bound on writes or runs have nothing left to do. That the program goes on where it should is checked by the
liveness properties.

The properties of `HandoffService`, `CommunityRun`, `Delivery` and `SwitchRelay` that allow for exceptions name
them by history variables, which no action reads:

* `overtaken`: a save that lands while a cleanup already holds its id.
* `unanswered`: a run whose package a save has stored and failed.
* `superseded`: a handoff that another injection has wiped out.
* `torn`: a file left without a handoff by a switch that died over it, or that has taken it for
  missing and created it anew.
* `mixed`: a file in which a switch has written over the finished handoff of another one, when both
  were past the truncation. The end of the other text may stay, with a second block in it.
* `atRisk`: a line that was added while a switch held the text or was about to create the file, or that
  a second switch or an interrupt met between truncation and writing.

## 4. Fairness

* `DagExecutor`: the event loop resumes each coroutine that can go on (WF on the loop's steps,
  `Acquire` and `Timeout`). No agent is assumed to end by itself. That the pipes of a killed agent
  close (`PipesClose`) is an assumption of its own: `PlanReturns` needs it, since the second
  `communicate()` after the kill has no limit.
* `CommunityRun`: `run()` is straight-line code (WF); nothing makes a crash, an interrupt or a
  commit happen.
* `HandoffService`: WF on every continuation of a call; `cleanup_expired` is called again and
  again, and SF on its deletions says that a backend does not fail each of them.
* `Delivery`: agents report their tokens (WF), each agent's call of `check_and_trigger` is made again
  and again (SF on `Check`, since another agent's call may be under way), a save returns or fails (WF).
  Saves fail at most `MaxFailures` times. What a breach leads to is only claimed below the bound on runs.
* `LocalStore`: WF on the steps of an operation under way; SF on the start of a cleanup, which is a
  command run from a timer or by the user, in a process of its own.
* `SwitchRelay`: WF on the steps of a switch and of the hook, and on the user's leaving an agent and
  coming back to a prompt, which is what the command asks for ("Exit the current agent").

## 5. Proofs

`DagExecutorProofs` proves, for every set of tasks, every set of graphs and every pool size
(`DagAssumption`: finitely many tasks, dependencies among the tasks, at least one permit):

| theorem | property |
|---|---|
| `TypeCorrect` | `DagTypeOK` |
| `PermitsAreConserved` | `PermitsConserved` |
| `DependenciesComeFirst` | `DependenciesFirst` |
| `NothingIsLeftRunning` | `NoStrayAgents` |
| `OutcomesAreRecorded` | `OutcomesRecorded` |
| `FailuresAreIsolated` | `OnlyBlockedTasksAreSkipped` |
| `AcyclicPlansDecided` | `AcyclicPlansAreDecided` |
| `TasksSettleForGood` | `SettledForGood` |
| `Refinement` | `ImplementsTaskGraph` |

The plan and the coroutines are written by different code at different times, so none of the
properties is inductive. `IInv` adds what ties them together: `Agreement` (a planned task has an
idle coroutine, a completed one a coroutine that returned success, a failed one an error or
nothing at all) and `WavesInGather` (tasks run only while the loop waits in `gather()`). Permits
are counted by `TaskStepKeepsPermits`, with the cardinality facts of the library.
`AcyclicPlansProgress` is the graph argument: in an acyclic plan without failures some task that is
left has all its dependencies completed, so the deadlock branch is out of reach.
`Refinement` maps a wave to one `Start`, the end of a coroutine to a `Finish`, the write-back of a
wave to a stutter and the marking of blocked tasks to `Abandon`.

`DependenciesFirst`, `OutcomesRecorded`, `OnlyBlockedTasksAreSkipped` and `SettledForGood` are in no
run of their own, since they are proved for all plans.

`HandoffServiceProofs` proves, for every set of calls, sweepers and packages, every lifetime and
every resolution of the clock (`ServiceAssumption`: lifetimes and instants are whole numbers of
ticks, and calls, sweepers, "nobody" and "no package" are told apart):

| theorem | property |
|---|---|
| `TypeCorrect` | `TypeOK` |
| `OverstayIsBounded` | `OverstaysOnlyByDelay` |
| `PendingStays` | `PendingIsKept` |
| `OnlyLivePackagesResume` | `ResumedAlive` |
| `Refinement` | `ImplementsLease` |

`PendingIsKept` speaks of a package that is there; to keep it, one has to know why one that is *not*
there has gone. `IInv` says so: an id whose save has landed and that is absent has expired or was
overtaken by a cleanup (`Gone`); the ids a cleanup still holds were saved, and are expired or
overtaken (`Swept`); what is stored is what the last save brought (`Entries`); and over the store
that never suspends no cleanup is ever overtaken (`Undisturbed`), which is the reason the
refinement holds for that store. `Timing` keeps the truncated TTL of a SETEX under way within a
second of the expiry (`WholeSeconds`, a lemma on division). The refinement maps the landing of a
save to `Save` of the lease, the clock, which ends leases, to `TimePasses`, and every other step,
deletions included, to a stutter: `load` has not answered with a deleted package since it expired.

`DeliveryProofs` proves, for every pool of agents, every set of calls and variables, every first
run and every bound (`DeliveryAssumption`: no agent twice in the pool, finitely many calls and at
least one, first runs without a parent):

| theorem | property |
|---|---|
| `TypeCorrect` | `TypeOK` (in no run) |
| `NothingDropsUnseen` | `DropsAreRecorded` |
| `WhatIsStoredIsResumed` | `InjectedIsStored` (both directions of what the audit log says, the second up to lost answers) |
| `OverloadStaysBounded` | `OverloadIsBounded` |

A run is related to the one before it (`Lineage`) only through a package, which exists between the
check that sanitized it and the injection, while other runs write their variables: `Carried` says of
a package on its way what `Lineage` will say of the run it becomes. `Room` counts the runs that
calls under way may still start, so that no sequence grows beyond its bound. `Overload` counts a
call that has read of an agent with room for one more (`MayGive`) as if it had given it one more:
only a check makes such a call, and only while there is room, so the sum of load and such calls
stays below the limit plus the number of calls.

`LocalStoreProofs` proves, for every set of packages and processes, every choice of operations and
any number of crashes (`StoreAssumption`):

| theorem | property |
|---|---|
| `TypeCorrect` | `TypeOK` |
| `ListedLoads` | `ListedIsLoadable` |
| `OrphansComeFromSaves` | `OrphansAreAbandonedSaves` |
| `RemovalsLeaveATrace` | `RemovalsAreAudited` |

The store has one lock, SQLite's, held from the first removal of a row in a cleanup to its commit;
files are written and unlinked without it. What makes it right all the same is that an id is saved once (ids are fresh UUIDs): `Sound(p)` lists what
process `p` has learnt of the ids it works on (the row is gone or expired, the file is unlinked,
delete was asked for), and `OthersStaySound` shows that no step of another process makes it untrue.
A store that saved an id twice would need a lock over file and row.

`SwitchRelayProofs` proves, for every finite set of shells, every set of agents, and any number of
switches, edits and interrupts (`RelayAssumption`):

| theorem | property |
|---|---|
| `TypeCorrect` | `TypeOK` |
| `OneHandoff` | `OneHandoffPerFile` |
| `AgentsFindTheirHandoff` | `BootsWithContext` |
| `LinesOutliveSwitches` | `UserTextKept` |

No step of a switch is atomic, and a switch that has read a file may write its copy over what another
has put there meanwhile. As long as none has written over a block (`mixed`), `Blocks` says that a copy
has no block at all, so that the one appended to it is the only one, and that what stays behind it has none.
`Landed` follows a package to the launch of its agent: its block has reached the
file as soon as the switch is past the injection, and whoever holds the package later, be it the
marker or a shell that has read the marker, launches only such a package; a block that is truncated away,
cut or taken for a missing file is in `superseded` from that step on. `AtHome` follows a line: it is in
its file, or the file is being written, it is in every copy that has been read from there, and no
switch takes the file for missing. Each
package makes at most one marker file (`Markers`), which bounds the inodes. The lemmas on `Ids` (what
appending a block, removing one or writing over the beginning does to the parts of a file)
are proved for sequences of any length.

`CommunityRunProofs` proves, for every set of tasks, titles, files, plans and claims, and any number of
runs, crashes, sweeps and user's commits (`RunAssumption`):

| theorem | property |
|---|---|
| `RunTypeCorrect` | `TypeOK` |
| `SuccessDelivers` | `CommittedWorkIsDelivered` |
| `OwnershipSuffices` | `OwnershipPreventsConflicts` |
| `MergesAreAccountedFor` | `MergedWorkIsAccountedFor` |
| `BranchesSurvive` | `CommittedWorkSurvives` |

It extends `DagExecutorProofs`: `PhaseOK` contains the executor's `IInv` while the plan is executed, and
`StartedIsCompleted` takes from it that a plan without failures has completed whatever it has started
(the deadlock branch leaves tasks planned that never ran, and they have committed nothing). The rest
of `RunInv` says where a commit may come from: what a branch has and the project has not is by the
branch's task (`Origin`), and of this run unless the branch was reused (`Forks`); a commit of this run
lies on its own branch and within its task's claims (`Work`); what the project has and a fresh branch
has not is of this run (`Bases`). `ConflictHasACause` puts them together: a conflict needs
a file that both sides have changed since the fork, and under disjoint claims no two
tasks of this run have one.

`PlanningProofs` proves, for answers of any length, any lists of agents, files and allowed agents, and any
number of orchestrators in one process (`PlanningAssumption`: at least one task is kept, no agent
is registered twice, the cheap agents are registered ones, an orchestrator may be made without a list, and an answer is a sequence of raw tasks):

| theorem | property |
|---|---|
| `PlanTyped` | `PlanTypeOK` (part of `TypeOK`) |
| `OrderKept` | `OrderIsKept` |
| `PlansFit` | `PlansFitTheExecutor` |
| `RoutesFollow` | `RoutesFollowTheKeywords` |

`PlanInv` says that whatever a run has decided is made of the answer it got (`Made`), and that an agent is
enabled exactly when no list in the process leaves it out. What a task comes after is what every set of tasks
holds that has its dependencies and theirs (`ClosureIsLeast`). `GivenIsAsked` cuts such a set, of what was asked
for, to the tasks that are kept, and it is one of what was given: so nothing is given that was not asked for. `AskedIsGiven` goes the other way
when tasks are listed after their dependencies: then no path to a kept task leads through one that was
cut. `ScoresFollowTheKeywords` is the arithmetic of the score: a keyword (15) outweighs the bonus of a
cheap agent (10), and only three of them reach the cap of 100. `LeastNat` gets the least element
of any set of numbers from the well-foundedness of `<`; it is what makes each `CHOOSE` of the three
front ends denote something.

`FrontEndsProofs` proves, for sessions, conversations and limits of any size (`CaptureAssumption`: an
agent labels messages in the ways its format has, and the labels tell who speaks; `BriefingAssumption`:
at least one step and one message are kept):

| theorem | property |
|---|---|
| `PackagesTell` | `PackageTellsTheTalk` |
| `CapturesFresh` | `CapturesAreFresh` |
| `FailuresCaused` | `FailuresHaveACause` |
| `TargetsAreTold` | `TheTargetIsTold` |
| `EachOnItsOwn` | a behaviour of `FrontEnds` is one of each part |
| `Typed` | `TypeOK` |
| `PartsHold` | the properties above and those of `PlanningProofs`, for `FrontEnds` |

`Renders` says once for all what a parser's result has to be for a package to tell the talk: a message that can
be heard keeps its place and its speaker, and of what else is kept under a speaker's label nothing is a text.
`CodexRenders` and `JsonRenders` show it of the three formats; `LastIsHeard`, `FirstIsHeard` and
`PackageTells` need nothing else. The properties of a result are about the
sessions as they are now; they stand because sessions only grow (`ResultStays`), as what a call goes by
stands because files only become newer (`CallStays`). `CaptureInv` is that, with the types.
`BriefInv` says of a summary that it is one by the rules, with a step and no more steps than it may have
(`LastToolsAreFew` counts them), or one that the model's answer explains.

What a search reads as a sequence is a function on places in these modules, and a transitive closure is a least set: the
theorems could not be stated of recursive operators. TLC evaluates both on the run `front_ends`.

Every invariant and every action property of a passing run is proved. Liveness (`PlanReturns`, `RunsEnd`,
`ExpiredGoes`, `ExpiredIsRemoved`, `MarkerIsTaken`, `BreachIsStored`) is checked by TLC only: it needs
fairness and ENABLED.

## 6. Differences that no run is about

Met while reading, listed for the reader.

agent_community:
* The runner's timeout is documented as the "Maximum execution time" (`base_runner.py:58`); after
  the kill the second `communicate()` (line 88) waits without a limit, as long as a descendant of
  the agent holds the pipe.
* The pool's docstring promises limits per agent (`process_pool.py:36`), which it does not have;
  `max_concurrent=0` makes it wait for ever.
* Agents are not told to commit, and uncommitted work goes with the worktree. The worktree of a
  dependent task is forked before its dependencies have run and never sees their work. Nothing is
  rolled back after a conflict or a failed validation.
* A JSON `true` in a list of dependencies is an index to Python, and raises when it is read back
  (`decomposer.py:231-237`). An order that leads through a task beyond `max_subtasks` is lost.
* "If None, all registered agents are considered" (`agent_registry.py:131-132`): `route_task` skips the
  unavailable, and an orchestrator with `allowed_agents` makes agents unavailable for every later one of
  the process, since profiles are shared (`orchestrator.py:76-82`). `--agents ","` gives an empty list,
  which allows all agents.

handoff:
* "None if not found/expired" (`store.py:46`): the S3 store does not look at the expiry
  (`s3_store.py:69-75`), and the Redis store computes the TTL before a request that may land late
  (`redis_store.py:41-46`).
* `initiate` may answer FAILED for a package that is stored (`orchestrator.py:190-198`); the audit log
  then has no entry for it, which `InjectedIsStored` allows for by name.
* The MCP resource with a package (`mcp_adapter/server.py:132-148`) has no look at the expiry of what a store
  returns; the prompt beside it has (`injector.py:63`).
* `_sanitize_package` is to "fail if violations exist rather than silently dropping data"
  (`orchestrator.py:249-252`); it drops them. Its result is called immutable, yet under an explicit
  whitelist nested values are those of the caller (`package.py:158-163`).
* `on_trigger` gets the package before sanitization, and is called after a failed handoff too
  (`monitor.py:103-105`). The selector does not exclude the agent that hands off.
* The history is said to be truncated as soon as it has 20 messages (`injector.py:80-83`).
* A blank answer of the model yields a blank summary with the method "llm"
  (`llm_summarizer.py:184-212`). Of an answer that names neither a step that is done nor the one under way,
  the blockers, results and next action are lost: `injector.py:115` looks at the steps only.
* HTTP (`api/server.py`): a retried request makes a second package; an unknown reason is a
  server error; `log[-limit:]` answers with the whole log for a limit of 0 (line 218).
* The number returned by a cleanup counts packages another one has removed
  (`orchestrator.py:226`, and `local_store.py:236` behind `service.py:224`).

handoff_relay:
* `handoff cleanup --older-than` is not used (`handoff_relay/cli.py:212-221`).
* The Codex parser "recursively" searches a dict one level down only; null or list contents of a Claude
  session raise, so does a multibyte character of Codex that is cut (`session_parser.py:77-89, 116-143`).
* `LocalHandoffStore.delete` and `read_and_clear_switch_marker` have no caller in the program; the
  latter says "atomically" and takes three steps (`_utils.py:88-98`).
* The hook is described as running an `exec` command; the command is `cd … && codex`, so the shell
  stays and the agent is its child (`service.py:294-302`).
* In tmux a switch kills the window of the target by name. When detection has taken another
  terminal's agent for the source, that can be the window of the switch itself, which then dies
  before it opens anything; two windows of one name make `select-window` fail although the agent
  runs (`cli.py:464-490`).
* Two switches that write one instruction file at a time may leave two blocks in it, since `write_text`
  writes from the beginning (`claude_code.py:151`, `codex.py:130`). It does not heal: each later switch removes
  one block, the first, and appends one. The part at the cut, of a line or a block, stays as a fragment.
* A missing instruction file is created after a look without a lock (`claude_code.py:134-136`,
  `codex.py:111-115`): a handoff or a line that has come into it meanwhile is wiped out by the header.
* The removal of a block strips the text on both sides and glues the lines (`claude_code.py:189`).
  A dangling CLAUDE.md link to AGENTS.md is written through (`claude_code.py:94-112`).
* `inject` for another target than Claude Code asks for the summary and then looks for the package
  in it: it always says "Package not found" (`cli.py:195-203`).

## 7. Not modelled, and the plan

Not modelled because there is nothing to interleave and no state: the cost tracker, printing and
argument parsing, HTTP routes, A2A and framework adapters, serialization, crypto, migrations, the
listing of packages, the wording of briefs and prompts, the PII scrubber. In `SwitchRelay`, all
switches are in one project, what is left of a part that has been cut (with a UTF-8 character cut in two, which
would fail the next reading) is left out, and so is a block the user has damaged by hand. The file beside a linked CLAUDE.md, which is created in the same
way, is an instruction file like any other. In `Capture`, session files are not removed, and no session has
two newest files of one age. In `Delivery`, packages do not expire and requests are not lost, which is
the subject of `HandoffService`.

The plan of the first section is carried out: each component with a state or an order has its module, and
the safety and action properties of the passing runs are proved. What stays with TLC is liveness. What
could follow is a proof that the plans of `Planning` are plans of `DagExecutor` by a refinement, where now
`PlansFitTheExecutor` states the assumptions of the one as a promise of the other.
