------------------------------ MODULE Planning ------------------------------
(***************************************************************************)
(* What CommunityOrchestrator does before the first agent starts: the      *)
(* planner's answer is parsed into a TaskPlan, file ownership is checked   *)
(* and every task is routed to an agent; and what `plan` shows of it.      *)
(* Several of them live in one process, and meet in the module-level agent *)
(* profiles.                                                               *)
(*                                                                         *)
(* An answer is data of a language model: nothing is assumed of it beyond  *)
(* its shape.  Titles, descriptions and prompts are left out; what the     *)
(* router reads of a text is how many keywords each agent finds in it.     *)
(***************************************************************************)
EXTENDS Integers, Sequences, FiniteSets

CONSTANTS Orchestrators,
          Registered,      \* DEFAULT_PROFILES: agent types in the order of the dict
          Cheap,           \* those with cost_per_1k_tokens < 0.01
          AllowedLists,    \* what allowed_agents may be (the empty set: all of them)
          AnswersTo,       \* AnswersTo[o]: what the planner may answer
          Files,           \* the files that it may name
          MaxSubtasks      \* 5 in the program

Agents == {Registered[i] : i \in DOMAIN Registered}

\* What a task is before and after its dependencies are resolved; hits counts the
\* keywords of each agent.
RawTasks == [creates : SUBSET Files, modifies : SUBSET Files, hits : [Agents -> Nat],
             deps : SUBSET ({"int", "true", "other"} \X Int)]
Tasks == [creates : SUBSET Files, modifies : SUBSET Files, hits : [Agents -> Nat],
          deps : SUBSET Nat]

PlanningAssumption == /\ MaxSubtasks \in Nat \ {0}
                      /\ Cheap \subseteq Agents
                      /\ Registered \in Seq(Agents)
                      /\ \A i, j \in DOMAIN Registered : Registered[i] = Registered[j] => i = j
                      /\ {} \in AllowedLists
                      /\ \A o \in Orchestrators : AnswersTo[o] \subseteq Seq(RawTasks)
ASSUME PlanningAssumption

VARIABLES enabled,   \* agents whose profile is available: shared by the process
          orch       \* orch[o]: how far the run of o is, and what it has decided

planVars == <<enabled, orch>>

NewRun == [at |-> "new", allowed |-> {}, answer |-> <<>>, tasks |-> <<>>, routes |-> <<>>]

PlanInit == /\ enabled = Agents
            /\ orch = [o \in Orchestrators |-> NewRun]

-----------------------------------------------------------------------------
(* _parse_response.  A raw task names the tasks it depends on by index,    *)
(* from zero: items <<"int", n>>, <<"true", 0>> (a JSON true is an int to  *)
(* Python, but not one that int() reads back) or <<"other", 0>>.           *)

\* Faulty variant: the last tasks are kept.
KeptFromTheEnd(raw) == SubSeq(raw, IF Len(raw) > MaxSubtasks THEN Len(raw) - MaxSubtasks + 1
                                   ELSE 1, Len(raw))
Kept(raw) == IF Len(raw) > MaxSubtasks THEN SubSeq(raw, 1, MaxSubtasks) ELSE raw

Unresolvable(raw) == \E i \in DOMAIN Kept(raw) : <<"true", 0>> \in Kept(raw)[i].deps

\* Faulty variant: an index beyond the last task is taken for the last one.
ResolveClamped(raw, i) ==
    {IF d[2] < Len(Kept(raw)) THEN d[2] + 1 ELSE Len(Kept(raw)) :
        d \in {x \in Kept(raw)[i].deps : x[1] = "int" /\ 0 <= x[2]}}
Resolve(raw, i) == {j \in DOMAIN Kept(raw) : <<"int", j - 1>> \in Kept(raw)[i].deps}

Parsed(raw) == [i \in DOMAIN Kept(raw) |-> [Kept(raw)[i] EXCEPT !.deps = Resolve(raw, i)]]

\* TaskPlan.validate_file_ownership
AllFiles(task) == task.creates \cup task.modifies
Conflicts(tasks) == {f \in UNION {AllFiles(tasks[i]) : i \in DOMAIN tasks} :
                       Cardinality({i \in DOMAIN tasks : f \in AllFiles(tasks[i])}) > 1}

-----------------------------------------------------------------------------
(* AgentRegistry *)

\* suitability_score in hundredths.  Faulty variant: the bonus of the cheap agent
\* outweighs a keyword.
ScoreForCost(a, task) == LET s == 50 + 15 * task.hits[a] + (IF a \in Cheap THEN 20 ELSE 0)
                         IN IF s > 100 THEN 100 ELSE s
Score(a, task) ==
    LET few == Cardinality(task.creates) + Cardinality(task.modifies) <= 2
        s == 50 + 15 * task.hits[a] + (IF few /\ a \in Cheap THEN 10 ELSE 0)
    IN IF s > 100 THEN 100 ELSE s

\* route_task: the first of the best among those available and allowed.
Candidates(allowed) == {i \in DOMAIN Registered :
                          /\ Registered[i] \in enabled
                          /\ allowed # {} => Registered[i] \in allowed}
RouteTask(task, allowed) ==
    Registered[CHOOSE i \in Candidates(allowed) : \A j \in Candidates(allowed) :
                 \/ Score(Registered[i], task) > Score(Registered[j], task)
                 \/ Score(Registered[i], task) = Score(Registered[j], task) /\ i <= j]

-----------------------------------------------------------------------------
\* CommunityOrchestrator(...): the registry copies the dict of profiles and not
\* the profiles, so an agent that is disabled here is disabled everywhere.
Construct(o, allowed) ==
    /\ orch[o].at = "new"
    /\ orch' = [orch EXCEPT ![o].at = "planning", ![o].allowed = allowed]
    /\ enabled' = IF allowed = {} THEN enabled ELSE enabled \cap allowed

Ends(o, verdict, answer, tasks, routes) ==
    /\ orch' = [orch EXCEPT ![o] = [@ EXCEPT !.at = verdict, !.answer = answer,
                                             !.tasks = tasks, !.routes = routes]]
    /\ UNCHANGED enabled

\* The planner fails, times out or says nothing, or says that the task is not
\* suitable, or what it says is no JSON.
PlannerFails(o) == /\ orch[o].at = "planning"
                   /\ Ends(o, "unsuitable", <<>>, <<>>, <<>>)

\* JSON of another shape raises, which ends the run (and a preview).
PlannerRambles(o) == /\ orch[o].at = "planning"
                     /\ Ends(o, "raised", <<>>, <<>>, <<>>)

\* run(): parse, validate, route; nothing is awaited in between.
Decide(o, raw) ==
    LET tasks == Parsed(raw)
        allowed == orch[o].allowed
    IN  /\ orch[o].at = "planning"
        /\ IF raw = <<>> THEN Ends(o, "unsuitable", raw, <<>>, <<>>)
           ELSE IF Unresolvable(raw) THEN Ends(o, "raised", raw, <<>>, <<>>)
           ELSE IF Conflicts(tasks) # {} THEN Ends(o, "conflict", raw, tasks, <<>>)
           ELSE IF Candidates(allowed) = {} THEN Ends(o, "raised", raw, tasks, <<>>)
           ELSE Ends(o, "routed", raw, tasks,
                     [i \in DOMAIN tasks |-> RouteTask(tasks[i], allowed)])

\* The command `plan`: every agent is allowed, and conflicts are shown, not acted on.
Preview(o, raw) ==
    LET tasks == Parsed(raw)
    IN  /\ orch[o].at = "new" /\ raw # <<>>
        /\ IF Unresolvable(raw) THEN Ends(o, "raised", raw, <<>>, <<>>)
           ELSE IF Candidates({}) = {} THEN Ends(o, "raised", raw, tasks, <<>>)
           ELSE Ends(o, "previewed", raw, tasks,
                     [i \in DOMAIN tasks |-> RouteTask(tasks[i], {})])

PlanNext == \E o \in Orchestrators :
               \/ \E allowed \in AllowedLists : Construct(o, allowed)
               \/ PlannerFails(o) \/ PlannerRambles(o)
               \/ \E raw \in AnswersTo[o] : Decide(o, raw) \/ Preview(o, raw)

PlanSpec == PlanInit /\ [][PlanNext]_planVars

-----------------------------------------------------------------------------
(* Properties *)

Routed(o) == orch[o].at = "routed"
HasRoutes(o) == orch[o].at \in {"routed", "previewed"}

\* Every variable keeps its type.
PlanTypeOK == /\ enabled \subseteq Agents
              /\ \A o \in Orchestrators :
                   /\ orch[o].at \in {"new", "planning", "unsuitable", "conflict", "routed", "previewed", "raised"}
                   /\ orch[o].allowed \in AllowedLists
                   /\ Len(orch[o].tasks) <= MaxSubtasks
                   /\ HasRoutes(o) => orch[o].routes \in [DOMAIN orch[o].tasks -> Agents]

\* What depends on what, directly or through others: y is in every set that has what x
\* depends on and, with a task, what that depends on.
Closure(S, before) ==
    {p \in S \X S : \A T \in SUBSET S :
        (\A q \in before : q[1] \in T \cup {p[1]} => q[2] \in T) => p[2] \in T}

\* The order that the planner asked for, over all the tasks it listed, and the one
\* that the executor gets.
Asked(raw) == Closure(DOMAIN raw, {p \in (DOMAIN raw) \X (DOMAIN raw) : <<"int", p[2] - 1>> \in raw[p[1]].deps})
Given(tasks) == Closure(DOMAIN tasks, {p \in (DOMAIN tasks) \X (DOMAIN tasks) : p[2] \in tasks[p[1]].deps})
ListedInOrder(raw) == \A i \in DOMAIN raw, n \in 0 .. Len(raw) : <<"int", n>> \in raw[i].deps => n < i - 1

\* The list is cut to max_subtasks while dependencies are resolved by index.  An order
\* that runs through a task that was cut is lost, unless the planner lists every task
\* after its dependencies: then the kept tasks run in the order asked for.  In no case
\* does the executor get an order that the planner has not asked for.
OrderIsKept ==
    \A o \in Orchestrators : orch[o].tasks # <<>> =>
        LET raw == orch[o].answer
            tasks == orch[o].tasks
        IN  /\ Given(tasks) \subseteq Asked(raw)
            /\ ListedInOrder(raw) => Given(tasks) = Asked(raw) \cap ((DOMAIN tasks) \X (DOMAIN tasks))

\* What the modules of the execution assume of a plan: dependencies among its own
\* tasks; a cycle, over which the executor would stall, only where the planner has
\* asked for one; and no file that two tasks own, in whichever of their lists.
PlansFitTheExecutor ==
    \A o \in Orchestrators : Routed(o) =>
        LET tasks == orch[o].tasks
            raw == orch[o].answer
        IN  /\ \A i \in DOMAIN tasks : tasks[i].deps \subseteq DOMAIN tasks
            /\ (\A p \in Asked(raw) : p[1] # p[2]) => (\A p \in Given(tasks) : p[1] # p[2])
            /\ \A i, j \in DOMAIN tasks : i # j =>
                 (tasks[i].creates \cup tasks[i].modifies)
                   \cap (tasks[j].creates \cup tasks[j].modifies) = {}

\* Some list leaves the agent out.
OutOfUse(a) == \E p \in Orchestrators : orch[p].allowed # {} /\ a \notin orch[p].allowed
Allowed(o) == IF orch[o].allowed = {} THEN Agents ELSE orch[o].allowed
BestOf(task, chosen, allowed) ==
    /\ chosen \in allowed
    /\ \A a \in enabled \cap allowed : task.hits[a] <= task.hits[chosen] \/ task.hits[chosen] >= 3
RoutesStep ==
    \A o \in Orchestrators :
       /\ ~HasRoutes(o) /\ HasRoutes(o)' => \A i \in DOMAIN orch'[o].tasks :
            BestOf(orch'[o].tasks[i], orch'[o].routes[i], Allowed(o))
       /\ orch'[o].at = "raised" /\ orch'[o].tasks # <<>> => \A a \in Agents : OutOfUse(a)

\* Profiles are shared and never enabled again: the orchestrators of a process disable
\* agents under each other's hands.  A run uses only agents that it allows itself all the
\* same; it passes over an agent with more of the keywords only when that one is out of
\* use, or when the chosen one's score has reached the maximum; and it fails for want of
\* an agent only if other lists leave none of its own.
RoutesFollowTheKeywords == [][RoutesStep]_planVars
=============================================================================
