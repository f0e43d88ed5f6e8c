--------------------------- MODULE PlanningProofs ---------------------------
(***************************************************************************)
(* Proofs about Planning: what a plan is that the executor gets, which     *)
(* order it keeps of the one asked for, and which agents its tasks get.    *)
(***************************************************************************)
EXTENDS Planning, SequenceTheorems, FiniteSetTheorems, WellFoundedInduction, TLAPS

-----------------------------------------------------------------------------
(* Numbers *)

\* A set of numbers that is not empty has a least one.
LEMMA LeastNat ==
    ASSUME NEW T \in SUBSET Nat, T # {}
    PROVE  \E x \in T : \A y \in T : x <= y
  <1> DEFINE R == {ss \in Nat \X Nat : ss[1] < ss[2]}
  <1>1. IsWellFoundedOn(R, Nat)
    BY NatLessThanWellFounded DEF OpToRel
  <1>2. \A x, y \in Nat : y < x => <<y, x>> \in R
    OBVIOUS
  <1> HIDE DEF R
  <1>3. PICK x \in T : \A y \in T : <<y, x>> \notin R
    BY <1>1, WFMin
  <1>4. \A y \in T : ~(y < x)
    BY <1>2, <1>3
  <1> QED
    BY <1>4

-----------------------------------------------------------------------------
(* What is parsed *)

\* What is kept of an answer is its beginning.
LEMMA KeptIsAPrefix ==
    ASSUME PlanningAssumption, NEW raw \in Seq(RawTasks)
    PROVE  /\ Kept(raw) \in Seq(RawTasks)
           /\ Len(Kept(raw)) <= MaxSubtasks
           /\ DOMAIN Kept(raw) = 1 .. Len(Kept(raw))
           /\ DOMAIN Kept(raw) \subseteq DOMAIN raw
           /\ \A i \in DOMAIN Kept(raw) : Kept(raw)[i] = raw[i] /\ raw[i] \in RawTasks
           /\ raw # <<>> => Kept(raw) # <<>>
  <1>1. MaxSubtasks \in Nat \ {0}
    BY DEF PlanningAssumption
  <1>2. CASE Len(raw) <= MaxSubtasks
    BY <1>1, <1>2, LenProperties DEF Kept
  <1>3. CASE Len(raw) > MaxSubtasks
    <2>1. Kept(raw) = SubSeq(raw, 1, MaxSubtasks)
      BY <1>3 DEF Kept
    <2>2. /\ Kept(raw) \in Seq(RawTasks)
          /\ Len(Kept(raw)) = MaxSubtasks
          /\ \A i \in 1 .. MaxSubtasks : Kept(raw)[i] = raw[i]
      BY <1>1, <1>3, <2>1
    <2> QED
      BY <1>1, <1>3, <2>2, LenProperties
  <1> QED
    BY <1>1, <1>2, <1>3

\* A task of the plan is the task listed at its place, with those of its dependencies
\* that are tasks of the plan.
LEMMA ParsedTasks ==
    ASSUME PlanningAssumption, NEW raw \in Seq(RawTasks)
    PROVE  /\ Parsed(raw) \in Seq(Tasks)
           /\ Len(Parsed(raw)) <= MaxSubtasks
           /\ DOMAIN Parsed(raw) = 1 .. Len(Parsed(raw))
           /\ DOMAIN Parsed(raw) \subseteq DOMAIN raw
           /\ \A i \in DOMAIN Parsed(raw) :
                /\ Parsed(raw)[i].deps = {j \in DOMAIN Parsed(raw) : <<"int", j - 1>> \in raw[i].deps}
                /\ Parsed(raw)[i] \in Tasks
           /\ raw # <<>> => Parsed(raw) # <<>>
  <1> DEFINE n == Len(Kept(raw))
  <1>1. n \in Nat /\ DOMAIN Kept(raw) = 1 .. n
    BY KeptIsAPrefix, LenProperties
  <1>2. \A i \in 1 .. n : Kept(raw)[i] = raw[i] /\ raw[i] \in RawTasks
    BY <1>1, KeptIsAPrefix
  <1>3. \A i \in 1 .. n : Resolve(raw, i) = {j \in 1 .. n : <<"int", j - 1>> \in raw[i].deps}
    BY <1>1, <1>2 DEF Resolve
  <1>4. \A i \in 1 .. n : Resolve(raw, i) \in SUBSET Nat
    <2>1. \A i \in 1 .. n : \A j \in Resolve(raw, i) : j \in 1 .. n
      BY <1>3
    <2>2. 1 .. n \subseteq Nat
      BY <1>1
    <2> QED
      BY <2>1, <2>2
  <1>5. Parsed(raw) = [i \in 1 .. n |-> [raw[i] EXCEPT !.deps = Resolve(raw, i)]]
    BY <1>1, <1>2 DEF Parsed
  <1>6. \A i \in 1 .. n : /\ [raw[i] EXCEPT !.deps = Resolve(raw, i)] \in Tasks
                          /\ [raw[i] EXCEPT !.deps = Resolve(raw, i)].deps = Resolve(raw, i)
    BY <1>2, <1>4 DEF RawTasks, Tasks
  <1> HIDE DEF n
  <1>7. Parsed(raw) \in Seq(Tasks) /\ Len(Parsed(raw)) = n /\ DOMAIN Parsed(raw) = 1 .. n
    <2>1. Parsed(raw) \in [1 .. n -> Tasks]
      BY <1>5, <1>6
    <2> QED
      BY <1>1, <2>1, SeqDef, LenProperties
  <1>8. n <= MaxSubtasks /\ 1 .. n \subseteq DOMAIN raw
    BY <1>1, KeptIsAPrefix DEF n
  <1>9. raw # <<>> => Parsed(raw) # <<>>
    <2>1. raw # <<>> => n # 0
      BY KeptIsAPrefix, EmptySeq DEF n
    <2> QED
      BY <2>1, <1>7
  <1> QED
    BY <1>3, <1>5, <1>6, <1>7, <1>8, <1>9
-----------------------------------------------------------------------------
(* The order *)

\* What a task depends on is what every set holds that has its dependencies and theirs.
LEMMA ClosureIsLeast ==
    ASSUME NEW S, NEW before, NEW x \in S, NEW y \in S
    PROVE  <<x, y>> \in Closure(S, before) <=>
              \A T \in SUBSET S :
                 (\A q \in before : q[1] \in T \cup {x} => q[2] \in T) => y \in T
  BY Zenon DEF Closure

\* The order that the executor gets has been asked for.
LEMMA GivenIsAsked ==
    ASSUME PlanningAssumption, NEW raw \in Seq(RawTasks)
    PROVE  Given(Parsed(raw)) \subseteq Asked(raw)
  <1> DEFINE D == DOMAIN Parsed(raw)
             E == DOMAIN raw
             given == {p \in D \X D : p[2] \in Parsed(raw)[p[1]].deps}
             asked == {p \in E \X E : <<"int", p[2] - 1>> \in raw[p[1]].deps}
  <1>1. D \subseteq E /\ \A i, j \in D : <<i, j>> \in given <=> <<i, j>> \in asked
    BY ParsedTasks
  <1>2. given \subseteq D \X D /\ asked \subseteq E \X E
    OBVIOUS
  <1>3. Given(Parsed(raw)) = Closure(D, given) /\ Asked(raw) = Closure(E, asked)
    BY DEF Given, Asked
  <1> HIDE DEF D, E, given, asked
  <1>4. SUFFICES ASSUME NEW x \in D, NEW y \in D, <<x, y>> \in Closure(D, given)
                 PROVE  <<x, y>> \in Closure(E, asked)
    <2>1. Closure(D, given) \subseteq D \X D
      BY DEF Closure
    <2> QED
      BY <1>3, <2>1
  <1>5. SUFFICES ASSUME NEW T \in SUBSET E,
                        \A q \in asked : q[1] \in T \cup {x} => q[2] \in T
                 PROVE  y \in T
    BY <1>1, <1>4, ClosureIsLeast
  <1>6. \A q \in given : q[1] \in (T \cap D) \cup {x} => q[2] \in T \cap D
    BY <1>1, <1>2, <1>5
  <1>7. y \in T \cap D
    <2>1. T \cap D \in SUBSET D
      OBVIOUS
    <2>2. \A U \in SUBSET D : (\A q \in given : q[1] \in U \cup {x} => q[2] \in U) => y \in U
      BY <1>4, ClosureIsLeast
    <2> QED
      BY <1>6, <2>1, <2>2
  <1> QED
    BY <1>7

\* If every task is listed after its dependencies, nothing that was asked for among the
\* tasks that are kept runs through one that was cut.
LEMMA AskedIsGiven ==
    ASSUME PlanningAssumption, NEW raw \in Seq(RawTasks), ListedInOrder(raw)
    PROVE  Given(Parsed(raw)) = Asked(raw) \cap ((DOMAIN Parsed(raw)) \X (DOMAIN Parsed(raw)))
  <1> DEFINE D == DOMAIN Parsed(raw)
             E == DOMAIN raw
             given == {p \in D \X D : p[2] \in Parsed(raw)[p[1]].deps}
             asked == {p \in E \X E : <<"int", p[2] - 1>> \in raw[p[1]].deps}
  <1>1. D \subseteq E /\ \A i, j \in D : <<i, j>> \in given <=> <<i, j>> \in asked
    BY ParsedTasks
  <1>2. given \subseteq D \X D /\ asked \subseteq E \X E
    OBVIOUS
  <1>3. Given(Parsed(raw)) = Closure(D, given) /\ Asked(raw) = Closure(E, asked)
    BY DEF Given, Asked
  <1>4. \A q \in asked : q[1] \in D => q[2] \in D
    <2>1. SUFFICES ASSUME NEW q \in asked, q[1] \in D PROVE q[2] \in D
      OBVIOUS
    <2>2. PICK n \in Nat : D = 1 .. n
      BY ParsedTasks, LenProperties
    <2>3. PICK m \in Nat : E = 1 .. m /\ Len(raw) = m
      BY LenProperties
    <2>4. /\ q[1] \in 1 .. m /\ q[2] \in 1 .. m
          /\ <<"int", q[2] - 1>> \in raw[q[1]].deps
      BY <2>3
    <2>5. q[2] - 1 < q[1] - 1
      BY <2>3, <2>4 DEF ListedInOrder
    <2> HIDE DEF D
    <2> QED
      BY <2>1, <2>2, <2>4, <2>5
  <1>5. Closure(E, asked) \subseteq E \X E /\ Closure(D, given) \subseteq D \X D
    BY DEF Closure
  <1>6. Closure(D, given) \subseteq Closure(E, asked)
    BY <1>3, GivenIsAsked
  <1> HIDE DEF D, E, given, asked
  <1>7. ASSUME NEW x \in D, NEW y \in D, <<x, y>> \in Closure(E, asked)
        PROVE  <<x, y>> \in Closure(D, given)
    <2>1. SUFFICES ASSUME NEW T \in SUBSET D,
                          \A q \in given : q[1] \in T \cup {x} => q[2] \in T
                   PROVE  y \in T
      BY ClosureIsLeast
    <2>2. \A q \in asked : q[1] \in T \cup {x} => q[2] \in T
      BY <1>1, <1>2, <1>4, <1>7, <2>1
    <2> QED
      BY <1>1, <1>7, <2>2, ClosureIsLeast
  <1> QED
    BY <1>3, <1>5, <1>6, <1>7 DEF D

-----------------------------------------------------------------------------
(* Files *)

\* Without a conflict no two tasks own a file.
LEMMA NoConflict ==
    ASSUME NEW tasks \in Seq(Tasks), Conflicts(tasks) = {},
           NEW i \in DOMAIN tasks, NEW j \in DOMAIN tasks, i # j
    PROVE  AllFiles(tasks[i]) \cap AllFiles(tasks[j]) = {}
  <1>1. SUFFICES ASSUME NEW f \in AllFiles(tasks[i]) \cap AllFiles(tasks[j]) PROVE FALSE
    OBVIOUS
  <1> DEFINE owners == {k \in DOMAIN tasks : f \in AllFiles(tasks[k])}
  <1>2. IsFiniteSet(owners)
    <2>1. IsFiniteSet(DOMAIN tasks)
      BY LenProperties, FS_Interval
    <2> QED
      BY <2>1, FS_Subset
  <1>3. {i, j} \subseteq owners
    OBVIOUS
  <1> HIDE DEF owners
  <1>4. Cardinality({i, j}) = 2
    <2>1. {i, j} = {i} \cup {j} /\ j \notin {i}
      OBVIOUS
    <2>2. IsFiniteSet({i}) /\ Cardinality({i}) = 1
      BY FS_Singleton
    <2>3. Cardinality({i} \cup {j}) = 1 + 1
      BY <2>1, <2>2, FS_AddElement
    <2> QED
      BY <2>1, <2>3
  <1>5. Cardinality(owners) \in Nat /\ Cardinality({i, j}) <= Cardinality(owners)
    BY <1>2, <1>3, FS_Subset, FS_CardinalityType
  <1>6. Cardinality(owners) > 1
    BY <1>4, <1>5
  <1>7. f \in Conflicts(tasks)
    <2>1. f \in UNION {AllFiles(tasks[k]) : k \in DOMAIN tasks}
      BY <1>1
    <2> QED
      BY <1>6, <2>1 DEF Conflicts, owners
  <1> QED
    BY <1>7

-----------------------------------------------------------------------------
(* Scores *)

\* A score is at most 100; a keyword more outweighs the bonus of the cheap agents, unless
\* the maximum is reached.
LEMMA ScoresFollowTheKeywords ==
    ASSUME NEW task \in Tasks, NEW a \in Agents, NEW b \in Agents
    PROVE  /\ Score(a, task) \in 0 .. 100
           /\ Score(b, task) >= Score(a, task) =>
                task.hits[a] <= task.hits[b] \/ task.hits[b] >= 3
  <1> DEFINE few == Cardinality(task.creates) + Cardinality(task.modifies) <= 2
             ha == task.hits[a]
             hb == task.hits[b]
  <1>1. ha \in Nat /\ hb \in Nat
    BY DEF Tasks
  <1>2. Score(a, task) = LET s == 50 + 15 * ha + (IF few /\ a \in Cheap THEN 10 ELSE 0)
                         IN IF s > 100 THEN 100 ELSE s
    BY DEF Score
  <1>3. Score(b, task) = LET s == 50 + 15 * hb + (IF few /\ b \in Cheap THEN 10 ELSE 0)
                         IN IF s > 100 THEN 100 ELSE s
    BY DEF Score
  <1> HIDE DEF ha, hb, few
  <1>4. /\ Score(a, task) \in 0 .. 100
        /\ Score(b, task) >= Score(a, task) => ha <= hb \/ hb >= 3
    BY <1>1, <1>2, <1>3
  <1> QED
    BY <1>4 DEF ha, hb

\* The agent of a task is one that is in use and allowed, and none of those scores more.
LEMMA RouteIsBest ==
    ASSUME PlanningAssumption, NEW task \in Tasks, NEW allowed, Candidates(allowed) # {}
    PROVE  \E i \in Candidates(allowed) :
              /\ RouteTask(task, allowed) = Registered[i]
              /\ \A j \in Candidates(allowed) : Score(Registered[i], task) >= Score(Registered[j], task)
  <1> DEFINE C == Candidates(allowed)
             S == [i \in C |-> Score(Registered[i], task)]
             Gap == {100 - S[i] : i \in C}
             Best(x) == \A j \in C : \/ Score(Registered[x], task) > Score(Registered[j], task)
                                     \/ Score(Registered[x], task) = Score(Registered[j], task) /\ x <= j
  <1>1. C \subseteq DOMAIN Registered /\ \A i \in C : i \in Nat /\ Registered[i] \in Agents
    BY LenProperties DEF Candidates, Agents, PlanningAssumption
  <1>2. S \in [C -> 0 .. 100]
    BY <1>1, ScoresFollowTheKeywords
  <1>3. RouteTask(task, allowed) = Registered[CHOOSE x \in C : Best(x)]
    BY DEF RouteTask
  <1>4. \A i \in C : S[i] = Score(Registered[i], task)
    OBVIOUS
  <1>5. C # {}
    OBVIOUS
  <1> HIDE DEF S, C
  <1>6. Gap \in SUBSET Nat /\ Gap # {}
    BY <1>2, <1>5
  <1>7. PICK g \in Gap : \A h \in Gap : g <= h
    BY <1>6, LeastNat
  <1>8. PICK k \in C : g = 100 - S[k]
    BY <1>7
  <1>9. \A j \in C : S[k] >= S[j]
    <2>1. SUFFICES ASSUME NEW j \in C PROVE S[k] >= S[j]
      OBVIOUS
    <2>2. g <= 100 - S[j]
      BY <1>7
    <2> HIDE DEF Gap
    <2> QED
      BY <1>2, <1>8, <2>2
  <1> DEFINE Top == {i \in C : S[i] = S[k]}
  <1>10. Top \in SUBSET Nat /\ Top # {}
    BY <1>1
  <1>11. PICK i \in Top : \A j \in Top : i <= j
    BY <1>10, LeastNat
  <1>12. i \in C /\ Best(i)
    <2>1. i \in C /\ S[i] = S[k]
      BY <1>11
    <2>2. ASSUME NEW j \in C PROVE S[i] > S[j] \/ (S[i] = S[j] /\ i <= j)
      <3>1. S[i] >= S[j]
        BY <1>9, <2>1
      <3>2. S[i] = S[j] => i <= j
        BY <1>11, <2>1
      <3> QED
        BY <1>2, <2>1, <3>1, <3>2
    <2> QED
      BY <1>4, <2>1, <2>2
  <1> HIDE DEF Best
  <1>13. (CHOOSE x \in C : Best(x)) \in C /\ Best(CHOOSE x \in C : Best(x))
    BY <1>12
  <1>14. \A j \in C : S[CHOOSE x \in C : Best(x)] >= S[j]
    BY <1>2, <1>4, <1>13 DEF Best
  <1> QED
    BY <1>3, <1>4, <1>13, <1>14 DEF C

-----------------------------------------------------------------------------
(* The invariant *)

Verdicts == {"unsuitable", "conflict", "routed", "previewed", "raised"}
Runs == [at : {"new", "planning"} \cup Verdicts, allowed : AllowedLists,
         answer : Seq(RawTasks), tasks : Seq(Tasks), routes : Seq(Agents)]

\* What a run has decided is made of the answer that it got.
Made(verdict, answer, tasks, routes) ==
    /\ tasks # <<>> => tasks = Parsed(answer)
    /\ Len(tasks) <= MaxSubtasks
    /\ verdict \in {"routed", "previewed"} => routes \in [DOMAIN tasks -> Agents]
    /\ verdict = "routed" => Conflicts(tasks) = {}

\* An agent is out of use where some list of the process leaves it out, and nowhere else.
PlanInv ==
    /\ orch \in [Orchestrators -> Runs]
    /\ enabled = {a \in Agents : ~OutOfUse(a)}
    /\ \A o \in Orchestrators :
         /\ orch[o].at = "new" => orch[o].allowed = {}
         /\ orch[o].at \in {"new", "planning"} => orch[o].tasks = <<>>
         /\ Made(orch[o].at, orch[o].answer, orch[o].tasks, orch[o].routes)
         /\ orch[o].at = "raised" /\ orch[o].tasks # <<>> => \A a \in Agents : OutOfUse(a)

\* Before the first orchestrator is made, all agents are enabled and nothing is decided.
LEMMA PlanInitInv == PlanningAssumption /\ PlanInit => PlanInv
  <1> SUFFICES ASSUME PlanningAssumption, PlanInit PROVE PlanInv
    OBVIOUS
  <1>1. /\ <<>> \in Seq(RawTasks) /\ <<>> \in Seq(Tasks) /\ <<>> \in Seq(Agents)
        /\ Len(<<>>) = 0
    BY EmptySeq
  <1>2. MaxSubtasks \in Nat /\ {} \in AllowedLists
    BY DEF PlanningAssumption
  <1>3. NewRun \in Runs
    BY <1>1, <1>2 DEF NewRun, Runs
  <1>4. \A o \in Orchestrators : orch[o] = NewRun
    BY DEF PlanInit
  <1>5. orch \in [Orchestrators -> Runs]
    BY <1>3 DEF PlanInit
  <1>6. /\ NewRun.at = "new" /\ NewRun.allowed = {} /\ NewRun.tasks = <<>>
        /\ Made(NewRun.at, NewRun.answer, NewRun.tasks, NewRun.routes)
    BY <1>1, <1>2 DEF NewRun, Made
  <1>7. \A a : ~OutOfUse(a)
    BY <1>4, <1>6 DEF OutOfUse
  <1> QED
    BY <1>4, <1>5, <1>6, <1>7 DEF PlanInv, PlanInit

\* A run that ends leaves the others, and what is in use, as they are.
LEMMA EndsKeepsPlanInv ==
    ASSUME PlanInv, NEW o \in Orchestrators, NEW verdict \in Verdicts,
           NEW answer \in Seq(RawTasks), NEW tasks \in Seq(Tasks), NEW routes \in Seq(Agents),
           Ends(o, verdict, answer, tasks, routes), Made(verdict, answer, tasks, routes),
           verdict = "raised" /\ tasks # <<>> => \A a \in Agents : OutOfUse(a)
    PROVE  /\ PlanInv'
           /\ orch'[o].at = verdict /\ orch'[o].tasks = tasks /\ orch'[o].routes = routes
           /\ \A p \in Orchestrators \ {o} : orch'[p] = orch[p]
  <1>1. /\ orch \in [Orchestrators -> Runs]
        /\ orch' = [orch EXCEPT ![o] = [orch[o] EXCEPT !.at = verdict, !.answer = answer,
                                                      !.tasks = tasks, !.routes = routes]]
        /\ enabled' = enabled
    BY DEF PlanInv, Ends
  <1>2. orch[o] \in Runs
    BY <1>1
  <1>3. /\ orch'[o] \in Runs
        /\ orch'[o].at = verdict /\ orch'[o].answer = answer /\ orch'[o].tasks = tasks
        /\ orch'[o].routes = routes /\ orch'[o].allowed = orch[o].allowed
    BY <1>1, <1>2 DEF Runs
  <1>4. \A p \in Orchestrators \ {o} : orch'[p] = orch[p]
    BY <1>1
  <1>5. orch' \in [Orchestrators -> Runs]
    BY <1>1, <1>3
  <1>6. \A p \in Orchestrators : orch'[p].allowed = orch[p].allowed
    BY <1>3, <1>4
  <1>7. \A a : OutOfUse(a)' <=> OutOfUse(a)
    BY <1>6 DEF OutOfUse
  <1>8. enabled' = {a \in Agents : ~OutOfUse(a)'}
    BY <1>1, <1>7 DEF PlanInv
  <1>9. ASSUME NEW p \in Orchestrators
        PROVE  /\ orch'[p].at = "new" => orch'[p].allowed = {}
               /\ orch'[p].at \in {"new", "planning"} => orch'[p].tasks = <<>>
               /\ Made(orch'[p].at, orch'[p].answer, orch'[p].tasks, orch'[p].routes)
               /\ orch'[p].at = "raised" /\ orch'[p].tasks # <<>> => \A a \in Agents : OutOfUse(a)'
    <2>1. CASE p = o
      BY <1>3, <1>7, <2>1 DEF Verdicts
    <2>2. CASE p # o
      BY <1>4, <1>7, <2>2 DEF PlanInv
    <2> QED
      BY <2>1, <2>2
  <1> QED
    BY <1>3, <1>4, <1>5, <1>8, <1>9 DEF PlanInv

\* Every task gets the best agent there is for it.
LEMMA RoutesAreBest ==
    ASSUME PlanningAssumption, enabled \subseteq Agents, NEW tasks \in Seq(Tasks), NEW allowed,
           Candidates(allowed) # {}
    PROVE  LET routes == [i \in DOMAIN tasks |-> RouteTask(tasks[i], allowed)]
           IN  /\ routes \in [DOMAIN tasks -> Agents] /\ routes \in Seq(Agents)
               /\ \A i \in DOMAIN tasks :
                    BestOf(tasks[i], routes[i], IF allowed = {} THEN Agents ELSE allowed)
  <1> DEFINE routes == [i \in DOMAIN tasks |-> RouteTask(tasks[i], allowed)]
             mine == IF allowed = {} THEN Agents ELSE allowed
  <1>1. \A i \in Candidates(allowed) : /\ i \in DOMAIN Registered /\ Registered[i] \in Agents
                                       /\ Registered[i] \in mine
    BY DEF Candidates, Agents
  <1>2. \A a \in enabled \cap mine : \E j \in Candidates(allowed) : a = Registered[j]
    BY DEF Candidates, Agents
  <1>3. \A i \in DOMAIN tasks : tasks[i] \in Tasks
    BY LenProperties
  <1>4. ASSUME NEW i \in DOMAIN tasks
        PROVE  routes[i] \in Agents /\ BestOf(tasks[i], routes[i], mine)
    <2>1. PICK k \in Candidates(allowed) :
            /\ RouteTask(tasks[i], allowed) = Registered[k]
            /\ \A j \in Candidates(allowed) :
                 Score(Registered[k], tasks[i]) >= Score(Registered[j], tasks[i])
      BY <1>3, RouteIsBest
    <2>2. routes[i] = Registered[k] /\ Registered[k] \in Agents /\ Registered[k] \in mine
      BY <1>1, <2>1
    <2>3. ASSUME NEW a \in enabled \cap mine
          PROVE  tasks[i].hits[a] <= tasks[i].hits[Registered[k]] \/ tasks[i].hits[Registered[k]] >= 3
      <3>1. PICK j \in Candidates(allowed) : a = Registered[j]
        BY <1>2, <2>3
      <3>2. Score(Registered[k], tasks[i]) >= Score(a, tasks[i])
        BY <2>1, <3>1
      <3>3. a \in Agents
        BY <2>3
      <3> QED
        BY <1>3, <2>2, <3>2, <3>3, ScoresFollowTheKeywords
    <2> QED
      BY <2>2, <2>3 DEF BestOf
  <1>5. routes \in [DOMAIN tasks -> Agents]
    BY <1>4
  <1>6. routes \in Seq(Agents)
    <2>1. Len(tasks) \in Nat /\ DOMAIN tasks = 1 .. Len(tasks)
      BY LenProperties
    <2> QED
      BY <1>5, <2>1, SeqDef
  <1> QED
    BY <1>4, <1>5, <1>6

\* If a run finds no agent, the lists leave none.
LEMMA NobodyIsLeft ==
    ASSUME PlanInv, NEW allowed, Candidates(allowed) = {},
           allowed # {} => \E o \in Orchestrators : orch[o].allowed = allowed
    PROVE  \A a \in Agents : OutOfUse(a)
  <1>1. \A a \in Agents : a \notin enabled \/ (allowed # {} /\ a \notin allowed)
    BY DEF Candidates, Agents
  <1> QED
    BY <1>1 DEF PlanInv, OutOfUse

-----------------------------------------------------------------------------
(* The steps *)

\* A new orchestrator disables exactly the agents its list leaves out.
LEMMA ConstructStep ==
    ASSUME PlanningAssumption, PlanInv, NEW o \in Orchestrators, NEW allowed \in AllowedLists,
           Construct(o, allowed)
    PROVE  PlanInv' /\ RoutesStep
  <1>1. /\ orch \in [Orchestrators -> Runs] /\ orch[o] \in Runs
        /\ orch[o].at = "new" /\ orch[o].allowed = {} /\ orch[o].tasks = <<>>
        /\ orch' = [orch EXCEPT ![o] = [orch[o] EXCEPT !.at = "planning", !.allowed = allowed]]
    <2>1. orch \in [Orchestrators -> Runs] /\ orch[o].at = "new"
      BY DEF PlanInv, Construct
    <2>2. orch' = [orch EXCEPT ![o] = [orch[o] EXCEPT !.at = "planning", !.allowed = allowed]]
      BY <2>1 DEF Construct
    <2> QED
      BY <2>1, <2>2 DEF PlanInv
  <1>2. /\ orch'[o] \in Runs
        /\ orch'[o].at = "planning" /\ orch'[o].allowed = allowed
        /\ orch'[o].answer = orch[o].answer /\ orch'[o].tasks = <<>>
        /\ orch'[o].routes = orch[o].routes
    BY <1>1 DEF Runs
  <1>3. \A p \in Orchestrators \ {o} : orch'[p] = orch[p]
    BY <1>1
  <1>4. orch' \in [Orchestrators -> Runs]
    BY <1>1, <1>2
  <1>5. \A a : OutOfUse(a)' <=> OutOfUse(a) \/ (allowed # {} /\ a \notin allowed)
    BY <1>1, <1>2, <1>3 DEF OutOfUse
  <1>6. enabled' = {a \in Agents : ~OutOfUse(a)'}
    <2>1. enabled = {a \in Agents : ~OutOfUse(a)}
      BY DEF PlanInv
    <2>2. enabled' = IF allowed = {} THEN enabled ELSE enabled \cap allowed
      BY DEF Construct
    <2> QED
      BY <1>5, <2>1, <2>2
  <1>7. MaxSubtasks \in Nat /\ Len(<<>>) = 0
    BY EmptySeq DEF PlanningAssumption
  <1>8. ASSUME NEW p \in Orchestrators
        PROVE  /\ orch'[p].at = "new" => orch'[p].allowed = {}
               /\ orch'[p].at \in {"new", "planning"} => orch'[p].tasks = <<>>
               /\ Made(orch'[p].at, orch'[p].answer, orch'[p].tasks, orch'[p].routes)
               /\ orch'[p].at = "raised" /\ orch'[p].tasks # <<>> => \A a \in Agents : OutOfUse(a)'
    <2>1. CASE p = o
      BY <1>2, <1>7, <2>1 DEF Made
    <2>2. CASE p # o
      BY <1>3, <1>5, <2>2 DEF PlanInv
    <2> QED
      BY <2>1, <2>2
  <1>9. PlanInv'
    BY <1>4, <1>6, <1>8 DEF PlanInv
  <1>10. RoutesStep
    BY <1>2, <1>3 DEF RoutesStep, HasRoutes, PlanInv
  <1> QED
    BY <1>9, <1>10

\* Whatever a run ends with, the others keep theirs, and its own is made of its answer.
LEMMA EndsStep ==
    ASSUME PlanInv, NEW o \in Orchestrators, NEW verdict \in Verdicts,
           NEW answer \in Seq(RawTasks), NEW tasks \in Seq(Tasks), NEW routes \in Seq(Agents),
           Ends(o, verdict, answer, tasks, routes), Made(verdict, answer, tasks, routes),
           verdict = "raised" /\ tasks # <<>> => \A a \in Agents : OutOfUse(a),
           verdict \in {"routed", "previewed"} =>
             \A i \in DOMAIN tasks : BestOf(tasks[i], routes[i], Allowed(o))
    PROVE  PlanInv' /\ RoutesStep
  <1>1. /\ PlanInv'
        /\ orch'[o].at = verdict /\ orch'[o].tasks = tasks /\ orch'[o].routes = routes
        /\ \A p \in Orchestrators \ {o} : orch'[p] = orch[p]
    BY EndsKeepsPlanInv
  <1>2. ASSUME NEW p \in Orchestrators
        PROVE  /\ ~HasRoutes(p) /\ HasRoutes(p)' => \A i \in DOMAIN orch'[p].tasks :
                    BestOf(orch'[p].tasks[i], orch'[p].routes[i], Allowed(p))
               /\ orch'[p].at = "raised" /\ orch'[p].tasks # <<>> => \A a \in Agents : OutOfUse(a)
    <2>1. CASE p = o
      BY <1>1, <2>1 DEF HasRoutes
    <2>2. CASE p # o
      BY <1>1, <2>2 DEF HasRoutes, PlanInv
    <2> QED
      BY <2>1, <2>2
  <1> QED
    BY <1>1, <1>2 DEF RoutesStep

\* The ends without a plan.
LEMMA NoPlanStep ==
    ASSUME PlanningAssumption, PlanInv, NEW o \in Orchestrators, NEW raw \in Seq(RawTasks),
           NEW verdict \in {"unsuitable", "raised"}, Ends(o, verdict, raw, <<>>, <<>>)
    PROVE  PlanInv' /\ RoutesStep
  <1>1. /\ <<>> \in Seq(Tasks) /\ <<>> \in Seq(Agents) /\ Len(<<>>) = 0
        /\ MaxSubtasks \in Nat /\ verdict \in Verdicts
    BY EmptySeq DEF PlanningAssumption, Verdicts
  <1>2. Made(verdict, raw, <<>>, <<>>)
    BY <1>1 DEF Made
  <1> QED
    BY <1>1, <1>2, EndsStep

\* Without an answer there are no tasks.
LEMMA FailsStep ==
    ASSUME PlanningAssumption, PlanInv, NEW o \in Orchestrators,
           PlannerFails(o) \/ PlannerRambles(o)
    PROVE  PlanInv' /\ RoutesStep
  <1>1. <<>> \in Seq(RawTasks)
    BY EmptySeq
  <1> QED
    BY <1>1, NoPlanStep DEF PlannerFails, PlannerRambles

\* An answer is refused, or parsed and routed; by either, nothing is decided that is not made of it.
LEMMA DecideStep ==
    ASSUME PlanningAssumption, PlanInv, NEW o \in Orchestrators, NEW raw \in Seq(RawTasks),
           Decide(o, raw)
    PROVE  PlanInv' /\ RoutesStep
  <1> DEFINE tasks == Parsed(raw)
             allowed == orch[o].allowed
             routes == [i \in DOMAIN tasks |-> RouteTask(tasks[i], allowed)]
  <1>1. tasks \in Seq(Tasks) /\ Len(tasks) <= MaxSubtasks
    BY ParsedTasks
  <1>2. <<>> \in Seq(Agents)
    BY EmptySeq
  <1>3. CASE raw = <<>> \/ Unresolvable(raw)
    <2>1. Ends(o, "unsuitable", raw, <<>>, <<>>) \/ Ends(o, "raised", raw, <<>>, <<>>)
      BY <1>3 DEF Decide
    <2> QED
      BY <2>1, NoPlanStep
  <1>4. CASE raw # <<>> /\ ~Unresolvable(raw) /\ Conflicts(tasks) # {}
    <2>1. Ends(o, "conflict", raw, tasks, <<>>)
      BY <1>4 DEF Decide
    <2>2. Made("conflict", raw, tasks, <<>>) /\ "conflict" \in Verdicts
      BY <1>1 DEF Made, Verdicts
    <2> HIDE DEF tasks
    <2> QED
      BY <1>1, <1>2, <2>1, <2>2, EndsStep
  <1>5. CASE raw # <<>> /\ ~Unresolvable(raw) /\ Conflicts(tasks) = {} /\ Candidates(allowed) = {}
    <2>1. Ends(o, "raised", raw, tasks, <<>>)
      BY <1>5 DEF Decide
    <2>2. Made("raised", raw, tasks, <<>>) /\ "raised" \in Verdicts
      BY <1>1 DEF Made, Verdicts
    <2>3. \A a \in Agents : OutOfUse(a)
      BY <1>5, NobodyIsLeft
    <2> HIDE DEF tasks
    <2> QED
      BY <1>1, <1>2, <2>1, <2>2, <2>3, EndsStep
  <1>6. CASE raw # <<>> /\ ~Unresolvable(raw) /\ Conflicts(tasks) = {} /\ Candidates(allowed) # {}
    <2>1. Ends(o, "routed", raw, tasks, routes)
      BY <1>6 DEF Decide
    <2>2. enabled \subseteq Agents
      BY DEF PlanInv
    <2>3. /\ routes \in [DOMAIN tasks -> Agents] /\ routes \in Seq(Agents)
          /\ \A i \in DOMAIN tasks : BestOf(tasks[i], routes[i], Allowed(o))
      <3> HIDE DEF tasks
      <3> QED
        BY <1>1, <1>6, <2>2, RoutesAreBest DEF Allowed
    <2>4. Made("routed", raw, tasks, routes) /\ "routed" \in Verdicts
      <3> HIDE DEF routes
      <3> QED
        BY <1>1, <1>6, <2>3 DEF Made, Verdicts
    <2> HIDE DEF tasks, routes
    <2> QED
      BY <1>1, <2>1, <2>3, <2>4, EndsStep
  <1> QED
    BY <1>3, <1>4, <1>5, <1>6

\* A preview routes the same tasks as a run, but among all agents.
LEMMA PreviewStep ==
    ASSUME PlanningAssumption, PlanInv, NEW o \in Orchestrators, NEW raw \in Seq(RawTasks),
           Preview(o, raw)
    PROVE  PlanInv' /\ RoutesStep
  <1> DEFINE tasks == Parsed(raw)
             routes == [i \in DOMAIN tasks |-> RouteTask(tasks[i], {})]
  <1>1. tasks \in Seq(Tasks) /\ Len(tasks) <= MaxSubtasks
    BY ParsedTasks
  <1>2. <<>> \in Seq(Agents)
    BY EmptySeq
  <1>3. CASE Unresolvable(raw)
    <2>1. Ends(o, "raised", raw, <<>>, <<>>)
      BY <1>3 DEF Preview
    <2> QED
      BY <2>1, NoPlanStep
  <1>4. CASE ~Unresolvable(raw) /\ Candidates({}) = {}
    <2>1. Ends(o, "raised", raw, tasks, <<>>)
      BY <1>4 DEF Preview
    <2>2. Made("raised", raw, tasks, <<>>) /\ "raised" \in Verdicts
      BY <1>1 DEF Made, Verdicts
    <2>3. \A a \in Agents : OutOfUse(a)
      BY <1>4, NobodyIsLeft
    <2> HIDE DEF tasks
    <2> QED
      BY <1>1, <1>2, <2>1, <2>2, <2>3, EndsStep
  <1>5. CASE ~Unresolvable(raw) /\ Candidates({}) # {}
    <2>1. Ends(o, "previewed", raw, tasks, routes)
      BY <1>5 DEF Preview
    <2>2. enabled \subseteq Agents /\ orch[o].allowed = {}
      BY DEF PlanInv, Preview
    <2>3. /\ routes \in [DOMAIN tasks -> Agents] /\ routes \in Seq(Agents)
          /\ \A i \in DOMAIN tasks : BestOf(tasks[i], routes[i], Allowed(o))
      <3> HIDE DEF tasks
      <3> QED
        BY <1>1, <1>5, <2>2, RoutesAreBest DEF Allowed
    <2>4. Made("previewed", raw, tasks, routes) /\ "previewed" \in Verdicts
      <3> HIDE DEF routes
      <3> QED
        BY <1>1, <1>5, <2>3 DEF Made, Verdicts
    <2> HIDE DEF tasks, routes
    <2> QED
      BY <1>1, <2>1, <2>3, <2>4, EndsStep
  <1> QED
    BY <1>3, <1>4, <1>5

\* Every step keeps the invariant, and routes by the keywords.
LEMMA PlanNextStep == PlanningAssumption /\ PlanInv /\ [PlanNext]_planVars
                         => PlanInv' /\ (RoutesStep \/ UNCHANGED planVars)
  <1> SUFFICES ASSUME PlanningAssumption, PlanInv, [PlanNext]_planVars
               PROVE  PlanInv' /\ (RoutesStep \/ UNCHANGED planVars)
    OBVIOUS
  <1>1. CASE PlanNext
    <2>1. PICK o \in Orchestrators :
            \/ \E allowed \in AllowedLists : Construct(o, allowed)
            \/ PlannerFails(o) \/ PlannerRambles(o)
            \/ \E raw \in AnswersTo[o] : Decide(o, raw) \/ Preview(o, raw)
      BY <1>1 DEF PlanNext
    <2>2. AnswersTo[o] \subseteq Seq(RawTasks)
      BY DEF PlanningAssumption
    <2> QED
      BY <2>1, <2>2, ConstructStep, FailsStep, DecideStep, PreviewStep
  <1>2. CASE UNCHANGED planVars
    BY <1>2 DEF planVars, PlanInv, OutOfUse
  <1> QED
    BY <1>1, <1>2

-----------------------------------------------------------------------------
(* Theorems *)

LEMMA PlanInvTyped == PlanInv => PlanTypeOK
  <1> SUFFICES ASSUME PlanInv, NEW o \in Orchestrators
               PROVE  /\ enabled \subseteq Agents
                      /\ orch[o].at \in {"new", "planning", "unsuitable", "conflict", "routed",
                                       "previewed", "raised"}
                      /\ orch[o].allowed \in AllowedLists
                      /\ Len(orch[o].tasks) <= MaxSubtasks
                      /\ HasRoutes(o) => orch[o].routes \in [DOMAIN orch[o].tasks -> Agents]
    BY DEF PlanTypeOK, PlanInv
  <1>1. orch[o] \in Runs /\ Made(orch[o].at, orch[o].answer, orch[o].tasks, orch[o].routes)
    BY DEF PlanInv
  <1> QED
    BY <1>1 DEF PlanInv, Runs, Verdicts, Made, HasRoutes

\* The order is that of the answer, as tasks are parsed from it.
LEMMA PlanInvOrder == PlanningAssumption /\ PlanInv => OrderIsKept
  <1> SUFFICES ASSUME PlanningAssumption, PlanInv, NEW o \in Orchestrators, orch[o].tasks # <<>>
               PROVE  LET raw == orch[o].answer
                          tasks == orch[o].tasks
                      IN  /\ Given(tasks) \subseteq Asked(raw)
                          /\ ListedInOrder(raw) =>
                               Given(tasks) = Asked(raw) \cap ((DOMAIN tasks) \X (DOMAIN tasks))
    BY DEF OrderIsKept
  <1>1. orch[o] \in Runs /\ orch[o].tasks = Parsed(orch[o].answer)
    BY DEF PlanInv, Made
  <1>2. orch[o].answer \in Seq(RawTasks)
    BY <1>1 DEF Runs
  <1> QED
    BY <1>1, <1>2, GivenIsAsked, AskedIsGiven

\* What was routed was parsed, and has passed the check of file ownership.
LEMMA PlanInvFits == PlanningAssumption /\ PlanInv => PlansFitTheExecutor
  <1> SUFFICES ASSUME PlanningAssumption, PlanInv, NEW o \in Orchestrators, Routed(o)
               PROVE  LET tasks == orch[o].tasks
                          raw == orch[o].answer
                      IN  /\ \A i \in DOMAIN tasks : tasks[i].deps \subseteq DOMAIN tasks
                          /\ (\A p \in Asked(raw) : p[1] # p[2]) => (\A p \in Given(tasks) : p[1] # p[2])
                          /\ \A i, j \in DOMAIN tasks : i # j =>
                               (tasks[i].creates \cup tasks[i].modifies)
                                 \cap (tasks[j].creates \cup tasks[j].modifies) = {}
    BY DEF PlansFitTheExecutor
  <1>1. /\ orch[o] \in Runs /\ Conflicts(orch[o].tasks) = {}
        /\ orch[o].tasks # <<>> => orch[o].tasks = Parsed(orch[o].answer)
    BY DEF PlanInv, Made, Routed
  <1>2. orch[o].answer \in Seq(RawTasks) /\ orch[o].tasks \in Seq(Tasks)
    BY <1>1 DEF Runs
  <1>3. \A i, j \in DOMAIN orch[o].tasks : i # j =>
           AllFiles(orch[o].tasks[i]) \cap AllFiles(orch[o].tasks[j]) = {}
    BY <1>1, <1>2, NoConflict
  <1>4. \A i \in DOMAIN orch[o].tasks : orch[o].tasks[i].deps \subseteq DOMAIN orch[o].tasks
    <2>1. CASE orch[o].tasks = <<>>
      BY <2>1, EmptySeq, LenProperties
    <2>2. CASE orch[o].tasks # <<>>
      <3> DEFINE raw == orch[o].answer
      <3>1. \A i \in DOMAIN Parsed(raw) :
               Parsed(raw)[i].deps = {j \in DOMAIN Parsed(raw) : <<"int", j - 1>> \in raw[i].deps}
        BY <1>2, ParsedTasks
      <3>2. \A i \in DOMAIN Parsed(raw) : Parsed(raw)[i].deps \subseteq DOMAIN Parsed(raw)
        BY <3>1
      <3> QED
        BY <1>1, <2>2, <3>2
    <2> QED
      BY <2>1, <2>2
  <1>5. Given(orch[o].tasks) \subseteq Asked(orch[o].answer)
    <2>1. CASE orch[o].tasks = <<>>
      <3>1. Given(orch[o].tasks) = {}
        BY <2>1 DEF Given, Closure
      <3> QED
        BY <3>1
    <2>2. CASE orch[o].tasks # <<>>
      BY <1>1, <1>2, <2>2, GivenIsAsked
    <2> QED
      BY <2>1, <2>2
  <1> QED
    BY <1>3, <1>4, <1>5 DEF AllFiles

\* What is shared and what each run has decided hang together as the invariant says,
\* however the runs of a process interleave.
THEOREM PlanInvariant == PlanSpec => []PlanInv
  <1>1. PlanInit => PlanInv
    BY PlanInitInv, PlanningAssumption
  <1>2. PlanInv /\ [PlanNext]_planVars => PlanInv'
    BY PlanNextStep, PlanningAssumption
  <1> QED
    BY <1>1, <1>2, PTL DEF PlanSpec

\* The variables of the planning keep their types.
THEOREM PlanTyped == PlanSpec => []PlanTypeOK
  BY PlanInvariant, PlanInvTyped, PTL

\* For every answer of the planner: no order is invented, and none is lost that does
\* not run through a task that was cut, if the tasks are listed after their dependencies.
THEOREM OrderKept == PlanSpec => []OrderIsKept
  <1>1. PlanInv => OrderIsKept
    BY PlanInvOrder, PlanningAssumption
  <1> QED
    BY <1>1, PlanInvariant, PTL

\* For every answer of the planner: what is routed can be executed.
THEOREM PlansFit == PlanSpec => []PlansFitTheExecutor
  <1>1. PlanInv => PlansFitTheExecutor
    BY PlanInvFits, PlanningAssumption
  <1> QED
    BY <1>1, PlanInvariant, PTL

\* Whichever lists the other runs of the process have, a run uses agents of its own, the
\* best for each task among those left, and fails only if none is left.
THEOREM RoutesFollow == PlanSpec => RoutesFollowTheKeywords
  <1>1. PlanInv /\ [PlanNext]_planVars => [RoutesStep]_planVars
    BY PlanNextStep, PlanningAssumption
  <1> QED
    BY <1>1, PlanInvariant, PTL DEF PlanSpec, RoutesFollowTheKeywords
=============================================================================
