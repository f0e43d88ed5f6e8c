------------------------------ MODULE Delivery ------------------------------
(***************************************************************************)
(* Handoffs that a monitor triggers: HandoffMonitor.check_and_trigger and, *)
(* in it, HandoffOrchestrator.initiate.  Agents run tasks; one whose       *)
(* tokens run out has its task handed off to an agent of the pool.  Calls  *)
(* run in one event loop and meet in the agents' loads; a call is suspended *)
(* only while the package is saved, and the agent that is handed off goes  *)
(* on working meanwhile.                                                   *)
(*                                                                         *)
(* A run is one agent's part in a task: that of the agent which had it     *)
(* first, and one for each time that it was resumed.  Its variables are    *)
(* versions of values, 0 where a key is absent.  What the agent writes to  *)
(* a nested value it writes in place; other values are replaced.           *)
(* A save succeeds or fails, and one that fails may have put the package   *)
(* into the store all the same.  What the stores do with packages, and     *)
(* their expiry, are the subject of HandoffService.                        *)
(***************************************************************************)
EXTENDS Integers, Sequences, FiniteSets

CONSTANTS Calls,
          Pool,                    \* the agents, in the order in which candidates are given
          Able,                    \* those that accept handoffs and have the capabilities
          MaxConcurrency, Window,  \* of each agent
          Weight,                  \* load_weight
          Keys, Nested,            \* variable keys; those with values of mutable types
          FirstRuns,               \* what the first runs may be
          MaxRuns, MaxWrites, MaxFailures   \* bounds

Agents == {Pool[i] : i \in DOMAIN Pool}
Absent == [k \in Keys |-> 0]

FirstRun(a, values, allow) ==
    [parent |-> 0, agent |-> a, active |-> TRUE, values |-> values, allow |-> allow,
     given |-> allow, dropped |-> {}, born |-> Absent, kept |-> Absent]

DeliveryAssumption ==
    /\ \A i, j \in DOMAIN Pool : Pool[i] = Pool[j] => i = j
    /\ Able \subseteq Agents /\ Nested \subseteq Keys
    /\ MaxConcurrency \in [Agents -> Nat] /\ Window \in [Agents -> Nat] /\ Weight \in Nat
    /\ {MaxRuns, MaxWrites, MaxFailures} \subseteq Nat
    /\ FirstRuns \subseteq Seq({FirstRun(a, v, w) : a \in Agents, v \in [Keys -> {0, 1}],
                                                   w \in SUBSET Keys})
    /\ \A first \in FirstRuns : Len(first) <= MaxRuns
    /\ IsFiniteSet(Calls) /\ Calls # {}
ASSUME DeliveryAssumption

VARIABLES run,       \* the runs, in the order of their start
          tracked,   \* agents whose recorded tokens have reached the threshold
          call,      \* call[c]: check_and_trigger, as far as it has come
          stored,    \* stored[r]: the variables of the package of run r, if one is stored
          audit,     \* the entries of the audit log
          failures,  \* saves that have failed
          unanswered,\* history: runs whose package a save has stored, and failed
          writes     \* writes so far

vars == <<run, tracked, call, stored, audit, failures, unanswered, writes>>

Runs == 1 .. MaxRuns
Present(values) == {k \in Keys : values[k] > 0}
NoCall == [at |-> "idle", src |-> 0, loads |-> <<>>, values |-> Absent, allow |-> {},
           dropped |-> {}, shared |-> {}]

Init == /\ run \in FirstRuns
        /\ tracked = {}
        /\ call = [c \in Calls |-> NoCall]
        /\ stored = [r \in Runs |-> {}]
        /\ audit = {} /\ failures = 0 /\ unanswered = {} /\ writes = 0

-----------------------------------------------------------------------------
(* The agents and their runtime *)

Active(r) == r \in DOMAIN run /\ run[r].active
Load(a) == Cardinality({r \in DOMAIN run : Active(r) /\ run[r].agent = a})

Write(r, k) == /\ Active(r) /\ writes < MaxWrites
               /\ run' = [run EXCEPT ![r].values[k] = @ + 1]
               /\ writes' = writes + 1
               /\ UNCHANGED <<tracked, call, stored, audit, failures, unanswered>>

\* record_token_usage.  The tokens of a session only grow.
RecordTokens(a) == /\ Load(a) > 0
                   /\ tracked' = tracked \cup {a}
                   /\ UNCHANGED <<run, call, stored, audit, failures, unanswered, writes>>

Stop(r) == /\ Active(r)
           /\ run' = [run EXCEPT ![r].active = FALSE]
           /\ UNCHANGED <<tracked, call, stored, audit, failures, unanswered, writes>>

-----------------------------------------------------------------------------
(* _sanitize_package.  Without a whitelist the package is copied, and what  *)
(* the copy has is allowed; with one, what it has not is dropped, and values *)
(* are taken from the package as it is: those of mutable types are shared.  *)

\* Faulty variants: the whitelist gets into the package of the agent; the copy is shallow.
Allowed(r) == IF run[r].allow = {} THEN Present(run[r].values) ELSE run[r].allow
SharedAlways(r) == Nested \cap Allowed(r) \cap Present(run[r].values)
SharedKeys(r) == IF run[r].allow = {} THEN {} ELSE SharedAlways(r)
WhitelistLeaks(r) == run' = [run EXCEPT ![r].allow = Allowed(r)]
WhitelistStays(r) == UNCHANGED run

\* should_trigger, and initiate up to the save.  Candidates are given with the loads
\* they have now, or not at all.
\* Faulty variant: an agent that has been handed off is not handed off again.
TriggerOnce(c, r) == /\ run[r].agent \in tracked
                     /\ \A s \in DOMAIN run : run[s].parent # r
                     /\ \A d \in Calls : call[d].src # r
                     /\ failures = 0
ShouldTrigger(c, r) == run[r].agent \in tracked

\* sanitize
Sanitized(r) == [k \in Keys |-> IF k \in Allowed(r) THEN run[r].values[k] ELSE 0]

\* Calls that may still start a run; the bound on runs.
Pending == {c \in Calls : call[c].at # "idle"}

Check(c, r) ==
    /\ call[c].at = "idle" /\ Active(r)
    /\ ShouldTrigger(c, r)
    /\ Len(run) + Cardinality(Pending) < MaxRuns
    /\ \E loads \in {<<>>, [a \in Agents |-> Load(a)]} :
         call' = [call EXCEPT ![c] =
                    [at |-> "saving", src |-> r, loads |-> loads,
                     values |-> Sanitized(r),
                     allow |-> Allowed(r),
                     dropped |-> run[r].dropped \cup (Present(run[r].values) \ Allowed(r)),
                     shared |-> SharedKeys(r)]]
    /\ WhitelistStays(r)
    /\ UNCHANGED <<tracked, stored, audit, failures, unanswered, writes>>

-----------------------------------------------------------------------------
(* CapabilityBasedSelector.select *)

\* Faulty variant: an agent at its limit takes one more.
EligibleAtLimit(loads) == {a \in Able : loads[a] <= MaxConcurrency[a]}
Eligible(loads) == {a \in Able : loads[a] < MaxConcurrency[a]}

Score(a, loads) == (MaxConcurrency[a] - loads[a]) * Weight + Window[a]
Select(loads) ==
    LET E == {i \in DOMAIN Pool : loads # <<>> /\ Pool[i] \in Eligible(loads)}
        Best(i) == \A j \in E : \/ Score(Pool[i], loads) > Score(Pool[j], loads)
                                \/ Score(Pool[i], loads) = Score(Pool[j], loads) /\ i <= j
    IN  {Pool[i] : i \in {k \in E : Best(k)}}

-----------------------------------------------------------------------------
\* on_trigger is called whatever the result; it may reset the tracking of the agent.
\* If it raises, that is logged.
Callback(a) == tracked' \in {tracked, tracked \ {a}}

\* What the injector reads: shared values as the agent has left them.
Injected(p) == [k \in Keys |-> IF k \in p.shared THEN run[p.src].values[k] ELSE p.values[k]]
Resumed(p, a) == [parent |-> p.src, agent |-> a, active |-> TRUE, values |-> Injected(p),
                  allow |-> p.allow, given |-> p.allow, dropped |-> p.dropped,
                  born |-> Injected(p), kept |-> p.values]

StoredEntry(r) == [event |-> "stored", src |-> r, new |-> 0]
InjectedEntry(r, n) == [event |-> "injected", src |-> r, new |-> n]

\* The package is in the store: audit, select, inject, audit, call back.
Finish(c) ==
    LET p == call[c]
        targets == Select(p.loads)
        n == Len(run) + 1
    IN  /\ p.at = "saving"
        /\ stored' = [stored EXCEPT ![p.src] = {p.values}]
        /\ run' = run \o (IF targets = {} THEN <<>>
                          ELSE <<Resumed(p, CHOOSE a \in targets : TRUE)>>)
        /\ audit' = audit \cup {StoredEntry(p.src)}
                          \cup (IF targets = {} THEN {} ELSE {InjectedEntry(p.src, n)})
        /\ Callback(run[p.src].agent)
        /\ call' = [call EXCEPT ![c] = NoCall]
        /\ UNCHANGED <<failures, unanswered, writes>>

\* save raises, and the handoff fails: nothing is audited.  The package is in the store
\* if what failed was the answer.
StoredUnanswered(c) == /\ stored' = [stored EXCEPT ![call[c].src] = {call[c].values}]
                       /\ unanswered' = unanswered \cup {call[c].src}
SaveFails(c) == /\ call[c].at = "saving" /\ failures < MaxFailures
                /\ failures' = failures + 1
                /\ StoredUnanswered(c) \/ UNCHANGED <<stored, unanswered>>
                /\ Callback(run[call[c].src].agent)
                /\ call' = [call EXCEPT ![c] = NoCall]
                /\ UNCHANGED <<run, audit, writes>>

-----------------------------------------------------------------------------
Next == \/ \E r \in Runs : \/ \E k \in Keys : Write(r, k)
                                 \/ Stop(r)
                                 \/ \E c \in Calls : Check(c, r)
        \/ \E a \in Agents : RecordTokens(a)
        \/ \E c \in Calls : Finish(c) \/ SaveFails(c)

Spec == Init /\ [][Next]_vars

\* Agents report their tokens and are checked; a save that is tried again and again
\* succeeds some time.
FairSpec == /\ Spec
            /\ \A a \in Agents : WF_vars(RecordTokens(a))
            /\ \A r \in Runs : SF_vars(\E c \in Calls : Check(c, r))
            /\ \A c \in Calls : WF_vars(Finish(c) \/ SaveFails(c))

-----------------------------------------------------------------------------
(* Properties *)

Values == [Keys -> 0 .. MaxWrites + 1]

\* Every variable keeps its type; a package has no key that is not allowed.
TypeOK ==
    /\ Len(run) <= MaxRuns
    /\ \A r \in DOMAIN run :
         /\ run[r].parent \in 0 .. r - 1 /\ run[r].agent \in Agents
         /\ run[r].values \in Values /\ run[r].allow \subseteq Keys
    /\ tracked \subseteq Agents
    /\ \A c \in Calls : /\ call[c].at \in {"idle", "saving"}
                        /\ call[c].values \in Values
                        /\ Present(call[c].values) \subseteq call[c].allow
    /\ stored \in [Runs -> SUBSET Values] /\ unanswered \subseteq Runs
    /\ failures \in 0 .. MaxFailures /\ writes \in 0 .. MaxWrites

\* Loads are read before a handoff and counted after it, so that handoffs which overlap
\* overload an agent; never by more than the other calls that run at the same time.
OverloadIsBounded ==
    \A a \in Able : (\A r \in DOMAIN run : run[r].agent = a => run[r].parent # 0) =>
        Load(a) <= MaxConcurrency[a] + Cardinality(Calls) - 1

\* A handoff without a whitelist drops nothing, however often and at whatever point of
\* its work the agent is handed off; later handoffs drop only keys that are newer than
\* the first, and name all that has been dropped on the way.
DropsAreRecorded ==
    \A r \in DOMAIN run : run[r].parent # 0 =>
        LET q == run[r].parent
        IN  /\ run[q].parent = 0 /\ run[q].given = {} => run[r].dropped = {}
            /\ run[q].parent # 0 => /\ Present(run[q].born) \subseteq Present(run[r].born)
                                    /\ run[q].dropped \subseteq run[r].dropped
            /\ Present(run[r].born) \cap run[r].dropped = {}

\* What is resumed is what was stored: the agent gets the variables that were stored,
\* whatever the other one has written during the save, except in values that an explicit
\* whitelist makes shared, and the audit log says so.  It names no package as stored that
\* is not in the store, and it lacks one that is there only if a save has stored it and
\* failed (initiate audits after the save has returned).
InjectedIsStored ==
    /\ \A r \in DOMAIN run : run[r].parent # 0 =>
         /\ {StoredEntry(run[r].parent), InjectedEntry(run[r].parent, r)} \subseteq audit
         /\ \A k \in Keys : \/ run[r].born[k] = run[r].kept[k]
                            \/ k \in Nested /\ run[run[r].parent].given # {}
    /\ \A r \in Runs : /\ StoredEntry(r) \in audit => stored[r] # {}
                       /\ stored[r] # {} => StoredEntry(r) \in audit \/ r \in unanswered

\* A callback that resets the tracking does so after a failed handoff as well.  The task
\* is stored all the same, as long as its agent runs and reports its tokens, unless the
\* bound on runs is reached.
BreachIsStored ==
    \A r \in Runs \ {MaxRuns} :
        Active(r) ~> StoredEntry(r) \in audit \/ ~Active(r) \/ Len(run) = MaxRuns
=============================================================================
