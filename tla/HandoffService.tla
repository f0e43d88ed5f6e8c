--------------------------- MODULE HandoffService ---------------------------
(***************************************************************************)
(* HandoffOrchestrator over one of its storage backends: concurrent calls  *)
(* of initiate (the monitor starts the same package again and again while  *)
(* an agent is over its token limit), of cleanup_expired, and a reader     *)
(* that asks for the resume prompt of a stored package.                    *)
(*                                                                         *)
(* Everything runs in one event loop.  The in-memory store never suspends, *)
(* so a call of the orchestrator over it runs to its end undisturbed       *)
(* (busy); the other stores suspend at every request.  The clock goes on   *)
(* in any case; it counts ticks, TicksPerSecond of them to a second.       *)
(* Payloads, audit log and target scores are left out.                     *)
(***************************************************************************)
EXTENDS Integers, FiniteSets

CONSTANTS Ids, Calls, Sweepers,   \* packages, calls of initiate, of cleanup
          PackageOf,              \* PackageOf[c]: the package that call c hands off
          Given,                  \* expires_at a package may come with (or None)
          Backends,               \* the stores a deployment may have
          Lossy,                  \* requests to the store may fail
          TTL, TicksPerSecond, MaxTime,
          None, Nobody

ServiceAssumption == /\ PackageOf \in [Calls -> Ids]
                     /\ TTL \in Nat /\ MaxTime \in Nat /\ TicksPerSecond \in Nat \ {0}
                     /\ Given \subseteq (0 .. MaxTime + TTL) \cup {None}
                     /\ Backends \subseteq {"memory", "redis", "postgres", "s3"}
                     /\ Lossy \in BOOLEAN
                     /\ None \notin Int \cup [expires : Int, evict : Int, late : Int]
                     /\ Nobody \notin Calls \cup Sweepers
                     /\ Calls \cap Sweepers = {}
ASSUME ServiceAssumption

VARIABLES now,
          backend,    \* the store of this deployment
          given,      \* given[c]: meta.expires_at when initiate is called
          call,       \* call[c]: where initiate is, or the status it returned
          expiry,     \* expiry[c]: meta.expires_at of the package being saved
          ttl,        \* ttl[c]: seconds that the Redis store computed
          stored,     \* stored[id]: what the backend holds under the id
          sweep,      \* sweep[s]: a cleanup_expired under way
          busy,       \* the coroutine that runs without suspending
          reader,     \* a handoff_resume_prompt under way, or how it ended
          begun,      \* history: when the Redis store computed a TTL
          last,       \* history: the call whose save landed last, by package
          overtaken   \* history: saves that landed while a cleanup had their id

inputs == <<backend, given>>
callVars == <<inputs, call, expiry, ttl, begun>>
history == <<last, overtaken>>
vars == <<now, callVars, stored, sweep, busy, reader, history>>

Times    == 0 .. MaxTime
Instants == 0 .. MaxTime + 2 * (TTL + MaxTime)
Progress == {"idle", "saving", "saved"}
Results  == {"pending", "resumed", "failed"}

-----------------------------------------------------------------------------
(* The backends *)

\* Redis drops a key when its TTL is over; the others keep what they hold.
Held(id) == stored[id] # None /\ (backend = "redis" => now < stored[id].evict)

\* load: what each store answers.
Served(id) == /\ Held(id)
              /\ backend = "memory"   => ~(now > stored[id].expires)
              /\ backend = "postgres" => stored[id].expires > now

\* list_expired
\* Faulty variant: a package without time left counts as expired too early.
ExpiredTooEarly == {id \in Ids : stored[id] # None /\ stored[id].expires <= now + 1}
\* Faulty variant: the comparison is the wrong way round.
LiveIds == {id \in Ids : stored[id] # None /\ stored[id].expires > now}
ExpiredIds ==
    CASE backend = "memory"   -> {id \in Ids : stored[id] # None /\ now > stored[id].expires}
      [] backend = "postgres" -> {id \in Ids : stored[id] # None /\ stored[id].expires <= now}
      [] OTHER -> {}

-----------------------------------------------------------------------------
Suspends == backend # "memory"
CanRun(a) == busy \in {Nobody, a}
Runs(a) == busy' = IF Suspends THEN Nobody ELSE a     \* up to the next await
Leaves == busy' = Nobody                              \* returns

NoSweep == [at |-> "idle", ids |-> {}]
NoRead == [at |-> "idle", expires |-> 0]

Init == /\ now = 0
        /\ backend \in Backends
        /\ given \in [Calls -> Given]
        /\ call = [c \in Calls |-> "idle"]
        /\ expiry = [c \in Calls |-> 0]
        /\ ttl = [c \in Calls |-> 0]
        /\ stored = [id \in Ids |-> None]
        /\ sweep = [s \in Sweepers |-> NoSweep]
        /\ busy = Nobody
        /\ reader = NoRead
        /\ begun = [c \in Calls |-> 0]
        /\ last = [id \in Ids |-> Nobody]
        /\ overtaken = {}

\* What is left until e, in the whole seconds of a SETEX.
\* Faulty variant: the rest is rounded up.
SecondsRoundedUp(e) == (e - now + TicksPerSecond - 1) \div TicksPerSecond
Seconds(e) == (e - now) \div TicksPerSecond

\* Sanitize, give the package its TTL and send the save request.  The Redis
\* store refuses a package that has less than a second to live.
\* Faulty variant: a package without expires_at does not get the TTL.
BeginWithoutTTL(c) == /\ call[c] = "idle" /\ CanRun(c)
                      /\ expiry' = [expiry EXCEPT ![c] = given[c]]
                      /\ call' = [call EXCEPT ![c] = "saving"]
                      /\ Runs(c)
                      /\ UNCHANGED <<now, inputs, ttl, begun, stored, sweep, reader, history>>
Begin(c) ==
    LET e    == IF given[c] = None THEN now + TTL ELSE given[c]
        secs == IF backend = "redis" THEN Seconds(e) ELSE 0
        refused == backend = "redis" /\ secs <= 0
    IN  /\ call[c] = "idle" /\ CanRun(c)
        /\ expiry' = [expiry EXCEPT ![c] = e]
        /\ ttl' = [ttl EXCEPT ![c] = secs]
        /\ begun' = [begun EXCEPT ![c] = IF backend = "redis" THEN now ELSE 0]
        /\ call' = [call EXCEPT ![c] = IF refused THEN "failed" ELSE "saving"]
        /\ Runs(c)
        /\ UNCHANGED <<now, inputs, stored, sweep, reader, history>>

\* The backend executes the save: an upsert in all four (SETEX in Redis).
EvictAt(c) == IF backend = "redis" THEN now + ttl[c] * TicksPerSecond ELSE 0
Entry(c) == [expires |-> expiry[c], evict |-> EvictAt(c),
             late |-> IF backend = "redis" THEN now - begun[c] ELSE 0]   \* late: history
Land(c) == /\ stored' = [stored EXCEPT ![PackageOf[c]] = Entry(c)]
           /\ last' = [last EXCEPT ![PackageOf[c]] = c]
           /\ overtaken' = IF \E s \in Sweepers : PackageOf[c] \in sweep[s].ids
                           THEN overtaken \cup {c} ELSE overtaken

\* Faulty variant: an existing row is left as it is (ON CONFLICT DO NOTHING, SET NX).
SaveOnce(c) == /\ call[c] = "saving" /\ CanRun(c)
               /\ last' = [last EXCEPT ![PackageOf[c]] = c]
               /\ UNCHANGED overtaken
               /\ stored' = IF Held(PackageOf[c]) THEN stored
                            ELSE [stored EXCEPT ![PackageOf[c]] = Entry(c)]
               /\ call' = [call EXCEPT ![c] = "saved"]
               /\ UNCHANGED <<now, inputs, expiry, ttl, begun, sweep, busy, reader>>
Save(c) == /\ call[c] = "saving" /\ CanRun(c)
           /\ Land(c)
           /\ call' = [call EXCEPT ![c] = "saved"]
           /\ UNCHANGED <<now, inputs, expiry, ttl, begun, sweep, busy, reader>>

\* The request or its answer is lost: StoreError, whether or not it landed.
SaveBreaks(c) == /\ Lossy /\ Suspends
                 /\ call[c] = "saving"
                 /\ Land(c) \/ UNCHANGED <<stored, history>>
                 /\ call' = [call EXCEPT ![c] = "failed"]
                 /\ UNCHANGED <<now, inputs, expiry, ttl, begun, sweep, busy, reader>>

\* Select and inject, without suspending.  Without a suitable candidate the
\* package stays stored; injecting an expired package is an InjectionError.
Deliver(c) == /\ call[c] = "saved" /\ CanRun(c)
              /\ \E r \in {"pending", IF now > expiry[c] THEN "failed" ELSE "resumed"} :
                   call' = [call EXCEPT ![c] = r]
              /\ Leaves
              /\ UNCHANGED <<now, inputs, expiry, ttl, begun, stored, sweep, reader, history>>

-----------------------------------------------------------------------------
(* cleanup_expired: list, then delete one by one, then return the count.   *)

List(s) ==
    /\ sweep[s].at = "idle" /\ CanRun(s)
    /\ sweep' = [sweep EXCEPT ![s] = [at |-> "deleting", ids |-> ExpiredIds]]
    /\ Runs(s)
    /\ UNCHANGED <<now, callVars, stored, reader, history>>

DeleteOne(s) ==
    /\ sweep[s].at = "deleting" /\ CanRun(s)
    /\ \E id \in sweep[s].ids :
         /\ stored' = [stored EXCEPT ![id] = None]
         /\ sweep' = [sweep EXCEPT ![s].ids = @ \ {id}]
    /\ UNCHANGED <<now, callVars, busy, reader, history>>

\* A delete request or its answer is lost: StoreError ends the cleanup, the rest
\* of the list stays, and no count is returned.
SweepBreaks(s) == /\ Lossy /\ Suspends
                  /\ sweep[s].at = "deleting"
                  /\ \E id \in sweep[s].ids :
                       stored' \in {stored, [stored EXCEPT ![id] = None]}
                  /\ sweep' = [sweep EXCEPT ![s] = NoSweep]
                  /\ UNCHANGED <<now, callVars, busy, reader, history>>

SweepReturns(s) == /\ sweep[s].at = "deleting" /\ CanRun(s)
                   /\ sweep[s].ids = {}
                   /\ sweep' = [sweep EXCEPT ![s] = NoSweep]
                   /\ Leaves
                   /\ UNCHANGED <<now, callVars, stored, reader, history>>

\* InMemoryHandoffStore.load deletes an expired entry it comes across.
LoadExpired(id) == /\ backend = "memory" /\ busy = Nobody
                   /\ stored[id] # None /\ now > stored[id].expires
                   /\ stored' = [stored EXCEPT ![id] = None]
                   /\ UNCHANGED <<now, callVars, sweep, busy, reader, history>>

-----------------------------------------------------------------------------
(* handoff_resume_prompt: load, and build the prompt from what came back.  *)
(* The load is answered at one moment and the prompt built at a later one. *)

Read(id) == /\ reader.at = "idle" /\ busy = Nobody /\ Served(id)
            /\ reader' = [at |-> "loaded", expires |-> stored[id].expires]
            /\ UNCHANGED <<now, callVars, stored, sweep, busy, history>>

\* Faulty variant: the prompt is built without a look at the expiry.
PromptBlindly == /\ reader.at = "loaded"
                 /\ reader' = [reader EXCEPT !.at = "prompt"]
                 /\ UNCHANGED <<now, callVars, stored, sweep, busy, history>>
Prompt == /\ reader.at = "loaded"
          /\ reader' = [reader EXCEPT !.at = IF now > reader.expires THEN "refused" ELSE "prompt"]
          /\ UNCHANGED <<now, callVars, stored, sweep, busy, history>>

Tick == /\ now < MaxTime
        /\ now' = now + 1
        /\ UNCHANGED <<callVars, stored, sweep, busy, reader, history>>

CallStep(c) == Begin(c) \/ Save(c) \/ SaveBreaks(c) \/ Deliver(c)
SweepStep(s) == List(s) \/ DeleteOne(s) \/ SweepBreaks(s) \/ SweepReturns(s)

Next == \/ \E c \in Calls : CallStep(c)
        \/ \E s \in Sweepers : SweepStep(s)
        \/ \E id \in Ids : LoadExpired(id) \/ Read(id)
        \/ Prompt
        \/ Tick

Spec == Init /\ [][Next]_vars

\* The event loop resumes every coroutine that can go on; cleanup_expired is
\* called again and again, and the backend does not refuse every delete.
FairSpec == /\ Spec
            /\ \A c \in Calls : WF_vars(Save(c) \/ SaveBreaks(c)) /\ WF_vars(Deliver(c))
            /\ \A s \in Sweepers : SF_vars(DeleteOne(s)) /\ WF_vars(SweepReturns(s))
                                                         /\ WF_vars(List(s))

-----------------------------------------------------------------------------
(* Properties *)

\* Every variable keeps its type.
TypeOK == /\ now \in Times
          /\ backend \in Backends /\ given \in [Calls -> Given]
          /\ call \in [Calls -> Progress \cup Results]
          /\ expiry \in [Calls -> 0 .. MaxTime + TTL]
          /\ ttl \in [Calls -> Int]
          /\ stored \in [Ids -> [expires : 0 .. MaxTime + TTL, evict : Int, late : Times] \cup {None}]
          /\ sweep \in [Sweepers -> [at : {"idle", "deleting"}, ids : SUBSET Ids]]
          /\ busy \in Calls \cup Sweepers \cup {Nobody}
          /\ reader \in [at : {"idle", "loaded", "prompt", "refused"}, expires : 0 .. MaxTime + TTL]
          /\ begun \in [Calls -> Times]
          /\ last \in [Ids -> Calls \cup {Nobody}] /\ overtaken \subseteq Calls

\* Redis counts from the moment the SETEX lands and the store from the moment it
\* computed the TTL: a key is readable after its package's expiry, but for no longer
\* than the request was on its way.
OverstaysOnlyByDelay ==
    \A id \in Ids : backend = "redis" /\ Held(id) => now - stored[id].expires < stored[id].late
                                                      \/ now < stored[id].expires

\* Redis may drop a key up to a second early, its TTL being whole seconds.
Slack == IF backend = "redis" THEN TicksPerSecond ELSE 0
Promised(c) == /\ call[c] = "pending" /\ last[PackageOf[c]] = c
               /\ now + Slack < expiry[c]

\* A call that answers "package stored awaiting delivery" tells the truth: until
\* its time is over (or another call saves the package anew) load returns it,
\* whatever requests get lost.  The one exception is a cleanup that had listed the
\* id before this save; in the in-memory store there is no such cleanup.
PendingIsKept ==
    \A c \in Calls : Promised(c) => Served(PackageOf[c]) \/ (Suspends /\ c \in overtaken)

\* The same without the exception: cleanup_expired, which is to "Remove all expired
\* packages from storage", removes no package that is pending.
PendingIsServed == \A c \in Calls : Promised(c) => Served(PackageOf[c])

\* A package is only injected alive, whichever store it comes from: initiate never
\* answers "resumed" for a package whose time is over, however long its save took,
\* and no prompt is built of a package that expired on its way from the store, or
\* that S3 and Redis have handed out after its time.
ResumedAlive == [][/\ \A c \in Calls : call[c] # "resumed" /\ call'[c] = "resumed"
                       => now <= expiry[c] /\ last[PackageOf[c]] # Nobody
                   /\ reader'.at = "prompt" => now <= reader.expires \/ reader.at = "prompt"]_vars

\* Under repeated sweeping no expired package stays for good in a store that lists
\* the expired ones, however often a delete fails.
Overdue(id) == /\ backend \in {"memory", "postgres"}
               /\ stored[id] # None /\ now > stored[id].expires
ExpiredGoes == \A id \in Ids : Overdue(id) ~> ~Overdue(id)

\* Refinement: seen through load, the in-memory store is a lease per package.  (The
\* others are not: see PendingIsServed, OverstaysOnlyByDelay and the README.)
Lease == INSTANCE PackageLease WITH
             Times <- Instants,
             due <- [id \in Ids |-> IF Suspends \/ last[id] = Nobody THEN None
                                    ELSE expiry[last[id]]],
             lease <- [id \in Ids |-> IF ~Suspends /\ Served(id) THEN stored[id].expires ELSE None]
ImplementsLease == Lease!Spec
=============================================================================
