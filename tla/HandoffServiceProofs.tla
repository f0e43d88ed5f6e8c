------------------------ MODULE HandoffServiceProofs ------------------------
(***************************************************************************)
(* Proofs about HandoffService, for every set of packages, calls and       *)
(* sweepers, every lifetime and every resolution of the clock.             *)
(*                                                                         *)
(* IInv is the inductive invariant.  It follows a package through its      *)
(* store: what is stored belongs to the last save (Entries), what is gone  *)
(* had expired or was taken by a cleanup that knew the id from before      *)
(* (Gone, and Swept for the ids a cleanup still holds), and over the store *)
(* that never suspends there is no such cleanup (Undisturbed).             *)
(***************************************************************************)
EXTENDS HandoffService, TLAPS

-----------------------------------------------------------------------------
(* The inductive invariant *)

\* The time of the package of call c is over, in the eyes of list_expired.
Over(c) == IF backend = "postgres" THEN expiry[c] <= now ELSE expiry[c] < now

\* A save that has landed is that of a call which has sent it.
Landings == /\ \A id \in Ids : last[id] # Nobody =>
                  PackageOf[last[id]] = id /\ call[last[id]] \notin {"idle", "saving"}
            /\ \A c \in Calls : call[c] \in {"saved", "resumed"} => last[PackageOf[c]] # Nobody

\* Between the computation of a TTL and its SETEX.
Timing == \A c \in Calls : call[c] = "saving" =>
             /\ begun[c] <= now
             /\ backend = "redis" =>
                  LET secs == ttl[c] * TicksPerSecond
                  IN secs <= expiry[c] - begun[c] /\ expiry[c] - begun[c] < secs + TicksPerSecond

\* What is stored is what the last save has brought.
Entries == \A id \in Ids : stored[id] # None =>
              /\ last[id] # Nobody /\ stored[id].expires = expiry[last[id]]
              /\ backend = "redis" =>
                   /\ stored[id].expires - TicksPerSecond < stored[id].evict
                   /\ stored[id].evict <= stored[id].expires + stored[id].late

Gone == \A id \in Ids : last[id] # Nobody /\ stored[id] = None =>
           Over(last[id]) \/ last[id] \in overtaken

Swept == \A s \in Sweepers : /\ sweep[s].at = "idle" => sweep[s].ids = {}
                             /\ \A id \in sweep[s].ids :
                                  last[id] # Nobody /\ (Over(last[id]) \/ last[id] \in overtaken)

Undisturbed == ~Suspends => /\ overtaken = {}
                            /\ \A s \in Sweepers : sweep[s].at = "deleting" => busy = s

IInv == TypeOK /\ Landings /\ Timing /\ Entries /\ Gone /\ Swept /\ Undisturbed

-----------------------------------------------------------------------------
(* Lemmas *)

\* Whole seconds are what fits into the ticks, up to a second.
LEMMA WholeSeconds ==
    ASSUME NEW t \in Int
    PROVE  LET secs == (t \div TicksPerSecond) * TicksPerSecond
           IN /\ t \div TicksPerSecond \in Int
              /\ secs <= t /\ t < secs + TicksPerSecond
  <1>1. TicksPerSecond \in Nat /\ TicksPerSecond > 0  BY ServiceAssumption DEF ServiceAssumption
  <1>2. \A n \in Nat \ {0} : /\ t \div n \in Int
                             /\ (t \div n) * n <= t /\ t < (t \div n) * n + n
    BY SMT
  <1> QED  BY <1>1, <1>2

-----------------------------------------------------------------------------
(* The invariant holds in the beginning, and every step keeps it *)

LEMMA InitInv == Init => IInv
  <1> SUFFICES ASSUME Init PROVE IInv  OBVIOUS
  <1> USE ServiceAssumption DEF ServiceAssumption, Init, NoSweep, NoRead
  <1>1. TypeOK  BY DEF TypeOK, Times, Progress, Results
  <1>2. Landings /\ Timing /\ Entries /\ Gone /\ Swept /\ Undisturbed
    BY DEF Landings, Timing, Entries, Gone, Swept, Undisturbed
  <1> QED  BY <1>1, <1>2 DEF IInv

\* What a step leaves alone of a package that is over: it stays over.
LEMMA OverStays ==
    ASSUME TypeOK, NEW c \in Calls, Over(c), expiry'[c] = expiry[c],
           now' \in {now, now + 1}, UNCHANGED backend
    PROVE  Over(c)'
  BY ServiceAssumption DEF ServiceAssumption, TypeOK, Times, Over

LEMMA BeginInv == ASSUME IInv, NEW c \in Calls, Begin(c) PROVE IInv'
  <1> USE ServiceAssumption DEF ServiceAssumption, IInv, inputs, history
  <1> DEFINE e    == IF given[c] = None THEN now + TTL ELSE given[c]
             secs == IF backend = "redis" THEN Seconds(e) ELSE 0
             at   == IF backend = "redis" /\ secs <= 0 THEN "failed" ELSE "saving"
  <1>1. /\ call[c] = "idle" /\ CanRun(c) /\ Runs(c)
        /\ expiry' = [expiry EXCEPT ![c] = e] /\ ttl' = [ttl EXCEPT ![c] = secs]
        /\ begun' = [begun EXCEPT ![c] = IF backend = "redis" THEN now ELSE 0]
        /\ call' = [call EXCEPT ![c] = at]
        /\ UNCHANGED <<now, backend, given, stored, sweep, reader, last, overtaken>>
    BY DEF Begin
  <1>2. e \in 0 .. MaxTime + TTL /\ now \in Nat /\ now <= MaxTime
    <2>1. now \in 0 .. MaxTime /\ given[c] \in Given  BY DEF TypeOK, Times
    <2>2. CASE given[c] = None  BY <2>1, <2>2
    <2>3. CASE given[c] # None
      <3>1. given[c] \in (0 .. MaxTime + TTL) \cup {None}  BY <2>1
      <3>2. given[c] \in 0 .. MaxTime + TTL  BY <2>3, <3>1
      <3> QED  BY <2>1, <2>3, <3>2
    <2> QED  BY <2>1, <2>2, <2>3
  <1>3. backend = "redis" => /\ secs \in Int
                             /\ secs * TicksPerSecond <= e - now
                             /\ e - now < secs * TicksPerSecond + TicksPerSecond
    <2>1. e - now \in Int  BY <1>2
    <2>2. LET q == ((e - now) \div TicksPerSecond) * TicksPerSecond
          IN /\ (e - now) \div TicksPerSecond \in Int
             /\ q <= e - now /\ e - now < q + TicksPerSecond
      BY <2>1, WholeSeconds
    <2>3. backend = "redis" => secs = (e - now) \div TicksPerSecond  BY DEF Seconds
    <2> HIDE DEF e, secs
    <2> QED  BY <2>2, <2>3
  <1>4. \A id \in Ids : last[id] # Nobody => last[id] \in Calls /\ last[id] # c
    BY <1>1 DEF Landings, TypeOK
  <1>5. \A d \in Calls : d # c => expiry'[d] = expiry[d] /\ call'[d] = call[d]
                                  /\ ttl'[d] = ttl[d] /\ begun'[d] = begun[d]
    BY <1>1 DEF TypeOK
  <1>6. expiry'[c] = e /\ call'[c] = at /\ ttl'[c] = secs
        /\ begun'[c] = IF backend = "redis" THEN now ELSE 0
    BY <1>1 DEF TypeOK
  <1> HIDE DEF e, secs
  <1>7. TypeOK'
    <2>1. busy' \in Calls \cup Sweepers \cup {Nobody}  BY <1>1 DEF Runs
    <2>2. secs \in Int  BY <1>3 DEF secs
    <2>3. at \in Progress \cup Results  BY DEF Progress, Results
    <2>4. call' \in [Calls -> Progress \cup Results]  BY <1>1, <2>3 DEF TypeOK
    <2>5. expiry' \in [Calls -> 0 .. MaxTime + TTL] /\ ttl' \in [Calls -> Int]
      BY <1>1, <1>2, <2>2 DEF TypeOK
    <2>6. begun' \in [Calls -> Times]  BY <1>1, <1>2 DEF TypeOK, Times
    <2> QED  BY <1>1, <2>1, <2>4, <2>5, <2>6 DEF TypeOK
  <1>8. Landings'
    <2>1. \A d \in Calls : call'[d] \in {"saved", "resumed"} => last[PackageOf[d]] # Nobody
      BY <1>5, <1>6 DEF Landings
    <2>2. \A id \in Ids : last[id] # Nobody =>
             PackageOf[last[id]] = id /\ call'[last[id]] \notin {"idle", "saving"}
      BY <1>4, <1>5 DEF Landings
    <2> QED  BY <1>1, <2>1, <2>2 DEF Landings
  <1>9. Timing'
    <2> SUFFICES ASSUME NEW d \in Calls, call'[d] = "saving"
                 PROVE  /\ begun'[d] <= now'
                        /\ backend' = "redis" =>
                             /\ ttl'[d] * TicksPerSecond <= expiry'[d] - begun'[d]
                             /\ expiry'[d] - begun'[d] < ttl'[d] * TicksPerSecond + TicksPerSecond
      BY DEF Timing
    <2>1. CASE d = c  BY <2>1, <1>1, <1>2, <1>3, <1>6
    <2>2. CASE d # c  BY <2>2, <1>1, <1>5 DEF Timing
    <2> QED  BY <2>1, <2>2
  <1>10. Entries'  BY <1>1, <1>4, <1>5 DEF Entries
  <1>11. \A d \in Calls : d # c /\ Over(d) => Over(d)'  BY <1>1, <1>5 DEF Over
  <1>12. Gone'  BY <1>1, <1>4, <1>11 DEF Gone
  <1>13. Swept'
    <2>1. \A s \in Sweepers : \A id \in sweep[s].ids : id \in Ids  BY DEF TypeOK
    <2> QED  BY <1>1, <1>4, <1>11, <2>1 DEF Swept
  <1>14. Undisturbed'  BY <1>1 DEF Undisturbed, Suspends, CanRun, Runs
  <1> QED  BY <1>7, <1>8, <1>9, <1>10, <1>12, <1>13, <1>14

\* The two ways in which a save lands: answered, and with its answer lost.
LEMMA LandInv ==
    ASSUME IInv, NEW c \in Calls, call[c] = "saving", Land(c),
           NEW result \in {"saved", "failed"}, call' = [call EXCEPT ![c] = result],
           ~Suspends => CanRun(c),
           UNCHANGED <<now, inputs, expiry, ttl, begun, sweep, busy, reader>>
    PROVE  IInv'
  <1> USE ServiceAssumption DEF ServiceAssumption, IInv, inputs
  <1> DEFINE p == PackageOf[c]
  <1>1. /\ p \in Ids /\ stored' = [stored EXCEPT ![p] = Entry(c)]
        /\ last' = [last EXCEPT ![p] = c]
        /\ overtaken' = IF \E s \in Sweepers : p \in sweep[s].ids
                        THEN overtaken \cup {c} ELSE overtaken
    BY DEF Land
  <1>2. \A id \in Ids : /\ id # p => stored'[id] = stored[id] /\ last'[id] = last[id]
                        /\ id = p => stored'[id] = Entry(c) /\ last'[id] = c
    BY <1>1 DEF TypeOK
  <1>3. call'[c] = result /\ \A d \in Calls : d # c => call'[d] = call[d]
    BY DEF TypeOK
  <1>4. \A id \in Ids : last[id] # c  BY DEF Landings
  <1>5. begun[c] \in Times /\ now \in Nat /\ now <= MaxTime /\ begun[c] <= now
        /\ expiry[c] \in 0 .. MaxTime + TTL /\ ttl[c] \in Int
    BY DEF TypeOK, Times, Timing
  <1>6. backend = "redis" => /\ EvictAt(c) = now + ttl[c] * TicksPerSecond
                             /\ ttl[c] * TicksPerSecond \in Int
                             /\ expiry[c] - TicksPerSecond < EvictAt(c)
                             /\ EvictAt(c) <= expiry[c] + (now - begun[c])
    <2>1. ttl[c] * TicksPerSecond \in Int  BY <1>5
    <2>2. backend = "redis" => /\ ttl[c] * TicksPerSecond <= expiry[c] - begun[c]
                               /\ expiry[c] - begun[c] < ttl[c] * TicksPerSecond + TicksPerSecond
      BY DEF Timing
    <2>3. backend = "redis" => EvictAt(c) = now + ttl[c] * TicksPerSecond  BY DEF EvictAt
    <2> QED  BY <1>5, <2>1, <2>2, <2>3, TicksPerSecond \in Nat, begun[c] \in Nat DEF Times
  <1>7. Entry(c) \in [expires : 0 .. MaxTime + TTL, evict : Int, late : Times]
    BY <1>5, <1>6 DEF Entry, EvictAt, Times
  <1>8. TypeOK'
    <2>1. stored' \in [Ids -> [expires : 0 .. MaxTime + TTL, evict : Int, late : Times] \cup {None}]
      BY <1>1, <1>7 DEF TypeOK
    <2>2. call' \in [Calls -> Progress \cup Results]  BY DEF TypeOK, Progress, Results
    <2>3. last' \in [Ids -> Calls \cup {Nobody}] /\ overtaken' \subseteq Calls
      BY <1>1 DEF TypeOK
    <2> QED  BY <2>1, <2>2, <2>3 DEF TypeOK
  <1>9. Landings'
    <2>1. ASSUME NEW id \in Ids, last'[id] # Nobody
          PROVE  PackageOf[last'[id]] = id /\ call'[last'[id]] \notin {"idle", "saving"}
      <3>1. CASE id = p  BY <3>1, <1>2, <1>3
      <3>2. CASE id # p
        <4>1. last'[id] = last[id] /\ last[id] \in Calls /\ last[id] # c
          BY <2>1, <3>2, <1>2, <1>4 DEF TypeOK
        <4> QED  BY <2>1, <4>1, <1>3 DEF Landings
      <3> QED  BY <3>1, <3>2
    <2>2. ASSUME NEW d \in Calls, call'[d] \in {"saved", "resumed"}
          PROVE  last'[PackageOf[d]] # Nobody
      <3>1. CASE PackageOf[d] = p  BY <3>1, <1>1, <1>2
      <3>2. CASE PackageOf[d] # p
        <4>1. d # c /\ PackageOf[d] \in Ids  BY <3>2
        <4> QED  BY <2>2, <3>2, <4>1, <1>2, <1>3 DEF Landings
      <3> QED  BY <3>1, <3>2
    <2> QED  BY <2>1, <2>2 DEF Landings
  <1>10. Timing'
    <2>1. \A d \in Calls : call'[d] = "saving" => call[d] = "saving"  BY <1>3
    <2> QED  BY <2>1 DEF Timing
  <1>11. Entries'
    <2> SUFFICES ASSUME NEW id \in Ids, stored'[id] # None
                 PROVE  /\ last'[id] # Nobody /\ stored'[id].expires = expiry'[last'[id]]
                        /\ backend' = "redis" =>
                             /\ stored'[id].expires - TicksPerSecond < stored'[id].evict
                             /\ stored'[id].evict <= stored'[id].expires + stored'[id].late
      BY DEF Entries
    <2>1. CASE id # p  BY <2>1, <1>2 DEF Entries
    <2>2. CASE id = p
      <3>1. stored'[id] = Entry(c) /\ last'[id] = c  BY <2>2, <1>2
      <3>2. /\ Entry(c).expires = expiry[c] /\ Entry(c).evict = EvictAt(c)
            /\ backend = "redis" => Entry(c).late = now - begun[c]
        BY DEF Entry
      <3> QED  BY <3>1, <3>2, <1>6
    <2> QED  BY <2>1, <2>2
  <1>12. \A d \in Calls : Over(d)' <=> Over(d)  BY DEF Over
  <1>13. Gone'
    <2>1. Entry(c) # None  BY <1>7 DEF Times
    <2> QED  BY <1>1, <1>2, <1>12, <2>1 DEF Gone, TypeOK
  <1>14. Swept'  BY <1>1, <1>2, <1>12 DEF Swept, TypeOK
  <1>15. Undisturbed'
    <2> SUFFICES ASSUME ~Suspends PROVE Undisturbed'  BY DEF Undisturbed, Suspends
    <2>1. \A s \in Sweepers : sweep[s].at # "deleting"  BY DEF Undisturbed, CanRun
    <2>2. \A s \in Sweepers : sweep[s].ids = {}  BY <2>1 DEF Swept, TypeOK
    <2> QED  BY <1>1, <2>1, <2>2 DEF Undisturbed
  <1> QED  BY <1>8, <1>9, <1>10, <1>11, <1>13, <1>14, <1>15

\* A lost save that has not landed, and the delivery, which ends a call that has saved.
LEMMA CallEndsInv ==
    ASSUME IInv, NEW c \in Calls, NEW result \in Results,
           call[c] \in {"saving", "saved"}, call[c] = "saving" => result = "failed",
           call' = [call EXCEPT ![c] = result],
           busy' = busy \/ (CanRun(c) /\ Leaves),
           UNCHANGED <<now, inputs, expiry, ttl, begun, stored, sweep, reader, history>>
    PROVE  IInv'
  <1> USE ServiceAssumption DEF ServiceAssumption, IInv, inputs, history
  <1>1. call'[c] = result /\ \A d \in Calls : d # c => call'[d] = call[d]
    BY DEF TypeOK
  <1>2. result \notin Progress  BY DEF Results, Progress
  <1>3. TypeOK'
    <2>1. call' \in [Calls -> Progress \cup Results]  BY DEF TypeOK
    <2>2. busy' \in Calls \cup Sweepers \cup {Nobody}  BY DEF TypeOK, Leaves
    <2> QED  BY <2>1, <2>2 DEF TypeOK
  <1>4. Landings'
    <2>1. \A d \in Calls : call'[d] \in {"saved", "resumed"} => call[d] \in {"saved", "resumed"}
      BY <1>1, <1>2 DEF Progress
    <2>2. \A id \in Ids : last[id] # Nobody =>
             PackageOf[last[id]] = id /\ call'[last[id]] \notin {"idle", "saving"}
      BY <1>1, <1>2 DEF Landings, TypeOK, Progress
    <2> QED  BY <2>1, <2>2 DEF Landings
  <1>5. Timing'  BY <1>1, <1>2 DEF Timing, Progress
  <1>6. Entries' /\ Gone' /\ Swept'  BY DEF Entries, Gone, Swept, Over
  <1>7. Undisturbed'  BY DEF Undisturbed, Suspends, CanRun, Leaves
  <1> QED  BY <1>3, <1>4, <1>5, <1>6, <1>7

LEMMA CallStepInv == ASSUME IInv, NEW c \in Calls, CallStep(c) PROVE IInv'
  <1>1. CASE Begin(c)  BY <1>1, BeginInv
  <1>2. CASE Save(c)  BY <1>2, LandInv DEF Save
  <1>3. CASE SaveBreaks(c) /\ Land(c)  BY <1>3, LandInv DEF SaveBreaks
  <1>4. CASE SaveBreaks(c) /\ UNCHANGED <<stored, history>>
    BY <1>4, CallEndsInv DEF SaveBreaks, Results
  <1>5. CASE Deliver(c)  BY <1>5, CallEndsInv DEF Deliver, Results
  <1> QED  BY <1>1, <1>2, <1>3, <1>4, <1>5 DEF CallStep, SaveBreaks

\* list_expired answers with what is over.
LEMMA ExpiredIdsAreOver ==
    ASSUME IInv
    PROVE  ExpiredIds \subseteq {id \in Ids : last[id] # Nobody /\ Over(last[id])}
  BY ServiceAssumption DEF ServiceAssumption, IInv, TypeOK, ExpiredIds, Entries, Over

\* The removal of a package that is over, by a cleanup or by a load.
LEMMA RemovalInv ==
    ASSUME IInv, NEW id \in Ids, last[id] # Nobody, Over(last[id]) \/ last[id] \in overtaken,
           stored' = [stored EXCEPT ![id] = None],
           UNCHANGED <<now, callVars, history>>
    PROVE  Entries' /\ Gone' /\ stored' \in [Ids -> [expires : 0 .. MaxTime + TTL, evict : Int, late : Times]
                                                      \cup {None}]
  BY DEF IInv, TypeOK, callVars, inputs, history, Entries, Gone, Over

LEMMA SweepStepInv == ASSUME IInv, NEW s \in Sweepers, SweepStep(s) PROVE IInv'
  <1> USE ServiceAssumption DEF ServiceAssumption, IInv, callVars, inputs, history
  <1>1. UNCHANGED <<now, callVars, reader, history>>
    BY DEF SweepStep, List, DeleteOne, SweepBreaks, SweepReturns
  <1>2. Landings' /\ Timing'  BY <1>1 DEF Landings, Timing
  <1>3. \A c \in Calls : Over(c)' <=> Over(c)  BY <1>1 DEF Over
  <1>4. CASE List(s)
    <2>1. /\ stored' = stored /\ sweep' = [sweep EXCEPT ![s] = [at |-> "deleting", ids |-> ExpiredIds]]
          /\ CanRun(s) /\ Runs(s)
      BY <1>4 DEF List
    <2>2. ExpiredIds \subseteq Ids  BY ExpiredIdsAreOver
    <2>3. TypeOK'
      <3>1. busy' \in Calls \cup Sweepers \cup {Nobody}  BY <2>1 DEF Runs
      <3>2. sweep' \in [Sweepers -> [at : {"idle", "deleting"}, ids : SUBSET Ids]]
        BY <2>1, <2>2 DEF TypeOK
      <3> QED  BY <1>1, <2>1, <3>1, <3>2 DEF TypeOK
    <2>4. Entries' /\ Gone'  BY <1>1, <2>1 DEF Entries, Gone, Over
    <2>5. Swept'
      <3>1. \A u \in Sweepers : \A id \in sweep'[u].ids : id \in ExpiredIds \/ id \in sweep[u].ids
        BY <2>1 DEF TypeOK
      <3>2. \A u \in Sweepers : sweep'[u].at = "idle" => sweep'[u].ids = {}
        BY <2>1 DEF TypeOK, Swept
      <3>3. ASSUME NEW u \in Sweepers, NEW id \in sweep'[u].ids
            PROVE  last[id] # Nobody /\ (Over(last[id]) \/ last[id] \in overtaken)
        BY <3>1, ExpiredIdsAreOver DEF Swept
      <3> QED  BY <1>1, <3>2, <3>3 DEF Swept, Over
    <2>6. Undisturbed'  BY <1>1, <2>1 DEF Undisturbed, Suspends, CanRun, Runs, TypeOK
    <2> QED  BY <1>2, <2>3, <2>4, <2>5, <2>6
  <1>5. CASE DeleteOne(s)
    <2>1. PICK id \in sweep[s].ids : /\ stored' = [stored EXCEPT ![id] = None]
                                     /\ sweep' = [sweep EXCEPT ![s].ids = @ \ {id}]
      BY <1>5 DEF DeleteOne
    <2>2. id \in Ids /\ last[id] # Nobody /\ (Over(last[id]) \/ last[id] \in overtaken)
      BY DEF TypeOK, Swept
    <2>3. Entries' /\ Gone' /\ stored' \in [Ids -> [expires : 0 .. MaxTime + TTL, evict : Int, late : Times]
                                                      \cup {None}]
      BY <1>1, <2>1, <2>2, RemovalInv
    <2>4. /\ busy' = busy
          /\ \A u \in Sweepers : sweep'[u].at = sweep[u].at /\ sweep'[u].ids \subseteq sweep[u].ids
      BY <1>5, <2>1 DEF DeleteOne, TypeOK
    <2>5. sweep' \in [Sweepers -> [at : {"idle", "deleting"}, ids : SUBSET Ids]]
      BY <2>1 DEF TypeOK
    <2>6. TypeOK'  BY <1>1, <2>3, <2>4, <2>5 DEF TypeOK
    <2>7. Swept' /\ Undisturbed'
      BY <1>1, <2>4 DEF Swept, Undisturbed, Suspends, Over
    <2> QED  BY <1>2, <2>3, <2>6, <2>7
  <1>6. CASE SweepBreaks(s)
    <2>1. PICK id \in sweep[s].ids : stored' \in {stored, [stored EXCEPT ![id] = None]}
      BY <1>6 DEF SweepBreaks
    <2>2. id \in Ids /\ last[id] # Nobody /\ (Over(last[id]) \/ last[id] \in overtaken)
      BY DEF TypeOK, Swept
    <2>3. Entries' /\ Gone' /\ stored' \in [Ids -> [expires : 0 .. MaxTime + TTL, evict : Int, late : Times]
                                                      \cup {None}]
      <3>1. CASE stored' = stored  BY <1>1, <3>1 DEF TypeOK, Entries, Gone, Over
      <3>2. CASE stored' = [stored EXCEPT ![id] = None]  BY <1>1, <2>2, <3>2, RemovalInv
      <3> QED  BY <2>1, <3>1, <3>2
    <2>4. busy' = busy /\ Suspends /\ sweep' = [sweep EXCEPT ![s] = NoSweep]
      BY <1>6 DEF SweepBreaks
    <2>5. TypeOK'  BY <1>1, <2>3, <2>4 DEF TypeOK, NoSweep
    <2>6. Swept' /\ Undisturbed'
      BY <1>1, <2>4 DEF Swept, Undisturbed, Suspends, Over, NoSweep, TypeOK
    <2> QED  BY <1>2, <2>3, <2>5, <2>6
  <1>7. CASE SweepReturns(s)
    <2>1. /\ stored' = stored /\ busy' = Nobody /\ sweep' = [sweep EXCEPT ![s] = NoSweep]
          /\ sweep[s].at = "deleting" /\ CanRun(s)
      BY <1>7 DEF SweepReturns, Leaves
    <2>2. TypeOK'  BY <1>1, <2>1 DEF TypeOK, NoSweep
    <2>3. Entries' /\ Gone'  BY <1>1, <2>1 DEF Entries, Gone, Over
    <2>4. Swept'  BY <1>1, <2>1 DEF Swept, Over, NoSweep, TypeOK
    <2>5. Undisturbed'  BY <1>1, <2>1 DEF Undisturbed, Suspends, CanRun, NoSweep, TypeOK
    <2> QED  BY <1>2, <2>2, <2>3, <2>4, <2>5
  <1> QED  BY <1>4, <1>5, <1>6, <1>7 DEF SweepStep

LEMMA LoadExpiredInv == ASSUME IInv, NEW id \in Ids, LoadExpired(id) PROVE IInv'
  <1> USE DEF IInv, callVars, inputs, history
  <1>1. /\ stored' = [stored EXCEPT ![id] = None] /\ stored[id] # None
        /\ backend = "memory" /\ now > stored[id].expires
        /\ UNCHANGED <<now, callVars, sweep, busy, reader, history>>
    BY DEF LoadExpired
  <1>2. last[id] # Nobody /\ Over(last[id])
    BY <1>1, ServiceAssumption DEF ServiceAssumption, Entries, Over, TypeOK, Times
  <1>3. Entries' /\ Gone' /\ stored' \in [Ids -> [expires : 0 .. MaxTime + TTL, evict : Int, late : Times]
                                                    \cup {None}]
    BY <1>1, <1>2, RemovalInv
  <1>4. TypeOK'  BY <1>1, <1>3 DEF TypeOK
  <1>5. Landings' /\ Timing' /\ Swept' /\ Undisturbed'
    BY <1>1 DEF Landings, Timing, Swept, Undisturbed, Over, Suspends
  <1> QED  BY <1>3, <1>4, <1>5

\* The clock makes nothing that is over come back.
LEMMA TickInv == ASSUME IInv, Tick PROVE IInv'
  <1> USE DEF IInv, callVars, inputs, history
  <1>1. /\ now \in Nat /\ now' = now + 1 /\ now' \in Times
        /\ UNCHANGED <<callVars, stored, sweep, busy, reader, history>>
    BY ServiceAssumption DEF ServiceAssumption, Tick, TypeOK, Times
  <1>2. \A c \in Calls : Over(c) => Over(c)'  BY <1>1, OverStays
  <1>3. TypeOK'  BY <1>1 DEF TypeOK
  <1>4. Landings' /\ Entries' /\ Undisturbed'
    BY <1>1 DEF Landings, Entries, Undisturbed, Suspends
  <1>5. Timing'  BY <1>1 DEF Timing, TypeOK, Times
  <1>6. Gone' /\ Swept'  BY <1>1, <1>2 DEF Gone, Swept, TypeOK
  <1> QED  BY <1>3, <1>4, <1>5, <1>6

LEMMA ReaderInv == ASSUME IInv, (\E id \in Ids : Read(id)) \/ Prompt PROVE IInv'
  <1> USE DEF IInv, callVars, inputs, history
  <1>1. UNCHANGED <<now, callVars, stored, sweep, busy, history>>  BY DEF Read, Prompt
  <1>2. reader' \in [at : {"idle", "loaded", "prompt", "refused"}, expires : 0 .. MaxTime + TTL]
    <2>1. CASE Prompt  BY <2>1 DEF Prompt, TypeOK
    <2>2. ASSUME NEW id \in Ids, Read(id)
          PROVE  reader' \in [at : {"idle", "loaded", "prompt", "refused"}, expires : 0 .. MaxTime + TTL]
      BY <2>2 DEF Read, Served, Held, TypeOK
    <2> QED  BY <2>1, <2>2
  <1>3. TypeOK'  BY <1>1, <1>2 DEF TypeOK
  <1>4. Landings' /\ Timing' /\ Entries' /\ Gone' /\ Swept' /\ Undisturbed'
    BY <1>1 DEF Landings, Timing, Entries, Gone, Swept, Undisturbed, Over, Suspends
  <1> QED  BY <1>3, <1>4

LEMMA NextInv == IInv /\ [Next]_vars => IInv'
  <1> SUFFICES ASSUME IInv, [Next]_vars PROVE IInv'  OBVIOUS
  <1>1. ASSUME NEW c \in Calls, CallStep(c) PROVE IInv'  BY <1>1, CallStepInv
  <1>2. ASSUME NEW s \in Sweepers, SweepStep(s) PROVE IInv'  BY <1>2, SweepStepInv
  <1>3. ASSUME NEW id \in Ids, LoadExpired(id) PROVE IInv'  BY <1>3, LoadExpiredInv
  <1>4. CASE (\E id \in Ids : Read(id)) \/ Prompt  BY <1>4, ReaderInv
  <1>5. CASE Tick  BY <1>5, TickInv
  <1>6. CASE UNCHANGED vars
    BY <1>6 DEF vars, callVars, inputs, history, IInv, TypeOK, Landings, Timing, Entries, Gone,
                Swept, Undisturbed, Over, Suspends
  <1> QED  BY <1>1, <1>2, <1>3, <1>4, <1>5, <1>6 DEF Next

\* The inductive invariant, from which the theorems follow.
THEOREM Invariance == Spec => []IInv
  BY InitInv, NextInv, PTL DEF Spec

-----------------------------------------------------------------------------
(* Theorems *)

\* The variables keep their types, for every set of calls, packages and sweepers.
THEOREM TypeCorrect == Spec => []TypeOK
  <1>1. IInv => TypeOK  BY DEF IInv
  <1> QED  BY <1>1, Invariance, PTL

\* redis_store.py: a key outlives its package by less than its SETEX was delayed.
THEOREM OverstayIsBounded == Spec => []OverstaysOnlyByDelay
  <1>1. IInv => OverstaysOnlyByDelay
    <2> SUFFICES ASSUME IInv, NEW id \in Ids, backend = "redis", Held(id)
                 PROVE  now - stored[id].expires < stored[id].late
      BY DEF OverstaysOnlyByDelay
    <2>1. stored[id] # None /\ now < stored[id].evict  BY DEF Held
    <2>2. stored[id].evict <= stored[id].expires + stored[id].late
      BY <2>1 DEF IInv, Entries
    <2>3. stored[id] \in [expires : 0 .. MaxTime + TTL, evict : Int, late : Times] /\ now \in Times
      BY <2>1 DEF IInv, TypeOK
    <2> QED  BY <2>1, <2>2, <2>3 DEF Times
  <1> QED  BY <1>1, Invariance, PTL

\* initiate: what is said to be stored awaiting delivery is there, over each of the
\* stores, unless a cleanup knew its id from before.
THEOREM PendingStays == Spec => []PendingIsKept
  <1>1. IInv => PendingIsKept
    <2> SUFFICES ASSUME IInv, NEW c \in Calls, Promised(c)
                 PROVE  Served(PackageOf[c]) \/ (Suspends /\ c \in overtaken)
      BY DEF PendingIsKept
    <2> DEFINE p == PackageOf[c]
    <2> USE ServiceAssumption DEF ServiceAssumption, IInv
    <2>1. p \in Ids /\ last[p] = c /\ c # Nobody  BY DEF Promised
    <2>2. now \in Int /\ expiry[c] \in Int /\ now + Slack < expiry[c] /\ Slack \in Nat
      BY DEF Promised, TypeOK, Times, Slack
    <2>3. ~Over(c)  BY <2>2 DEF Over
    <2>4. CASE stored[p] = None
      <3>1. c \in overtaken  BY <2>1, <2>3, <2>4 DEF Gone
      <3> QED  BY <3>1 DEF Undisturbed
    <2>5. CASE stored[p] # None
      <3>1. stored[p].expires = expiry[c]  BY <2>1, <2>5 DEF Entries
      <3>2. backend = "redis" => now < stored[p].evict
        <4>1. backend = "redis" => stored[p].expires - TicksPerSecond < stored[p].evict
          BY <2>5 DEF Entries, Promised
        <4>2. stored[p].evict \in Int  BY <2>1, <2>5 DEF TypeOK
        <4> QED  BY <2>2, <3>1, <4>1, <4>2 DEF Slack
      <3> QED  BY <2>2, <2>5, <3>1, <3>2 DEF Served, Held
    <2> QED  BY <2>4, <2>5
  <1> QED  BY <1>1, Invariance, PTL

\* injector.py and the MCP server: nothing is injected, and no prompt is built, of a
\* package whose time is over.
THEOREM OnlyLivePackagesResume == Spec => ResumedAlive
  <1> DEFINE Step == /\ \A c \in Calls : call[c] # "resumed" /\ call'[c] = "resumed"
                          => now <= expiry[c] /\ last[PackageOf[c]] # Nobody
                     /\ reader'.at = "prompt" => now <= reader.expires \/ reader.at = "prompt"
  <1>1. IInv /\ [Next]_vars => [Step]_vars
    <2> SUFFICES ASSUME IInv, Next PROVE Step  OBVIOUS
    <2>1. ASSUME NEW c \in Calls, call[c] # "resumed", call'[c] = "resumed"
          PROVE  now <= expiry[c] /\ last[PackageOf[c]] # Nobody
      <3>1. ASSUME NEW d \in Calls, Deliver(d)
            PROVE  now <= expiry[c] /\ last[PackageOf[c]] # Nobody
        <4>1. c = d /\ call[c] = "saved"  BY <2>1, <3>1 DEF Deliver, IInv, TypeOK
        <4>2. call'[c] \in {"pending", IF now > expiry[c] THEN "failed" ELSE "resumed"}
          BY <3>1, <4>1 DEF Deliver, IInv, TypeOK
        <4>3. now \in Int /\ expiry[c] \in Int
          BY ServiceAssumption DEF ServiceAssumption, IInv, TypeOK, Times
        <4> QED  BY <2>1, <4>1, <4>2, <4>3 DEF IInv, Landings
      <3>2. ASSUME NEW d \in Calls, Begin(d) \/ Save(d) \/ SaveBreaks(d) PROVE FALSE
        <4>1. \/ call' = [call EXCEPT ![d] = "saving"] \/ call' = [call EXCEPT ![d] = "saved"]
              \/ call' = [call EXCEPT ![d] = "failed"]
          BY <3>2 DEF Begin, Save, SaveBreaks
        <4> QED  BY <2>1, <4>1 DEF IInv, TypeOK
      <3>3. CASE call' = call  BY <2>1, <3>3
      <3> QED
        BY <3>1, <3>2, <3>3 DEF Next, CallStep, SweepStep, List, DeleteOne, SweepBreaks,
           SweepReturns, LoadExpired, Read, Prompt, Tick, callVars
    <2>2. reader'.at = "prompt" => now <= reader.expires \/ reader.at = "prompt"
      <3>1. CASE Prompt
        <4>1. now \in Int /\ reader.expires \in Int
          BY ServiceAssumption DEF ServiceAssumption, IInv, TypeOK, Times
        <4> QED  BY <3>1, <4>1 DEF Prompt, IInv, TypeOK
      <3>2. ASSUME NEW id \in Ids, Read(id) PROVE reader'.at = "loaded"  BY <3>2 DEF Read
      <3>3. CASE reader' = reader  BY <3>3
      <3> QED
        BY <3>1, <3>2, <3>3 DEF Next, CallStep, Begin, Save, SaveBreaks, Deliver, SweepStep, List,
           DeleteOne, SweepBreaks, SweepReturns, LoadExpired, Tick
    <2> QED  BY <2>1, <2>2
  <1> QED  BY <1>1, Invariance, PTL DEF Spec, ResumedAlive

-----------------------------------------------------------------------------
(* The refinement of PackageLease                                          *)

\* The lease as PackageLease sees it.
LeaseDue == [id \in Ids |-> IF Suspends \/ last[id] = Nobody THEN None ELSE expiry[last[id]]]
LeaseOf == [id \in Ids |-> IF ~Suspends /\ Served(id) THEN stored[id].expires ELSE None]

\* A step that leaves the clock, and every package as load answers it, is a stutter.
LEMMA Stutters ==
    ASSUME IInv, UNCHANGED <<now, backend, last>>,
           \A id \in Ids : last[id] # Nobody => expiry'[last[id]] = expiry[last[id]],
           ~Suspends => \A id \in Ids : \/ stored'[id] = stored[id]
                                        \/ ~Served(id) /\ stored'[id] = None
    PROVE  UNCHANGED Lease!vars
  <1> USE DEF Suspends
  <1>1. LeaseDue' = LeaseDue  BY DEF LeaseDue
  <1>2. \A id \in Ids : ~Suspends /\ stored'[id] = stored[id] => (Served(id)' <=> Served(id))
    BY DEF Served, Held
  <1>3. \A id \in Ids : stored'[id] = None => ~Served(id)'  BY DEF Served, Held
  <1>4. LeaseOf' = LeaseOf  BY <1>2, <1>3 DEF LeaseOf
  <1> QED  BY <1>1, <1>4 DEF Lease!vars, LeaseDue, LeaseOf

\* A save, and what load answers from then on.
LEMMA SaveRefines ==
    ASSUME IInv, NEW c \in Calls, Save(c), ~Suspends,
           NEW p \in Ids, p = PackageOf[c], NEW e \in Instants, e = expiry[c]
    PROVE  Lease!Save(p, e)
  <1> USE ServiceAssumption DEF ServiceAssumption, IInv, inputs, Suspends
  <1>1. /\ p \in Ids /\ stored' = [stored EXCEPT ![p] = Entry(c)] /\ last' = [last EXCEPT ![p] = c]
        /\ UNCHANGED <<now, backend, expiry>> /\ backend = "memory"
    BY DEF Save, Land
  <1>2. now \in Int /\ e \in Int /\ e # None /\ c # Nobody  BY DEF TypeOK, Times
  <1>3. Entry(c).expires = e /\ Entry(c) # None
    <2>1. begun[c] \in Times /\ now \in Times  BY DEF TypeOK
    <2>2. Entry(c) \in [expires : Int, evict : Int, late : Int]
      BY <1>1, <1>2 DEF Entry, EvictAt
    <2> QED  BY <2>2 DEF Entry
  <1>4. LeaseDue' = [LeaseDue EXCEPT ![p] = e]
    BY <1>1, <1>2 DEF LeaseDue, TypeOK
  <1>5. \A id \in Ids : id # p => (Served(id)' <=> Served(id)) /\ stored'[id] = stored[id]
    BY <1>1 DEF Served, Held, TypeOK
  <1>6. stored'[p] = Entry(c) /\ (Served(p)' <=> ~(now > e))
    BY <1>1, <1>3 DEF Served, Held, TypeOK
  <1>7. LeaseOf' = [LeaseOf EXCEPT ![p] = IF now > e THEN None ELSE e]
    <2>1. \A id \in Ids : id # p => LeaseOf'[id] = LeaseOf[id]
      BY <1>1, <1>5 DEF LeaseOf
    <2>2. LeaseOf'[p] = IF now > e THEN None ELSE e
      BY <1>1, <1>3, <1>6 DEF LeaseOf
    <2>3. DOMAIN LeaseOf' = Ids /\ LeaseOf' = [id \in Ids |-> LeaseOf'[id]]  BY DEF LeaseOf
    <2>4. LeaseOf = [id \in Ids |-> LeaseOf[id]]  BY DEF LeaseOf
    <2> QED  BY <1>1, <2>1, <2>2, <2>3, <2>4
  <1>8. (IF now > e THEN None ELSE e) \in Lease!Standing(e, now)
    BY <1>2 DEF Lease!Standing
  <1> QED  BY <1>1, <1>4, <1>7, <1>8 DEF Lease!Save, LeaseDue, LeaseOf

\* Over a store that suspends there is no lease to see.
LEMMA NoLeaseStutters ==
    ASSUME Suspends, UNCHANGED <<now, backend>>
    PROVE  UNCHANGED Lease!vars
  BY DEF Suspends, Lease!vars

\* The clock: the leases that run out are gone, the others are kept.
LEMMA TickRefines == ASSUME IInv, Tick PROVE Lease!TimePasses
  <1> USE ServiceAssumption DEF ServiceAssumption, IInv, Suspends, callVars, inputs, history
  <1>1. /\ now \in Nat /\ now' = now + 1 /\ now < MaxTime
        /\ UNCHANGED <<backend, expiry, stored, last>>
    BY DEF Tick, TypeOK, Times
  <1>2. now' \in {now, now + 1} \cap Instants  BY <1>1 DEF Instants
  <1>3. ASSUME NEW id \in Ids PROVE LeaseOf'[id] \in Lease!Standing(LeaseOf[id], now')
    <2>1. CASE Suspends \/ ~Served(id)
      <3>1. LeaseOf[id] = None  BY <2>1 DEF LeaseOf
      <3>2. ~Suspends => ~Served(id)'
        <4> SUFFICES ASSUME ~Suspends, Served(id)' PROVE FALSE  OBVIOUS
        <4>1. stored[id] # None /\ backend = "memory" /\ ~(now + 1 > stored[id].expires)
          BY <1>1 DEF Served, Held
        <4>2. stored[id].expires \in Int  BY <4>1 DEF TypeOK
        <4>3. Served(id)  BY <1>1, <4>1, <4>2 DEF Served, Held
        <4> QED  BY <2>1, <4>3
      <3>3. LeaseOf'[id] = None  BY <1>1, <3>2 DEF LeaseOf
      <3> QED  BY <3>1, <3>3 DEF Lease!Standing
    <2>2. CASE ~Suspends /\ Served(id)
      <3> DEFINE e == stored[id].expires
      <3>1. stored[id] # None /\ backend = "memory"  BY <2>2 DEF Served, Held
      <3>2. e \in Int /\ e # None  BY <3>1 DEF TypeOK
      <3>3. LeaseOf[id] = e  BY <2>2 DEF LeaseOf
      <3>4. Served(id)' <=> ~(now' > e)  BY <1>1, <3>1 DEF Served, Held
      <3>5. LeaseOf'[id] = IF now' > e THEN None ELSE e
        BY <1>1, <3>1, <3>4 DEF LeaseOf
      <3> HIDE DEF e
      <3> QED  BY <1>1, <3>2, <3>3, <3>5 DEF Lease!Standing
    <2> QED  BY <2>1, <2>2
  <1>4. LeaseDue' = LeaseDue  BY <1>1 DEF LeaseDue
  <1>5. LeaseOf' = [id \in Ids |-> LeaseOf'[id]]  BY DEF LeaseOf
  <1> QED  BY <1>2, <1>3, <1>4, <1>5 DEF Lease!TimePasses, LeaseDue, LeaseOf

\* Every step is one of the lease, or none that load shows.
LEMMA StepRefines == IInv /\ [Next]_vars => [Lease!Next]_(Lease!vars)
  <1> SUFFICES ASSUME IInv, [Next]_vars PROVE Lease!Next \/ UNCHANGED Lease!vars  OBVIOUS
  <1> USE ServiceAssumption DEF ServiceAssumption, callVars, inputs, history
  <1>1. CASE Tick  BY <1>1, TickRefines DEF Lease!Next
  <1>2. CASE Suspends /\ ~Tick
    <2>1. UNCHANGED <<now, backend>>
      BY <1>2 DEF Next, CallStep, Begin, Save, SaveBreaks, Deliver, SweepStep, List, DeleteOne,
         SweepBreaks, SweepReturns, LoadExpired, Read, Prompt, vars
    <2> QED  BY <1>2, <2>1, NoLeaseStutters
  <1>3. ASSUME ~Suspends, NEW c \in Calls, Save(c)
        PROVE  Lease!Next
    <2>1. PackageOf[c] \in Ids  OBVIOUS
    <2>2. expiry[c] \in Instants  BY DEF IInv, TypeOK, Instants
    <2>3. PICK p \in Ids, e \in Instants : p = PackageOf[c] /\ e = expiry[c]  BY <2>1, <2>2
    <2>4. Lease!Save(p, e)  BY <1>3, <2>3, SaveRefines
    <2> QED  BY <2>4 DEF Lease!Next
  <1>4. ASSUME ~Suspends, NEW c \in Calls, Begin(c)
        PROVE  UNCHANGED Lease!vars
    <2>1. UNCHANGED <<now, backend, last, stored>> /\ call[c] = "idle"  BY <1>4 DEF Begin
    <2>2. \A id \in Ids : last[id] # Nobody => last[id] \in Calls /\ last[id] # c
      BY <2>1 DEF IInv, Landings, TypeOK
    <2>3. \A d \in Calls : d # c => expiry'[d] = expiry[d]  BY <1>4 DEF Begin, IInv, TypeOK
    <2> QED  BY <2>1, <2>2, <2>3, Stutters
  <1>5. ASSUME ~Suspends, NEW id \in Ids, stored[id] = None \/ ~Served(id),
               stored' = [stored EXCEPT ![id] = None], UNCHANGED <<now, backend, last, expiry>>
        PROVE  UNCHANGED Lease!vars
    <2>1. \A i \in Ids : stored'[i] = stored[i] \/ (~Served(i) /\ stored'[i] = None)
      BY <1>5 DEF IInv, TypeOK, Served, Held
    <2> QED  BY <1>5, <2>1, Stutters
  <1>6. ASSUME ~Suspends, NEW s \in Sweepers, DeleteOne(s)
        PROVE  UNCHANGED Lease!vars
    <2>1. PICK id \in sweep[s].ids : stored' = [stored EXCEPT ![id] = None]
      BY <1>6 DEF DeleteOne
    <2>2. id \in Ids  BY DEF IInv, TypeOK
    <2>3. last[id] # Nobody /\ Over(last[id])
      BY <1>6 DEF IInv, Swept, Undisturbed
    <2>4. stored[id] # None => ~Served(id)
      <3> SUFFICES ASSUME stored[id] # None PROVE now > stored[id].expires
        BY <1>6 DEF Served, Suspends
      <3>1. stored[id].expires = expiry[last[id]]  BY <2>2 DEF IInv, Entries
      <3>2. expiry[last[id]] < now  BY <1>6, <2>3 DEF Over, Suspends
      <3>3. last[id] \in Calls  BY <2>2, <2>3 DEF IInv, TypeOK
      <3>4. now \in Int /\ expiry[last[id]] \in Int  BY <3>3 DEF IInv, TypeOK, Times
      <3> QED  BY <3>1, <3>2, <3>4
    <2>5. UNCHANGED <<now, backend, last, expiry>>  BY <1>6 DEF DeleteOne
    <2> QED  BY <1>5, <1>6, <2>1, <2>2, <2>4, <2>5
  <1>7. ASSUME ~Suspends, NEW id \in Ids, LoadExpired(id)
        PROVE  UNCHANGED Lease!vars
    <2>1. ~Served(id)  BY <1>7 DEF LoadExpired, Served
    <2>2. stored' = [stored EXCEPT ![id] = None] /\ UNCHANGED <<now, backend, last, expiry>>
      BY <1>7 DEF LoadExpired
    <2> QED  BY <1>5, <1>7, <2>1, <2>2
  <1>8. CASE UNCHANGED <<now, backend, last, expiry, stored>>  BY <1>8, Stutters
  <1>9. ~Suspends => \A c \in Calls : CallStep(c) =>
           \/ Begin(c) \/ Save(c)
           \/ UNCHANGED <<now, backend, last, expiry, stored>>
    BY DEF CallStep, SaveBreaks, Deliver
  <1>10. ~Suspends => \A s \in Sweepers : SweepStep(s) =>
           DeleteOne(s) \/ UNCHANGED <<now, backend, last, expiry, stored>>
    BY DEF SweepStep, SweepBreaks, List, SweepReturns
  <1>11. (\E id \in Ids : Read(id)) \/ Prompt \/ UNCHANGED vars =>
           UNCHANGED <<now, backend, last, expiry, stored>>
    BY DEF Read, Prompt, vars
  <1>12. CASE ~Suspends /\ ~Tick
    <2>1. ASSUME NEW c \in Calls, CallStep(c) PROVE Lease!Next \/ UNCHANGED Lease!vars
      BY <1>12, <2>1, <1>3, <1>4, <1>8, <1>9
    <2>2. ASSUME NEW s \in Sweepers, SweepStep(s) PROVE Lease!Next \/ UNCHANGED Lease!vars
      BY <1>12, <2>2, <1>6, <1>8, <1>10
    <2>3. ASSUME NEW id \in Ids, LoadExpired(id) PROVE Lease!Next \/ UNCHANGED Lease!vars
      BY <1>12, <2>3, <1>7
    <2> QED  BY <1>8, <1>11, <1>12, <2>1, <2>2, <2>3 DEF Next
  <1> QED  BY <1>1, <1>2, <1>12

LEMMA InitRefines == Init => Lease!Init
  <1> SUFFICES ASSUME Init PROVE Lease!Init  OBVIOUS
  <1>1. now \in Instants /\ now = 0
    BY ServiceAssumption DEF ServiceAssumption, Init, Instants
  <1>2. \A id \in Ids : last[id] = Nobody /\ ~Served(id)  BY DEF Init, Served, Held
  <1>3. LeaseDue = [id \in Ids |-> None] /\ LeaseOf = [id \in Ids |-> None]
    BY <1>2 DEF LeaseDue, LeaseOf
  <1> QED  BY <1>1, <1>3 DEF Lease!Init, LeaseDue, LeaseOf

\* store.py: what load shows of the in-memory store is a lease per package.
THEOREM Refinement == Spec => ImplementsLease
  BY InitRefines, StepRefines, Invariance, PTL DEF Spec, ImplementsLease, Lease!Spec
=============================================================================
