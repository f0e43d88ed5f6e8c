--------------------------- MODULE DeliveryProofs ---------------------------
(***************************************************************************)
(* Proofs about Delivery, for every pool of agents, every set of calls and *)
(* of variable keys, and every bound.                                      *)
(*                                                                         *)
(* IInv is the inductive invariant.  Lineage says what a run has from the  *)
(* one before it; Carried says the same of a package on its way, between   *)
(* the check that sanitized it and the injection that makes a run of it.   *)
(***************************************************************************)
EXTENDS Delivery, FiniteSetTheorems, SequenceTheorems, TLAPS

-----------------------------------------------------------------------------
(* The inductive invariant *)

RunRecords == [parent : Nat, agent : Agents, active : BOOLEAN, values : Values,
               allow : SUBSET Keys, given : SUBSET Keys, dropped : SUBSET Keys,
               born : Values, kept : Values]

CallType(p) == /\ p.at \in {"idle", "saving"}
               /\ p.src \in Nat /\ p.values \in Values
               /\ p.allow \subseteq Keys /\ p.dropped \subseteq Keys /\ p.shared \subseteq Keys

Types == /\ run \in Seq(RunRecords)
         /\ tracked \subseteq Agents
         /\ call = [c \in Calls |-> call[c]]
         /\ \A c \in Calls : CallType(call[c]) /\ (call[c].at = "idle" => call[c] = NoCall)
         /\ stored \in [Runs -> SUBSET Values] /\ unanswered \subseteq Runs
         /\ failures \in 0 .. MaxFailures /\ writes \in 0 .. MaxWrites

\* There is room for the runs that the calls under way may start.
Room == Len(run) + Cardinality(Pending) <= MaxRuns

Lineage == \A r \in DOMAIN run :
              /\ run[r].parent < r
              /\ run[r].parent = 0 => run[r].dropped = {}
              /\ run[r].given = run[r].allow
              /\ run[r].dropped \cap run[r].allow = {}
              /\ run[r].allow = {} => run[r].dropped = {}
              /\ Present(run[r].born) \subseteq run[r].allow \cap Present(run[r].values)
              /\ \A k \in Keys : run[r].values[k] <= writes + 1

\* A package p of run q.
Package(p, q) ==
    /\ Present(p.values) \subseteq p.allow \cap Present(q.values)
    /\ p.shared \subseteq Nested \cap Present(p.values)
    /\ p.shared # {} => q.given # {}
    /\ p.dropped \cap p.allow = {}
    /\ p.allow = {} => p.dropped = {}
    /\ q.parent = 0 /\ q.given = {} => p.dropped = {}
    /\ q.parent # 0 => Present(q.born) \subseteq Present(p.values) /\ q.dropped \subseteq p.dropped

Carried == \A c \in Pending : /\ call[c].src \in DOMAIN run
                              /\ Package(call[c], run[call[c].src])
                              /\ \A k \in Keys : call[c].values[k] <= writes + 1

IInv == Types /\ Room /\ Lineage /\ Carried /\ DropsAreRecorded /\ InjectedIsStored

-----------------------------------------------------------------------------
(* Lemmas *)

LEMMA Bounds == MaxRuns \in Nat /\ MaxWrites \in Nat /\ MaxFailures \in Nat
  <1>1. {MaxRuns, MaxWrites, MaxFailures} \subseteq Nat
    BY DeliveryAssumption DEF DeliveryAssumption
  <1> QED  BY <1>1

LEMMA FirstRunsAre ==
    /\ FirstRuns \subseteq Seq({FirstRun(a, v, w) : a \in Agents, v \in [Keys -> {0, 1}],
                                                  w \in SUBSET Keys})
    /\ \A first \in FirstRuns : Len(first) <= MaxRuns
  BY DeliveryAssumption DEF DeliveryAssumption

LEMMA PendingFinite == IsFiniteSet(Pending) /\ Cardinality(Pending) \in Nat
  BY DeliveryAssumption, FS_Subset, FS_CardinalityType DEF DeliveryAssumption, Pending

LEMMA RunDomain == Types => /\ Len(run) \in Nat /\ DOMAIN run = 1 .. Len(run)
                            /\ \A r \in DOMAIN run : run[r] \in RunRecords
  BY LenProperties, ElementOfSeq DEF Types

LEMMA AbsentIsEmpty == Absent \in Values /\ Present(Absent) = {}
  BY Bounds DEF Absent, Values, Present

LEMMA NoCallType == CallType(NoCall)
  BY AbsentIsEmpty DEF CallType, NoCall

-----------------------------------------------------------------------------
(* The invariant holds in the beginning, and every step keeps it *)

LEMMA InitInv == Init => IInv
  <1> SUFFICES ASSUME Init PROVE IInv  OBVIOUS
  <1> USE DEF Init
  <1> DEFINE Firsts == {FirstRun(a, v, w) : a \in Agents, v \in [Keys -> {0, 1}], w \in SUBSET Keys}
  <1>1. run \in Seq(Firsts) /\ Len(run) <= MaxRuns
    <2>1. FirstRuns \subseteq Seq(Firsts)  BY FirstRunsAre DEF Firsts
    <2>2. \A first \in FirstRuns : Len(first) <= MaxRuns  BY FirstRunsAre
    <2> HIDE DEF Firsts
    <2> QED  BY <2>1, <2>2
  <1>2. /\ Len(run) \in Nat /\ DOMAIN run = 1 .. Len(run)
        /\ \A r \in DOMAIN run : run[r] \in Firsts
    <2> HIDE DEF Firsts
    <2> QED  BY <1>1, LenProperties, ElementOfSeq
  <1>3. ASSUME NEW f \in Firsts
        PROVE  /\ f \in RunRecords /\ f.parent = 0 /\ f.dropped = {} /\ f.given = f.allow
               /\ f.born = Absent /\ \A k \in Keys : f.values[k] <= 1
    <2>1. PICK a \in Agents, v \in [Keys -> {0, 1}], w \in SUBSET Keys : f = FirstRun(a, v, w)
      BY <1>3
    <2>2. v \in Values /\ \A k \in Keys : v[k] <= 1
      BY Bounds DEF Values
    <2> QED  BY <2>1, <2>2, AbsentIsEmpty DEF FirstRun, RunRecords
  <1> HIDE DEF Firsts
  <1>4. Types
    <2>1. Firsts \subseteq RunRecords  BY <1>3
    <2>2. run \in Seq(RunRecords)  BY <1>1, <2>1, SeqMonotonic
    <2>3. \A c \in Calls : CallType(call[c]) /\ call[c] = NoCall  BY NoCallType
    <2> QED  BY <2>2, <2>3, Bounds DEF Types
  <1>5. Room
    <2>1. Pending = {}  BY DEF Pending, NoCall
    <2> QED  BY <1>1, <1>2, <2>1, FS_EmptySet DEF Room
  <1>6. Lineage  BY <1>2, <1>3, AbsentIsEmpty DEF Lineage
  <1>7. Carried  BY DEF Carried, Pending, NoCall
  <1>8. DropsAreRecorded /\ InjectedIsStored
    BY <1>2, <1>3 DEF DropsAreRecorded, InjectedIsStored
  <1> QED  BY <1>4, <1>5, <1>6, <1>7, <1>8 DEF IInv

\* What the agents do: the values of a run grow, and it ends.
LEMMA WorkInv ==
    ASSUME IInv, NEW r \in DOMAIN run, NEW v \in Values, NEW b \in BOOLEAN,
           \A k \in Keys : run[r].values[k] <= v[k] /\ v[k] <= writes' + 1,
           run' = [run EXCEPT ![r] = [run[r] EXCEPT !.active = b, !.values = v]],
           writes <= writes', writes' \in 0 .. MaxWrites,
           UNCHANGED <<tracked, call, stored, audit, failures, unanswered>>
    PROVE  IInv'
  <1> USE DEF IInv
  <1>1. Len(run) \in Nat /\ DOMAIN run = 1 .. Len(run) /\ \A s \in DOMAIN run : run[s] \in RunRecords
    BY RunDomain
  <1> DEFINE new == [run[r] EXCEPT !.active = b, !.values = v]
  <1>2. new \in RunRecords  BY <1>1 DEF RunRecords
  <1>3. /\ run' \in Seq(RunRecords) /\ Len(run') = Len(run)
        /\ \A s \in DOMAIN run : run'[s] = IF s = r THEN new ELSE run[s]
    <2> HIDE DEF new
    <2>1. run' = [run EXCEPT ![r] = new]  BY DEF new
    <2> QED  BY <1>1, <1>2, <2>1, ExceptSeq DEF Types
  <1>4. DOMAIN run' = DOMAIN run  BY <1>1, <1>3, LenProperties
  <1>5. \A s \in DOMAIN run :
          /\ run'[s].parent = run[s].parent /\ run'[s].given = run[s].given
          /\ run'[s].allow = run[s].allow /\ run'[s].dropped = run[s].dropped
          /\ run'[s].born = run[s].born /\ run'[s].kept = run[s].kept
    BY <1>1, <1>3 DEF RunRecords
  <1>6. \A s \in DOMAIN run : /\ Present(run[s].values) \subseteq Present(run'[s].values)
                              /\ \A k \in Keys : run'[s].values[k] <= writes' + 1
    <2> SUFFICES ASSUME NEW s \in DOMAIN run, NEW k \in Keys
                 PROVE  /\ run[s].values[k] > 0 => run'[s].values[k] > 0
                        /\ run'[s].values[k] <= writes' + 1
      BY DEF Present
    <2>1. run[s].values \in Values /\ writes \in Nat /\ writes' \in Nat /\ MaxWrites \in Nat
      BY <1>1, Bounds DEF RunRecords, Types
    <2>2. run[s].values[k] \in Nat /\ v[k] \in Nat  BY <2>1 DEF Values
    <2>3. run[s].values[k] <= writes + 1  BY DEF Lineage
    <2>4. CASE s = r
      <3>1. run'[s].values = v  BY <1>1, <1>3, <2>4 DEF RunRecords
      <3> QED  BY <2>2, <2>4, <3>1
    <2>5. CASE s # r  BY <1>3, <2>1, <2>2, <2>3, <2>5
    <2> QED  BY <2>4, <2>5
  <1>7. Types'  BY <1>3 DEF Types
  <1>8. Room'  BY <1>3 DEF Room, Pending
  <1>9. Lineage'  BY <1>4, <1>5, <1>6 DEF Lineage
  <1>10. Carried'
    <2>1. Pending' = Pending  BY DEF Pending
    <2>2. \A c \in Pending : \A k \in Keys : call[c].values[k] <= writes' + 1
      <3> SUFFICES ASSUME NEW c \in Pending, NEW k \in Keys PROVE call[c].values[k] <= writes' + 1
        OBVIOUS
      <3>1. call[c].values \in Values  BY DEF Types, CallType, Pending
      <3>2. call[c].values[k] \in Nat /\ writes \in Nat /\ writes' \in Nat
        BY <3>1, Bounds DEF Types, Values
      <3> QED  BY <3>2 DEF Carried
    <2> QED  BY <1>4, <1>5, <1>6, <2>1, <2>2 DEF Carried, Package
  <1>11. DropsAreRecorded'
    <2>1. \A s \in DOMAIN run : run[s].parent # 0 => run[s].parent \in DOMAIN run
      BY <1>1 DEF Lineage, RunRecords
    <2> QED  BY <1>4, <1>5, <2>1 DEF DropsAreRecorded
  <1>12. InjectedIsStored'
    <2>1. \A s \in DOMAIN run : run[s].parent # 0 => run[s].parent \in DOMAIN run
      BY <1>1 DEF Lineage, RunRecords
    <2> QED  BY <1>4, <1>5, <2>1 DEF InjectedIsStored
  <1> QED  BY <1>7, <1>8, <1>9, <1>10, <1>11, <1>12

LEMMA WriteInv == ASSUME IInv, NEW r \in Runs, NEW k \in Keys, Write(r, k) PROVE IInv'
  <1> USE DEF IInv
  <1> DEFINE v == [run[r].values EXCEPT ![k] = @ + 1]
  <1>1. r \in DOMAIN run /\ run[r] \in RunRecords /\ writes < MaxWrites /\ writes' = writes + 1
    BY RunDomain DEF Write, Active
  <1>2. writes \in Nat /\ MaxWrites \in Nat /\ writes' \in 0 .. MaxWrites
    BY <1>1, Bounds DEF Types
  <1>3. run[r].values \in Values /\ \A x \in Keys : run[r].values[x] <= writes + 1
    BY <1>1 DEF RunRecords, Lineage
  <1>4. v \in Values  BY <1>1, <1>2, <1>3 DEF Values
  <1>5. \A x \in Keys : run[r].values[x] <= v[x] /\ v[x] <= writes' + 1
    BY <1>1, <1>2, <1>3 DEF Values
  <1>6. run' = [run EXCEPT ![r] = [run[r] EXCEPT !.active = run[r].active, !.values = v]]
    BY <1>1 DEF Write, RunRecords
  <1>7. run[r].active \in BOOLEAN  BY <1>1 DEF RunRecords
  <1>8. writes <= writes' /\ UNCHANGED <<tracked, call, stored, audit, failures, unanswered>>
    BY <1>1, <1>2 DEF Write
  <1> HIDE DEF v, IInv
  <1> QED  BY <1>1, <1>2, <1>4, <1>5, <1>6, <1>7, <1>8, WorkInv

LEMMA StopInv == ASSUME IInv, NEW r \in Runs, Stop(r) PROVE IInv'
  <1> USE DEF IInv
  <1>1. r \in DOMAIN run /\ run[r] \in RunRecords /\ writes' = writes /\ writes \in 0 .. MaxWrites
    BY RunDomain DEF Stop, Active, Types
  <1>2. run[r].values \in Values /\ \A x \in Keys : run[r].values[x] <= writes + 1
    BY <1>1 DEF RunRecords, Lineage
  <1>3. run' = [run EXCEPT ![r] = [run[r] EXCEPT !.active = FALSE, !.values = run[r].values]]
    BY <1>1 DEF Stop, RunRecords
  <1>4. \A x \in Keys : run[r].values[x] \in Int
    BY <1>2, Bounds DEF Values
  <1>5. /\ \A x \in Keys : run[r].values[x] <= run[r].values[x] /\ run[r].values[x] <= writes' + 1
        /\ writes <= writes' /\ UNCHANGED <<tracked, call, stored, audit, failures, unanswered>>
    BY <1>1, <1>2, <1>4 DEF Stop
  <1> HIDE DEF IInv
  <1> QED  BY <1>1, <1>2, <1>3, <1>5, FALSE \in BOOLEAN, WorkInv

\* What the records say does not change while runs, store and audit log do not.
LEMMA RecordsStay ==
    ASSUME DropsAreRecorded, InjectedIsStored, UNCHANGED <<run, stored, audit, unanswered>>
    PROVE  DropsAreRecorded' /\ InjectedIsStored'
  <1>1. DropsAreRecorded'  BY DEF DropsAreRecorded
  <1>2. InjectedIsStored'  BY DEF InjectedIsStored
  <1> QED  BY <1>1, <1>2

LEMMA RecordTokensInv == ASSUME IInv, NEW a \in Agents, RecordTokens(a) PROVE IInv'
  <1> USE DEF IInv
  <1>1. /\ tracked' = tracked \cup {a}
        /\ UNCHANGED <<run, call, stored, audit, failures, unanswered, writes>>
    BY DEF RecordTokens
  <1>2. Types' /\ Room'  BY <1>1 DEF Types, Room, Pending
  <1>3. Lineage' /\ Carried'  BY <1>1 DEF Lineage, Carried, Pending
  <1>4. DropsAreRecorded' /\ InjectedIsStored'  BY <1>1, RecordsStay
  <1> QED  BY <1>2, <1>3, <1>4

\* What the sanitizer makes of a run is a package of it.
LEMMA SanitizedIsPackage ==
    ASSUME IInv, NEW r \in DOMAIN run, NEW p,
           p.values = Sanitized(r), p.allow = Allowed(r), p.shared = SharedKeys(r),
           p.dropped = run[r].dropped \cup (Present(run[r].values) \ Allowed(r))
    PROVE  /\ Package(p, run[r])
           /\ p.values \in Values /\ \A k \in Keys : p.values[k] <= writes + 1
           /\ p.allow \subseteq Keys /\ p.dropped \subseteq Keys /\ p.shared \subseteq Keys
  <1> USE DEF IInv
  <1>1. run[r] \in RunRecords  BY RunDomain
  <1>2. /\ run[r].values \in Values /\ run[r].allow \subseteq Keys /\ run[r].dropped \subseteq Keys
        /\ Present(run[r].values) \subseteq Keys
    BY <1>1 DEF RunRecords, Present
  <1>3. /\ Present(p.values) = Allowed(r) \cap Present(run[r].values)
        /\ \A k \in Keys : p.values[k] \in {0, run[r].values[k]}
    BY DEF Sanitized, Present
  <1>4. p.values \in Values /\ \A k \in Keys : p.values[k] <= writes + 1
    <2>1. p.values \in Values  BY <1>2, Bounds DEF Sanitized, Values
    <2>2. \A k \in Keys : run[r].values[k] <= writes + 1 /\ writes \in Nat
      BY Bounds DEF Lineage, Types
    <2> QED  BY <1>3, <2>1, <2>2
  <1>5. CASE run[r].allow = {}
    <2>1. Allowed(r) = Present(run[r].values) /\ SharedKeys(r) = {} /\ run[r].dropped = {}
      BY <1>5 DEF Allowed, SharedKeys, Lineage
    <2> QED  BY <1>2, <1>3, <1>4, <1>5, <2>1 DEF Package, Lineage
  <1>6. CASE run[r].allow # {}
    <2>1. /\ Allowed(r) = run[r].allow /\ run[r].given # {}
          /\ SharedKeys(r) = Nested \cap Allowed(r) \cap Present(run[r].values)
      BY <1>6 DEF Allowed, SharedKeys, SharedAlways, Lineage
    <2> QED  BY <1>2, <1>3, <1>4, <1>6, <2>1 DEF Package, Lineage
  <1> QED  BY <1>5, <1>6

LEMMA CheckInv == ASSUME IInv, NEW c \in Calls, NEW r \in Runs, Check(c, r) PROVE IInv'
  <1> USE DEF IInv
  <1>1. /\ call[c].at = "idle" /\ r \in DOMAIN run /\ Len(run) + Cardinality(Pending) < MaxRuns
        /\ UNCHANGED <<run, tracked, stored, audit, failures, unanswered, writes>>
    BY DEF Check, Active, WhitelistStays
  <1>2. PICK loads \in {<<>>, [a \in Agents |-> Load(a)]} :
           call' = [call EXCEPT ![c] =
                      [at |-> "saving", src |-> r, loads |-> loads, values |-> Sanitized(r),
                       allow |-> Allowed(r),
                       dropped |-> run[r].dropped \cup (Present(run[r].values) \ Allowed(r)),
                       shared |-> SharedKeys(r)]]
    BY DEF Check
  <1> DEFINE p == call'[c]
  <1>3. /\ call' = [d \in Calls |-> call'[d]]
        /\ \A d \in Calls : d # c => call'[d] = call[d]
        /\ p.at = "saving" /\ p.src = r /\ p.values = Sanitized(r) /\ p.allow = Allowed(r)
        /\ p.dropped = run[r].dropped \cup (Present(run[r].values) \ Allowed(r))
        /\ p.shared = SharedKeys(r)
    <2> DEFINE new == [at |-> "saving", src |-> r, loads |-> loads, values |-> Sanitized(r),
                       allow |-> Allowed(r),
                       dropped |-> run[r].dropped \cup (Present(run[r].values) \ Allowed(r)),
                       shared |-> SharedKeys(r)]
    <2>1. call = [d \in Calls |-> call[d]] /\ call' = [call EXCEPT ![c] = new]  BY <1>2 DEF Types
    <2>2. /\ new.at = "saving" /\ new.src = r /\ new.values = Sanitized(r) /\ new.allow = Allowed(r)
          /\ new.dropped = run[r].dropped \cup (Present(run[r].values) \ Allowed(r))
          /\ new.shared = SharedKeys(r)
      OBVIOUS
    <2> HIDE DEF new
    <2>3. call' = [d \in Calls |-> IF d = c THEN new ELSE call[d]]  BY <2>1
    <2> QED  BY <2>2, <2>3
  <1> HIDE DEF p
  <1>4. /\ Package(p, run[r])
        /\ p.values \in Values /\ \A k \in Keys : p.values[k] <= writes + 1
        /\ p.allow \subseteq Keys /\ p.dropped \subseteq Keys /\ p.shared \subseteq Keys
    BY <1>1, <1>3, SanitizedIsPackage
  <1>5. Pending' = Pending \cup {c} /\ c \notin Pending  BY <1>1, <1>3 DEF Pending, p
  <1>6. Types'
    <2>1. CallType(p)  BY <1>3, <1>4 DEF CallType, Runs
    <2> QED  BY <1>1, <1>3, <2>1 DEF Types, p
  <1>7. Room'
    <2>1. Cardinality(Pending') = Cardinality(Pending) + 1  BY <1>5, PendingFinite, FS_AddElement
    <2> QED  BY <1>1, <2>1, PendingFinite, RunDomain, Bounds DEF Room
  <1>8. Carried'
    <2> SUFFICES ASSUME NEW d \in Pending'
                 PROVE  /\ call'[d].src \in DOMAIN run /\ Package(call'[d], run[call'[d].src])
                        /\ \A k \in Keys : call'[d].values[k] <= writes + 1
      BY <1>1 DEF Carried
    <2>1. CASE d = c  BY <2>1, <1>1, <1>3, <1>4 DEF p
    <2>2. CASE d # c  BY <2>2, <1>3, <1>5 DEF Carried, Pending
    <2> QED  BY <2>1, <2>2
  <1>9. Lineage' /\ DropsAreRecorded' /\ InjectedIsStored'
    BY <1>1, RecordsStay DEF Lineage
  <1> QED  BY <1>6, <1>7, <1>8, <1>9

\* A call returns, its task having been resumed or not.
LEMMA ReturnCall ==
    ASSUME IInv, NEW c \in Pending, call' = [call EXCEPT ![c] = NoCall]
    PROVE  /\ call' = [d \in Calls |-> call'[d]]
           /\ \A d \in Calls : /\ CallType(call'[d])
                               /\ call'[d].at = "idle" => call'[d] = NoCall
                               /\ d # c => call'[d] = call[d]
           /\ Pending' = Pending \ {c} /\ Cardinality(Pending') = Cardinality(Pending) - 1
  <1> USE DEF IInv
  <1>1. call' = [d \in Calls |-> IF d = c THEN NoCall ELSE call[d]]  BY DEF Types
  <1>2. NoCall.at = "idle"  BY DEF NoCall
  <1>3. Pending' = Pending \ {c}  BY <1>1, <1>2 DEF Pending
  <1>4. Cardinality(Pending \ {c}) = Cardinality(Pending) - 1
    BY PendingFinite, FS_RemoveElement
  <1>5. c \in Calls  BY DEF Pending
  <1> QED  BY <1>1, <1>3, <1>4, <1>5, NoCallType DEF Types

LEMMA SaveFailsInv == ASSUME IInv, NEW c \in Calls, SaveFails(c) PROVE IInv'
  <1> USE DEF IInv
  <1>1. /\ c \in Pending /\ call' = [call EXCEPT ![c] = NoCall]
        /\ failures < MaxFailures /\ failures' = failures + 1
        /\ tracked' \in {tracked, tracked \ {run[call[c].src].agent}}
        /\ StoredUnanswered(c) \/ UNCHANGED <<stored, unanswered>>
        /\ UNCHANGED <<run, audit, writes>>
    BY DEF SaveFails, Callback, Pending
  <1>2. failures' \in 0 .. MaxFailures  BY <1>1, Bounds DEF Types
  <1> DEFINE q == call[c].src
  <1>7. q \in Runs /\ call[c].values \in Values
    <2>1. q \in DOMAIN run /\ call[c].values \in Values
      BY <1>1 DEF Carried, Types, CallType, Pending
    <2>2. Len(run) <= MaxRuns  BY PendingFinite, RunDomain, Bounds DEF Room
    <2> QED  BY <2>1, <2>2, RunDomain, Bounds DEF Runs
  <1>8. /\ stored' \in [Runs -> SUBSET Values] /\ unanswered' \subseteq Runs
        /\ \A r \in Runs : \/ stored'[r] = stored[r] /\ unanswered \subseteq unanswered'
                           \/ stored'[r] # {} /\ r \in unanswered'
    <2>1. CASE StoredUnanswered(c)
      <3>1. /\ stored' = [stored EXCEPT ![q] = {call[c].values}]
            /\ unanswered' = unanswered \cup {q}
        BY <2>1 DEF StoredUnanswered
      <3>2. stored \in [Runs -> SUBSET Values] /\ unanswered \subseteq Runs  BY DEF Types
      <3> HIDE DEF q, IInv
      <3> QED  BY <1>7, <3>1, <3>2
    <2>2. CASE UNCHANGED <<stored, unanswered>>  BY <2>2 DEF Types
    <2> QED  BY <1>1, <2>1, <2>2
  <1>3. Types'  BY <1>1, <1>2, <1>8, ReturnCall DEF Types
  <1>4. Room'
    <2>1. Cardinality(Pending') = Cardinality(Pending) - 1  BY <1>1, ReturnCall
    <2> QED  BY <1>1, <2>1, PendingFinite, RunDomain, Bounds DEF Room
  <1>5. Carried'
    <2>1. \A d \in Pending' : d \in Pending /\ call'[d] = call[d]
      BY <1>1, ReturnCall DEF Pending
    <2> QED  BY <1>1, <2>1 DEF Carried
  <1>6. Lineage' /\ DropsAreRecorded'  BY <1>1 DEF Lineage, DropsAreRecorded
  <1>9. InjectedIsStored'
    <2>1. ASSUME NEW r \in Runs
          PROVE  /\ StoredEntry(r) \in audit' => stored'[r] # {}
                 /\ stored'[r] # {} => StoredEntry(r) \in audit' \/ r \in unanswered'
      BY <1>1, <1>8 DEF InjectedIsStored
    <2>2. run' = run /\ audit' = audit  BY <1>1
    <2>3. ASSUME NEW r \in DOMAIN run', run'[r].parent # 0
          PROVE  /\ {StoredEntry(run'[r].parent), InjectedEntry(run'[r].parent, r)} \subseteq audit'
                 /\ \A k \in Keys : \/ run'[r].born[k] = run'[r].kept[k]
                                    \/ k \in Nested /\ run'[run'[r].parent].given # {}
      <3>1. r \in DOMAIN run /\ run[r].parent # 0  BY <2>2, <2>3
      <3>2. /\ {StoredEntry(run[r].parent), InjectedEntry(run[r].parent, r)} \subseteq audit
            /\ \A k \in Keys : \/ run[r].born[k] = run[r].kept[k]
                               \/ k \in Nested /\ run[run[r].parent].given # {}
        BY <3>1 DEF InjectedIsStored
      <3> HIDE DEF IInv
      <3> QED  BY <2>2, <3>2
    <2> HIDE DEF IInv
    <2> QED  BY <2>1, <2>3 DEF InjectedIsStored
  <1> QED  BY <1>3, <1>4, <1>5, <1>6, <1>9

\* What the injector makes of a package that is on its way.
LEMMA InjectedValues ==
    ASSUME IInv, NEW c \in Pending, NEW a \in Agents
    PROVE  /\ Resumed(call[c], a) \in RunRecords
           /\ Present(Injected(call[c])) = Present(call[c].values)
           /\ \A k \in Keys : /\ Injected(call[c])[k] <= writes + 1
                              /\ \/ Injected(call[c])[k] = call[c].values[k]
                                 \/ k \in Nested /\ run[call[c].src].given # {}
  <1> USE DEF IInv
  <1> DEFINE p == call[c]
             q == run[call[c].src]
             i == Injected(call[c])
  <1>1. /\ q \in RunRecords /\ p.src \in Nat /\ p.values \in Values
        /\ p.allow \subseteq Keys /\ p.dropped \subseteq Keys
    BY RunDomain DEF Carried, Types, CallType, Pending
  <1>2. i = [k \in Keys |-> IF k \in p.shared THEN q.values[k] ELSE p.values[k]]
    BY DEF Injected
  <1>3. q.values \in Values /\ \A k \in Keys : q.values[k] <= writes + 1
    BY <1>1 DEF RunRecords, Carried, Lineage
  <1>4. i \in Values  BY <1>1, <1>2, <1>3 DEF Values
  <1>5. Resumed(p, a) \in RunRecords  BY <1>1, <1>4 DEF Resumed, RunRecords
  <1>6. /\ p.shared \subseteq Nested \cap Present(p.values)
        /\ p.shared # {} => q.given # {}
        /\ Present(p.values) \subseteq Present(q.values)
        /\ \A k \in Keys : p.values[k] <= writes + 1
    BY DEF Carried, Package
  <1> HIDE DEF p, q, i
  <1>7. \A k \in Keys : i[k] > 0 <=> p.values[k] > 0
    <2>1. \A k \in Keys : i[k] = IF k \in p.shared THEN q.values[k] ELSE p.values[k]
      BY <1>2
    <2>2. \A k \in p.shared : p.values[k] > 0 /\ q.values[k] > 0  BY <1>6 DEF Present
    <2> QED  BY <2>1, <2>2
  <1>8. \A k \in Keys : i[k] <= writes + 1 /\ (i[k] = p.values[k] \/ (k \in Nested /\ q.given # {}))
    <2>1. \A k \in Keys : i[k] = IF k \in p.shared THEN q.values[k] ELSE p.values[k]
      BY <1>2
    <2> QED  BY <1>3, <1>6, <2>1
  <1>9. Present(i) = Present(p.values)  BY <1>7 DEF Present
  <1> QED  BY <1>5, <1>8, <1>9 DEF p, q, i

\* The package is stored, and perhaps another agent goes on with it.
LEMMA FinishInv == ASSUME IInv, NEW c \in Calls, Finish(c) PROVE IInv'
  <1> USE DEF IInv
  <1> DEFINE p == call[c]
             q == p.src
             n == Len(run) + 1
             targets == Select(p.loads)
             a == CHOOSE x \in targets : TRUE
             new == Resumed(p, a)
  <1>1. /\ c \in Pending /\ call' = [call EXCEPT ![c] = NoCall]
        /\ stored' = [stored EXCEPT ![q] = {p.values}]
        /\ run' = run \o (IF targets = {} THEN <<>> ELSE <<new>>)
        /\ audit' = audit \cup {StoredEntry(q)}
                          \cup (IF targets = {} THEN {} ELSE {InjectedEntry(q, n)})
        /\ tracked' \in {tracked, tracked \ {run[q].agent}}
        /\ UNCHANGED <<failures, unanswered, writes>>
    BY DEF Finish, Callback, Pending
  <1>2. Len(run) \in Nat /\ DOMAIN run = 1 .. Len(run) /\ \A r \in DOMAIN run : run[r] \in RunRecords
    BY RunDomain
  <1>3. /\ q \in DOMAIN run /\ Package(p, run[q])
        /\ p.values \in Values /\ p.allow \subseteq Keys
    BY <1>1 DEF Carried, Types, CallType, Pending
  <1>4. targets # {} => a \in Agents
    BY DEF Select, Agents
  <1>5. targets # {} => /\ new \in RunRecords
                        /\ Present(new.born) = Present(p.values)
                        /\ \A k \in Keys : /\ new.values[k] <= writes + 1
                                           /\ \/ new.born[k] = p.values[k]
                                              \/ k \in Nested /\ run[q].given # {}
                        /\ new.parent = q /\ new.given = p.allow /\ new.allow = p.allow
                        /\ new.dropped = p.dropped /\ new.kept = p.values /\ new.values = new.born
    BY <1>1, <1>4, InjectedValues DEF Resumed
  <1> HIDE DEF p, q, targets, new
  <1>6. /\ run' \in Seq(RunRecords)
        /\ Len(run') = IF targets = {} THEN Len(run) ELSE n
        /\ \A r \in DOMAIN run : run'[r] = run[r]
        /\ targets # {} => run'[n] = new
    <2>1. CASE targets = {}
      <3>1. run' = run  BY <1>1, <2>1, ConcatEmptySeq DEF Types
      <3> QED  BY <2>1, <3>1 DEF Types
    <2>2. CASE targets # {}
      <3>1. run' = Append(run, new)  BY <1>1, <2>2 DEF Types
      <3> QED  BY <1>2, <1>5, <2>2, <3>1, AppendProperties DEF Types
    <2> QED  BY <2>1, <2>2
  <1>7. DOMAIN run' = IF targets = {} THEN DOMAIN run ELSE DOMAIN run \cup {n}
    <2>1. DOMAIN run' = 1 .. Len(run')  BY <1>6, LenProperties
    <2>2. 1 .. n = (1 .. Len(run)) \cup {n}  BY <1>2
    <2> QED  BY <1>2, <1>6, <2>1, <2>2
  <1>8. \A r \in DOMAIN run' : (r \in DOMAIN run /\ run'[r] = run[r])
                               \/ (targets # {} /\ r = n /\ run'[r] = new)
    BY <1>6, <1>7
  <1>9. q \in DOMAIN run' /\ run'[q] = run[q] /\ q < n /\ q # 0 /\ q \in Runs
    <2>1. Len(run) <= MaxRuns  BY <1>2, PendingFinite, Bounds DEF Room
    <2> QED  BY <1>2, <1>3, <1>6, <1>7, <2>1, Bounds DEF Runs
  <1>10. Types'
    <2>1. stored' \in [Runs -> SUBSET Values]  BY <1>1, <1>3 DEF Types
    <2>2. tracked' \subseteq Agents  BY <1>1 DEF Types
    <2> QED  BY <1>1, <1>6, <2>1, <2>2, ReturnCall DEF Types
  <1>11. Room'
    <2>1. Cardinality(Pending') = Cardinality(Pending) - 1  BY <1>1, ReturnCall
    <2> QED  BY <1>2, <1>6, <2>1, PendingFinite, Bounds DEF Room
  <1>12. Lineage'
    <2> SUFFICES ASSUME NEW r \in DOMAIN run'
                 PROVE  /\ run'[r].parent < r
                        /\ run'[r].parent = 0 => run'[r].dropped = {}
                        /\ run'[r].given = run'[r].allow
                        /\ run'[r].dropped \cap run'[r].allow = {}
                        /\ run'[r].allow = {} => run'[r].dropped = {}
                        /\ Present(run'[r].born) \subseteq run'[r].allow \cap Present(run'[r].values)
                        /\ \A k \in Keys : run'[r].values[k] <= writes + 1
      BY <1>1 DEF Lineage
    <2>1. CASE r \in DOMAIN run /\ run'[r] = run[r]  BY <2>1 DEF Lineage
    <2>2. CASE targets # {} /\ r = n /\ run'[r] = new
      BY <2>2, <1>3, <1>5, <1>9 DEF Package
    <2> QED  BY <1>8, <2>1, <2>2
  <1>13. Carried'
    <2>1. \A d \in Pending' : d \in Pending /\ call'[d] = call[d]
      BY <1>1, ReturnCall DEF Pending
    <2> QED  BY <1>1, <1>6, <1>7, <2>1 DEF Carried
  <1>14. DropsAreRecorded'
    <2> SUFFICES ASSUME NEW r \in DOMAIN run', run'[r].parent # 0, NEW m, m = run'[r].parent
                 PROVE  /\ run'[m].parent = 0 /\ run'[m].given = {} => run'[r].dropped = {}
                        /\ run'[m].parent # 0 =>
                             /\ Present(run'[m].born) \subseteq Present(run'[r].born)
                             /\ run'[m].dropped \subseteq run'[r].dropped
                        /\ Present(run'[r].born) \cap run'[r].dropped = {}
      BY DEF DropsAreRecorded
    <2>1. CASE r \in DOMAIN run /\ run'[r] = run[r]
      <3>1. m \in DOMAIN run  BY <1>2, <2>1 DEF Lineage, RunRecords
      <3>2. run'[m] = run[m]  BY <1>6, <3>1
      <3> QED  BY <2>1, <3>2 DEF DropsAreRecorded
    <2>2. CASE targets # {} /\ r = n /\ run'[r] = new
      BY <2>2, <1>3, <1>5, <1>9 DEF Package
    <2> QED  BY <1>8, <2>1, <2>2
  <1>15. InjectedIsStored'
    <2>1. ASSUME NEW r \in DOMAIN run', run'[r].parent # 0
          PROVE  /\ {StoredEntry(run'[r].parent), InjectedEntry(run'[r].parent, r)} \subseteq audit'
                 /\ \A k \in Keys : \/ run'[r].born[k] = run'[r].kept[k]
                                    \/ k \in Nested /\ run'[run'[r].parent].given # {}
      <3>1. CASE r \in DOMAIN run /\ run'[r] = run[r]
        <4>1. run[r].parent \in DOMAIN run  BY <1>2, <2>1, <3>1 DEF Lineage, RunRecords
        <4>2. run'[run[r].parent] = run[run[r].parent]  BY <1>6, <4>1
        <4> QED  BY <1>1, <2>1, <3>1, <4>2 DEF InjectedIsStored
      <3>2. CASE targets # {} /\ r = n /\ run'[r] = new
        BY <3>2, <1>1, <1>5, <1>9
      <3> QED  BY <1>8, <3>1, <3>2
    <2>2. ASSUME NEW r \in Runs
          PROVE  /\ StoredEntry(r) \in audit' => stored'[r] # {}
                 /\ stored'[r] # {} => StoredEntry(r) \in audit' \/ r \in unanswered'
      <3>1. StoredEntry(r) # InjectedEntry(q, n)  BY DEF StoredEntry, InjectedEntry
      <3>2. StoredEntry(r) = StoredEntry(q) <=> r = q  BY DEF StoredEntry
      <3>3. stored'[r] = IF r = q THEN {p.values} ELSE stored[r]  BY <1>1, <1>9 DEF Types
      <3>4. StoredEntry(r) \in audit' <=> StoredEntry(r) \in audit \/ r = q
        BY <1>1, <3>1, <3>2
      <3>5. /\ StoredEntry(r) \in audit => stored[r] # {}
            /\ stored[r] # {} => StoredEntry(r) \in audit \/ r \in unanswered
        BY DEF InjectedIsStored
      <3>6. unanswered' = unanswered  BY <1>1
      <3> QED  BY <3>3, <3>4, <3>5, <3>6
    <2> HIDE DEF IInv
    <2> QED  BY <2>1, <2>2 DEF InjectedIsStored
  <1> QED  BY <1>10, <1>11, <1>12, <1>13, <1>14, <1>15

LEMMA NextInv == IInv /\ [Next]_vars => IInv'
  <1> SUFFICES ASSUME IInv, [Next]_vars PROVE IInv'  OBVIOUS
  <1>1. ASSUME NEW r \in Runs, NEW k \in Keys, Write(r, k) PROVE IInv'  BY <1>1, WriteInv
  <1>2. ASSUME NEW r \in Runs, Stop(r) PROVE IInv'  BY <1>2, StopInv
  <1>3. ASSUME NEW r \in Runs, NEW c \in Calls, Check(c, r) PROVE IInv'  BY <1>3, CheckInv
  <1>4. ASSUME NEW a \in Agents, RecordTokens(a) PROVE IInv'  BY <1>4, RecordTokensInv
  <1>5. ASSUME NEW c \in Calls, Finish(c) PROVE IInv'  BY <1>5, FinishInv
  <1>6. ASSUME NEW c \in Calls, SaveFails(c) PROVE IInv'  BY <1>6, SaveFailsInv
  <1>7. CASE UNCHANGED vars
    <2>1. Types' /\ Room'  BY <1>7 DEF vars, IInv, Types, Room, Pending
    <2>2. Lineage' /\ Carried'  BY <1>7 DEF vars, IInv, Lineage, Carried, Pending
    <2>3. DropsAreRecorded' /\ InjectedIsStored'  BY <1>7, RecordsStay DEF vars, IInv
    <2> QED  BY <2>1, <2>2, <2>3 DEF IInv
  <1> QED  BY <1>1, <1>2, <1>3, <1>4, <1>5, <1>6, <1>7 DEF Next

\* The inductive invariant, from which the theorems follow.
THEOREM Invariance == Spec => []IInv
  BY InitInv, NextInv, PTL DEF Spec

-----------------------------------------------------------------------------
(* Loads.  A call that has read of an agent with room for one more may give it one      *)
(* more: it counts as if it had.                                                        *)

Carrying(a) == {r \in DOMAIN run : Active(r) /\ run[r].agent = a}
MayGive(a) == {c \in Pending : call[c].loads # <<>> /\ call[c].loads[a] < MaxConcurrency[a]}
OnlyResumed(a) == \A r \in DOMAIN run : run[r].agent = a => run[r].parent # 0

Overload == \A a \in Able : OnlyResumed(a) =>
                Cardinality(Carrying(a)) + Cardinality(MayGive(a))
                    <= MaxConcurrency[a] + Cardinality(Calls) - 1

LEMMA LoadsCount ==
    ASSUME IInv, NEW a \in Able
    PROVE  /\ Carrying(a) \subseteq DOMAIN run
           /\ IsFiniteSet(Carrying(a)) /\ Cardinality(Carrying(a)) \in Nat
           /\ IsFiniteSet(MayGive(a)) /\ Cardinality(MayGive(a)) \in Nat
           /\ Cardinality(MayGive(a)) <= Cardinality(Calls)
           /\ Cardinality(Calls) \in Nat /\ Cardinality(Calls) >= 1
           /\ MaxConcurrency[a] \in Nat /\ a \in Agents
  <1>1. IsFiniteSet(DOMAIN run)
    <2>1. DOMAIN run = 1 .. Len(run) /\ Len(run) \in Nat  BY RunDomain DEF IInv
    <2> QED  BY <2>1, FS_Interval
  <1>2. /\ Carrying(a) \subseteq DOMAIN run
        /\ IsFiniteSet(Carrying(a)) /\ Cardinality(Carrying(a)) \in Nat
    BY <1>1, FS_Subset, FS_CardinalityType DEF Carrying
  <1>3. IsFiniteSet(Calls) /\ Calls # {}  BY DeliveryAssumption DEF DeliveryAssumption
  <1>4. Cardinality(Calls) \in Nat /\ Cardinality(Calls) >= 1
    <2>1. Cardinality(Calls) \in Nat /\ Cardinality(Calls) # 0
      BY <1>3, FS_CardinalityType, FS_EmptySet
    <2> QED  BY <2>1
  <1>5. MayGive(a) \subseteq Calls  BY DEF MayGive, Pending
  <1>6. /\ IsFiniteSet(MayGive(a)) /\ Cardinality(MayGive(a)) \in Nat
        /\ Cardinality(MayGive(a)) <= Cardinality(Calls)
    BY <1>3, <1>5, FS_Subset, FS_CardinalityType
  <1>7. MaxConcurrency[a] \in Nat /\ a \in Agents
    BY DeliveryAssumption DEF DeliveryAssumption
  <1> QED  BY <1>2, <1>4, <1>6, <1>7

LEMMA NextCounts ==
    IInv' => \A a \in Able : /\ Cardinality(Carrying(a)') \in Nat
                             /\ Cardinality(MayGive(a)') \in Nat
                             /\ Cardinality(MayGive(a)') <= Cardinality(Calls)
  <1> DEFINE Counted == \A a \in Able : /\ Cardinality(Carrying(a)) \in Nat
                                        /\ Cardinality(MayGive(a)) \in Nat
                                        /\ Cardinality(MayGive(a)) <= Cardinality(Calls)
  <1>1. IInv => Counted  BY LoadsCount
  <1> HIDE DEF Counted
  <1>2. IInv' => Counted'  BY <1>1, PTL
  <1> QED  BY <1>2 DEF Counted

LEMMA InitOverload == Init => Overload
  <1> SUFFICES ASSUME Init, NEW a \in Able, OnlyResumed(a)
               PROVE  Cardinality(Carrying(a)) + Cardinality(MayGive(a))
                          <= MaxConcurrency[a] + Cardinality(Calls) - 1
    BY DEF Overload
  <1>1. MayGive(a) = {}  BY DEF Init, MayGive, Pending, NoCall
  <1>2. Carrying(a) = {}
    <2> DEFINE Firsts == {FirstRun(x, v, w) : x \in Agents, v \in [Keys -> {0, 1}], w \in SUBSET Keys}
    <2>1. \A f \in Firsts : f.parent = 0  BY DEF FirstRun
    <2>2. FirstRuns \subseteq Seq(Firsts)  BY DeliveryAssumption DEF DeliveryAssumption
    <2> HIDE DEF Firsts
    <2>3. \A r \in DOMAIN run : run[r] \in Firsts
      BY <2>2, LenProperties, ElementOfSeq DEF Init
    <2> QED  BY <2>1, <2>3 DEF Carrying, OnlyResumed
  <1>3. IInv  BY InitInv
  <1> QED  BY <1>1, <1>2, <1>3, LoadsCount, FS_EmptySet

\* What neither starts a run nor begins a handoff gives no agent more than it may have.
LEMMA QuietOverload ==
    ASSUME IInv, IInv', Overload, DOMAIN run' = DOMAIN run,
           \A r \in DOMAIN run : /\ run'[r].agent = run[r].agent /\ run'[r].parent = run[r].parent
                                 /\ run'[r].active => run[r].active,
           \A c \in Pending' : c \in Pending /\ call'[c] = call[c]
    PROVE  Overload'
  <1> SUFFICES ASSUME NEW a \in Able, OnlyResumed(a)'
               PROVE  Cardinality(Carrying(a)') + Cardinality(MayGive(a)')
                          <= MaxConcurrency[a] + Cardinality(Calls) - 1
    BY DEF Overload
  <1>1. OnlyResumed(a)  BY DEF OnlyResumed
  <1>2. Carrying(a)' \subseteq Carrying(a)  BY DEF Carrying, Active
  <1>3. MayGive(a)' \subseteq MayGive(a)  BY DEF MayGive
  <1>4. /\ Cardinality(Carrying(a)') <= Cardinality(Carrying(a))
        /\ Cardinality(MayGive(a)') <= Cardinality(MayGive(a))
    BY <1>2, <1>3, LoadsCount, FS_Subset
  <1>5. Cardinality(Carrying(a)') \in Nat /\ Cardinality(MayGive(a)') \in Nat
    BY NextCounts
  <1> QED  BY <1>1, <1>4, <1>5, LoadsCount DEF Overload

\* A check reads of room only where there is room.
LEMMA CheckOverload ==
    ASSUME IInv, IInv', Overload, NEW c \in Calls, NEW r \in Runs, Check(c, r)
    PROVE  Overload'
  <1> SUFFICES ASSUME NEW a \in Able, OnlyResumed(a)'
               PROVE  Cardinality(Carrying(a)') + Cardinality(MayGive(a)')
                          <= MaxConcurrency[a] + Cardinality(Calls) - 1
    BY DEF Overload
  <1>1. call[c].at = "idle" /\ run' = run  BY DEF Check, WhitelistStays
  <1>2. OnlyResumed(a) /\ Carrying(a)' = Carrying(a)
    BY <1>1 DEF OnlyResumed, Carrying, Active
  <1>3. \A d \in Calls : d # c => call'[d] = call[d]
    BY DEF Check, IInv, Types
  <1>4. call'[c].loads # <<>> => call'[c].loads = [x \in Agents |-> Load(x)]
    BY DEF Check, IInv, Types
  <1>5. CASE c \in MayGive(a)'
    <2>1. Load(a) < MaxConcurrency[a]  BY <1>4, <1>5, LoadsCount DEF MayGive
    <2>2. Load(a) = Cardinality(Carrying(a))  BY DEF Load, Carrying
    <2>3. /\ Cardinality(MayGive(a)') \in Nat
          /\ Cardinality(MayGive(a)') <= Cardinality(Calls)
      BY NextCounts
    <2> QED  BY <1>2, <2>1, <2>2, <2>3, LoadsCount
  <1>6. CASE c \notin MayGive(a)'
    <2>1. MayGive(a)' \subseteq MayGive(a)  BY <1>3, <1>6 DEF MayGive, Pending
    <2>2. Cardinality(MayGive(a)') <= Cardinality(MayGive(a))
      BY <2>1, LoadsCount, FS_Subset
    <2>3. Cardinality(MayGive(a)') \in Nat  BY NextCounts
    <2> QED  BY <1>2, <2>2, <2>3, LoadsCount DEF Overload
  <1> QED  BY <1>5, <1>6

\* The agent that is selected is one the call might give one more.
LEMMA FinishOverload ==
    ASSUME IInv, IInv', Overload, NEW c \in Calls, Finish(c)
    PROVE  Overload'
  <1> SUFFICES ASSUME NEW a \in Able, OnlyResumed(a)'
               PROVE  Cardinality(Carrying(a)') + Cardinality(MayGive(a)')
                          <= MaxConcurrency[a] + Cardinality(Calls) - 1
    BY DEF Overload
  <1> DEFINE p == call[c]
             n == Len(run) + 1
             targets == Select(p.loads)
             b == CHOOSE x \in targets : TRUE
             new == Resumed(p, b)
  <1>1. /\ c \in Pending /\ call' = [call EXCEPT ![c] = NoCall]
        /\ run' = run \o (IF targets = {} THEN <<>> ELSE <<new>>)
    BY DEF Finish, Pending
  <1>2. /\ \A d \in Pending' : d \in Pending /\ call'[d] = call[d] /\ d # c
        /\ Pending' = Pending \ {c}
    BY <1>1, ReturnCall DEF Pending
  <1>3. run \in Seq(RunRecords) /\ Len(run) \in Nat /\ DOMAIN run = 1 .. Len(run)
    BY RunDomain DEF IInv, Types
  <1>4. CASE targets = {}
    <2>1. run' = run  BY <1>1, <1>3, <1>4, ConcatEmptySeq
    <2>2. Overload'  BY <1>2, <2>1, QuietOverload
    <2> QED  BY <2>2 DEF Overload
  <1>5. CASE targets # {}
    <2>1. b \in targets  BY <1>5
    <2>2. p.loads # <<>> /\ b \in Eligible(p.loads) /\ b \in Agents
      BY <2>1 DEF Select, Agents
    <2>3. c \in MayGive(b)  BY <1>1, <2>2 DEF MayGive, Eligible
    <2>4. new \in RunRecords /\ new.agent = b
      BY <1>1, <2>2, InjectedValues DEF Resumed
    <2>5. run' = Append(run, new)  BY <1>1, <1>3, <1>5
    <2> HIDE DEF b, new, targets
    <2>6. /\ DOMAIN run' = DOMAIN run \cup {n} /\ n \notin DOMAIN run
          /\ run'[n] = new /\ \A r \in DOMAIN run : run'[r] = run[r]
      <3>1. /\ Len(run') = n /\ run' \in Seq(RunRecords) /\ run'[n] = new
            /\ \A r \in 1 .. Len(run) : run'[r] = run[r]
        BY <1>3, <2>4, <2>5, AppendProperties
      <3>2. DOMAIN run' = 1 .. n  BY <3>1, LenProperties
      <3> QED  BY <1>3, <3>1, <3>2
    <2>7. OnlyResumed(a)  BY <2>6 DEF OnlyResumed
    <2>8. MayGive(a)' = MayGive(a) \ {c}  BY <1>2 DEF MayGive
    <2>9. CASE a = b
      <3>1. Carrying(a)' \subseteq Carrying(a) \cup {n}  BY <2>6 DEF Carrying, Active
      <3>2. n \notin Carrying(a)  BY <2>6 DEF Carrying
      <3>3. /\ IsFiniteSet(Carrying(a) \cup {n})
            /\ Cardinality(Carrying(a) \cup {n}) = Cardinality(Carrying(a)) + 1
        BY <3>2, LoadsCount, FS_AddElement
      <3>4. Cardinality(Carrying(a)') <= Cardinality(Carrying(a)) + 1
        BY <3>1, <3>3, FS_Subset
      <3>5. Cardinality(MayGive(a)') = Cardinality(MayGive(a)) - 1
        BY <2>3, <2>8, <2>9, LoadsCount, FS_RemoveElement
      <3>6. Cardinality(Carrying(a)') \in Nat /\ Cardinality(MayGive(a)') \in Nat
        BY NextCounts
      <3> QED  BY <2>7, <3>4, <3>5, <3>6, LoadsCount DEF Overload
    <2>10. CASE a # b
      <3>1. Carrying(a)' = Carrying(a)  BY <2>4, <2>6, <2>10 DEF Carrying, Active
      <3>2. Cardinality(MayGive(a)') <= Cardinality(MayGive(a))
        BY <2>8, LoadsCount, FS_Subset
      <3>3. Cardinality(MayGive(a)') \in Nat  BY NextCounts
      <3> QED  BY <2>7, <3>1, <3>2, <3>3, LoadsCount DEF Overload
    <2> QED  BY <2>9, <2>10
  <1> QED  BY <1>4, <1>5

LEMMA NextOverload == IInv /\ IInv' /\ Overload /\ [Next]_vars => Overload'
  <1> SUFFICES ASSUME IInv, IInv', Overload, [Next]_vars PROVE Overload'  OBVIOUS
  <1>1. run \in Seq(RunRecords) /\ \A r \in DOMAIN run : run[r] \in RunRecords
    BY RunDomain DEF IInv, Types
  <1>2. ASSUME NEW r \in Runs, NEW k \in Keys, Write(r, k) PROVE Overload'
    <2>1. /\ DOMAIN run' = DOMAIN run /\ call' = call
          /\ \A s \in DOMAIN run : /\ run'[s].agent = run[s].agent /\ run'[s].active = run[s].active
                                   /\ run'[s].parent = run[s].parent
      BY <1>1, <1>2 DEF Write, Active, RunRecords
    <2> QED  BY <2>1, QuietOverload DEF Pending
  <1>3. ASSUME NEW r \in Runs, Stop(r) PROVE Overload'
    <2>1. /\ DOMAIN run' = DOMAIN run /\ call' = call
          /\ \A s \in DOMAIN run : /\ run'[s].agent = run[s].agent
                                   /\ run'[s].active => run[s].active
                                   /\ run'[s].parent = run[s].parent
      BY <1>1, <1>3 DEF Stop, Active, RunRecords
    <2> QED  BY <2>1, QuietOverload DEF Pending
  <1>4. ASSUME NEW r \in Runs, NEW c \in Calls, Check(c, r) PROVE Overload'
    BY <1>4, CheckOverload
  <1>5. ASSUME NEW a \in Agents, RecordTokens(a) PROVE Overload'
    BY <1>5, QuietOverload DEF RecordTokens, Pending
  <1>6. ASSUME NEW c \in Calls, Finish(c) PROVE Overload'  BY <1>6, FinishOverload
  <1>7. ASSUME NEW c \in Calls, SaveFails(c) PROVE Overload'
    <2>1. c \in Pending /\ call' = [call EXCEPT ![c] = NoCall] /\ run' = run
      BY <1>7 DEF SaveFails, Pending
    <2>2. \A d \in Pending' : d \in Pending /\ call'[d] = call[d]
      BY <2>1, ReturnCall DEF Pending
    <2> QED  BY <2>1, <2>2, QuietOverload
  <1>8. CASE UNCHANGED vars  BY <1>8, QuietOverload DEF vars, Pending
  <1> QED  BY <1>2, <1>3, <1>4, <1>5, <1>6, <1>7, <1>8 DEF Next

-----------------------------------------------------------------------------
(* Theorems *)

\* The variables keep their types; a package has no key that is not allowed.
THEOREM TypeCorrect == Spec => []TypeOK
  <1>1. IInv => TypeOK
    <2> SUFFICES ASSUME IInv PROVE TypeOK  OBVIOUS
    <2>1. Len(run) <= MaxRuns
      BY PendingFinite, RunDomain, Bounds DEF IInv, Room
    <2>2. ASSUME NEW r \in DOMAIN run
          PROVE  /\ run[r].parent \in 0 .. r - 1 /\ run[r].agent \in Agents
                 /\ run[r].values \in Values /\ run[r].allow \subseteq Keys
      <3>1. run[r] \in RunRecords /\ r \in Nat  BY RunDomain DEF IInv
      <3> QED  BY <3>1 DEF IInv, Lineage, RunRecords
    <2>3. ASSUME NEW c \in Calls
          PROVE  /\ call[c].at \in {"idle", "saving"} /\ call[c].values \in Values
                 /\ Present(call[c].values) \subseteq call[c].allow
      <3>1. CallType(call[c])  BY DEF IInv, Types
      <3>2. CASE call[c].at = "idle"
        <4>1. call[c] = NoCall  BY <3>2 DEF IInv, Types
        <4> QED  BY <3>1, <4>1, AbsentIsEmpty DEF CallType, NoCall
      <3>3. CASE call[c].at # "idle"
        BY <3>1, <3>3 DEF IInv, Carried, Pending, Package, CallType
      <3> QED  BY <3>2, <3>3
    <2> QED  BY <2>1, <2>2, <2>3 DEF TypeOK, IInv, Types
  <1> QED  BY <1>1, Invariance, PTL

\* orchestrator.py, _sanitize_package: no key is dropped without being named, and a chain
\* of handoffs without whitelists drops nothing.
THEOREM NothingDropsUnseen == Spec => []DropsAreRecorded
  <1>1. IInv => DropsAreRecorded  BY DEF IInv
  <1> QED  BY <1>1, Invariance, PTL

\* orchestrator.py, initiate: what is injected is what was saved; what the audit log says
\* is stored is in the store, and it lacks only what a failed save has left there.
THEOREM WhatIsStoredIsResumed == Spec => []InjectedIsStored
  <1>1. IInv => InjectedIsStored  BY DEF IInv
  <1> QED  BY <1>1, Invariance, PTL

\* selector.py, select: however many handoffs overlap, an agent that has only tasks it
\* resumed has at most one more than it may for each other call that runs at a time.
THEOREM OverloadStaysBounded == Spec => []OverloadIsBounded
  <1>1. IInv /\ Overload => OverloadIsBounded
    <2> SUFFICES ASSUME IInv, Overload, NEW a \in Able, OnlyResumed(a)
                 PROVE  Load(a) <= MaxConcurrency[a] + Cardinality(Calls) - 1
      BY DEF OverloadIsBounded, OnlyResumed
    <2>1. Load(a) = Cardinality(Carrying(a))  BY DEF Load, Carrying
    <2> QED  BY <2>1, LoadsCount DEF Overload
  <1>2. Init => Overload  BY InitOverload
  <1>3. IInv /\ IInv' /\ Overload /\ [Next]_vars => Overload'  BY NextOverload
  <1> QED  BY <1>1, <1>2, <1>3, Invariance, PTL DEF Spec
=============================================================================
