-------------------------- MODULE LocalStoreProofs --------------------------
(***************************************************************************)
(* Proofs about LocalStore, for every set of packages and processes, every *)
(* choice of operations, and any number of crashes.                        *)
(*                                                                         *)
(* IInv is the inductive invariant.  Its heart is Sound: what a process    *)
(* has learnt of the ids it works on is still true when it acts on it,     *)
(* whatever the others do, because an id is saved once: nobody else knows  *)
(* it before its row is there, and what has gone does not come back.       *)
(***************************************************************************)
EXTENDS LocalStore, TLAPS

-----------------------------------------------------------------------------
(* The inductive invariant *)

\* The ids that a process works on.
Touched(p) == ({Id(p)} \cup proc[p].todo \cup proc[p].gone) \ {None}

Saving(p) == proc[p].at \in {"write", "index"}
Out(id) == row[id] = None \/ row[id] < now

Sound(p) ==
    /\ proc[p].at \notin {"idle", "next", "commit"} => Id(p) \in Ids
    /\ Touched(p) \subseteq saved
    /\ Saving(p) => /\ proc[p].todo = {} /\ proc[p].gone = {}
                    /\ row[Id(p)] = None
                    /\ At(p, "index") => file[Id(p)] = "whole"
                    /\ \A q \in Procs \ {p} : Id(p) \notin Touched(q)
    /\ proc[p].at \in {"unlinkExpired", "unlink", "erase"} => Out(Id(p))
    /\ At(p, "unlinkStale") => row[Id(p)] = None
    /\ proc[p].at \in {"deleteUnlink", "deleteIndex"} => Id(p) \in erased
    /\ proc[p].at \in {"deleteRow", "deleteIndex", "erase"} => file[Id(p)] = "absent"
    /\ \A id \in proc[p].todo : Out(id)
    /\ \A id \in proc[p].gone : Out(id) /\ file[id] = "absent"

RowsAreSaved == \A id \in Ids : row[id] # None => id \in saved

IInv == /\ TypeOK /\ RowsAreSaved /\ (\A p \in Procs : Sound(p))
        /\ ListedIsLoadable /\ OrphansAreAbandonedSaves

-----------------------------------------------------------------------------
(* Lemmas *)

LEMMA Bounds == TTL \in Nat /\ MaxTime \in Nat /\ MaxCrashes \in Nat
  BY StoreAssumption DEF StoreAssumption

\* What process p does to the file and the row of an id is about its own ids: it takes
\* away, or it is saving the id, or it begins to.
Changes(p, id) ==
    \/ file'[id] = file[id] /\ row'[id] = row[id]
    \/ id \in Touched(p) /\ file'[id] \in {file[id], "absent"} /\ row'[id] \in {row[id], None}
    \/ id \in Touched(p) /\ Saving(p)
    \/ id \notin saved

\* What a step of p leaves alone.
Frame(p) == /\ \A q \in Procs \ {p} : proc'[q] = proc[q]
            /\ now' = now /\ saved \subseteq saved' /\ erased \subseteq erased'
            /\ abandoned \subseteq abandoned'
            /\ \A id \in Touched(p)' \ Touched(p) : id \in Ids /\ (row[id] # None \/ id \notin saved)
            /\ \A id \in Ids : Changes(p, id)

\* A step of one process leaves what the others know true.
LEMMA OthersStaySound ==
    ASSUME IInv, NEW p \in Procs, NEW q \in Procs \ {p}, Frame(p)
    PROVE  Sound(q)'
  <1> USE DEF IInv
  <1>1. proc'[q] = proc[q] /\ now' = now /\ saved \subseteq saved' /\ erased \subseteq erased'
    BY DEF Frame
  <1>2. Sound(q) /\ Sound(p) /\ Touched(q)' = Touched(q)  BY <1>1 DEF Touched, Id
  <1>3. proc[q].todo \subseteq Ids /\ proc[q].gone \subseteq Ids /\ Id(q) \in Ids \cup {None}
        /\ None \notin Ids
    BY StoreAssumption DEF TypeOK, Id, StoreAssumption
  <1>4. ASSUME NEW id \in Touched(q)
        PROVE  file'[id] \in {file[id], "absent"} /\ row'[id] \in {row[id], None}
    <2>1. id \in Ids /\ id \in saved  BY <1>2, <1>3 DEF Touched, Sound
    <2>2. Changes(p, id)  BY <2>1 DEF Frame
    <2>3. ~(id \in Touched(p) /\ Saving(p))
      <3> SUFFICES ASSUME id \in Touched(p), Saving(p) PROVE FALSE  OBVIOUS
      <3>1. id = Id(p)  BY <1>2 DEF Touched, Sound
      <3> QED  BY <1>2, <3>1 DEF Sound
    <2> QED  BY <2>1, <2>2, <2>3 DEF Changes
  <1>5. ASSUME NEW id \in Touched(q), Out(id) PROVE Out(id)'
    BY <1>1, <1>4, <1>5 DEF Out
  <1>6. Saving(q) => /\ Id(q) \in Ids /\ Id(q) \in saved
                     /\ file'[Id(q)] = file[Id(q)] /\ row'[Id(q)] = None
                     /\ \A r \in Procs \ {q} : Id(q) \notin Touched(r)'
    <2> SUFFICES ASSUME Saving(q)
                 PROVE  /\ Id(q) \in Ids /\ Id(q) \in saved
                        /\ file'[Id(q)] = file[Id(q)] /\ row'[Id(q)] = None
                        /\ \A r \in Procs \ {q} : Id(q) \notin Touched(r)'
      OBVIOUS
    <2>1. Id(q) \in Ids /\ row[Id(q)] = None /\ \A r \in Procs \ {q} : Id(q) \notin Touched(r)
      BY <1>2 DEF Sound, Saving
    <2>2. Id(q) \in Touched(q)  BY <1>3, <2>1 DEF Touched
    <2>3. Id(q) \in saved /\ Id(q) \notin Touched(p)  BY <1>2, <2>1, <2>2 DEF Sound
    <2>4. Changes(p, Id(q))  BY <2>1 DEF Frame
    <2>5. file'[Id(q)] = file[Id(q)] /\ row'[Id(q)] = None  BY <2>1, <2>3, <2>4 DEF Changes
    <2>6. Id(q) \notin Touched(p)'  BY <2>1, <2>3 DEF Frame
    <2>7. \A r \in Procs \ {q, p} : Touched(r)' = Touched(r)  BY DEF Frame, Touched, Id
    <2> QED  BY <2>1, <2>3, <2>5, <2>6, <2>7
  <1>7. Id(q)' = Id(q) /\ (Saving(q)' <=> Saving(q)) /\ \A l \in Labels : At(q, l)' <=> At(q, l)
    BY <1>1 DEF Id, Saving, At
  <1>8. Id(q) \in Ids => Id(q) \in Touched(q)  BY <1>3 DEF Touched
  <1>9. proc[q].todo \cup proc[q].gone \subseteq Touched(q)  BY <1>3 DEF Touched
  <1>10. /\ proc'[q].at \notin {"idle", "next", "commit"} => Id(q)' \in Ids
         /\ Touched(q)' \subseteq saved'
    BY <1>1, <1>2, <1>7 DEF Sound
  <1>11. Saving(q)' => /\ proc'[q].todo = {} /\ proc'[q].gone = {}
                       /\ row'[Id(q)'] = None
                       /\ At(q, "index")' => file'[Id(q)'] = "whole"
                       /\ \A r \in Procs \ {q} : Id(q)' \notin Touched(r)'
    BY <1>1, <1>2, <1>6, <1>7 DEF Sound, At
  <1>12. /\ proc'[q].at \in {"unlinkExpired", "unlink", "erase"} => Out(Id(q))'
         /\ At(q, "unlinkStale")' => row'[Id(q)'] = None
         /\ proc'[q].at \in {"deleteUnlink", "deleteIndex"} => Id(q)' \in erased'
         /\ proc'[q].at \in {"deleteRow", "deleteIndex", "erase"} => file'[Id(q)'] = "absent"
    <2>1. proc[q].at \in {"unlinkExpired", "unlink", "erase"} => Out(Id(q))'
      BY <1>2, <1>5, <1>8, <1>1, <1>7 DEF Sound, Out
    <2>2. At(q, "unlinkStale") => row'[Id(q)] = None  BY <1>2, <1>4, <1>8 DEF Sound, At
    <2>3. proc[q].at \in {"deleteRow", "deleteIndex", "erase"} => file'[Id(q)] = "absent"
      BY <1>2, <1>4, <1>8 DEF Sound
    <2> QED  BY <1>1, <1>2, <1>7, <2>1, <2>2, <2>3 DEF Sound, At
  <1>13. /\ \A id \in proc'[q].todo : Out(id)'
         /\ \A id \in proc'[q].gone : Out(id)' /\ file'[id] = "absent"
    BY <1>1, <1>2, <1>4, <1>5, <1>9 DEF Sound
  <1> QED  BY <1>10, <1>11, <1>12, <1>13 DEF Sound

\* A step of p keeps the invariant if it is about its own ids, if p knows what it is
\* doing next, and if each id it changes is consistent afterwards.
LEMMA StepInv ==
    ASSUME IInv, NEW p \in Procs, Frame(p), TypeOK', Sound(p)',
           \A id \in Ids : row'[id] # None => row[id] # None \/ id \in saved',
           \A id \in Ids : \/ file'[id] = file[id] /\ row'[id] = row[id]
                           \/ Out(id)' \/ id \in erased' \/ file'[id] = "whole",
           \A id \in Ids :
              \/ file'[id] = "absent" \/ row'[id] # None
              \/ (Saving(p) /\ Id(p) = id => id \in abandoned') /\ file'[id] = file[id] /\ row'[id] = row[id]
              \/ Saving(p)' /\ Id(p)' = id
    PROVE  IInv'
  <1> USE DEF IInv
  <1>1. \A q \in Procs : Sound(q)'  BY OthersStaySound
  <1>2. RowsAreSaved'  BY DEF RowsAreSaved, Frame
  <1>3. ListedIsLoadable'
    <2> SUFFICES ASSUME NEW id \in Ids, row'[id] # None, now' <= row'[id], id \notin erased'
                 PROVE  file'[id] = "whole"
      BY DEF ListedIsLoadable
    <2>1. ~Out(id)'
      <3>1. row'[id] \in Nat /\ now' \in Nat  BY Bounds DEF TypeOK
      <3> QED  BY <3>1 DEF Out
    <2>2. CASE file'[id] = file[id] /\ row'[id] = row[id]
      BY <2>2 DEF ListedIsLoadable, Frame
    <2> QED  BY <2>1, <2>2
  <1>4. OrphansAreAbandonedSaves'
    <2> SUFFICES ASSUME NEW id \in Ids, file'[id] # "absent", row'[id] = None,
                        id \notin abandoned'
                 PROVE  \E q \in Procs : Id(q)' = id /\ Saving(q)'
      BY DEF OrphansAreAbandonedSaves, Exists, Saving
    <2>1. CASE Saving(p)' /\ Id(p)' = id  BY <2>1
    <2>2. CASE (Saving(p) /\ Id(p) = id => id \in abandoned') /\ file'[id] = file[id] /\ row'[id] = row[id]
      <3>1. PICK q \in Procs : Id(q) = id /\ Saving(q)
        BY <2>2 DEF OrphansAreAbandonedSaves, Exists, Saving, Frame
      <3>2. q # p  BY <2>2, <3>1
      <3> QED  BY <3>1, <3>2 DEF Frame, Id, Saving
    <2> QED  BY <2>1, <2>2
  <1> QED  BY <1>1, <1>2, <1>3, <1>4

-----------------------------------------------------------------------------
(* The invariant holds in the beginning, and every step keeps it *)

LEMMA InitInv == Init => IInv
  <1> SUFFICES ASSUME Init PROVE IInv  OBVIOUS
  <1> USE DEF Init, Idle
  <1>1. TypeOK  BY Bounds, StoreAssumption DEF TypeOK, Labels, StoreAssumption
  <1>2. \A p \in Procs : Sound(p)  BY DEF Sound, Touched, Saving, At, Id
  <1>3. RowsAreSaved /\ ListedIsLoadable /\ OrphansAreAbandonedSaves
    BY DEF RowsAreSaved, ListedIsLoadable, OrphansAreAbandonedSaves, Exists
  <1> QED  BY <1>1, <1>2, <1>3 DEF IInv

\* A process that is idle knows nothing.
LEMMA IdleIsSound ==
    ASSUME NEW p \in Procs, proc'[p] = Idle
    PROVE  Sound(p)' /\ Touched(p)' = {} /\ ~Saving(p)'
  BY DEF Sound, Touched, Saving, At, Id, Idle

\* An operation of p ends without a change to files and rows, or with a crash.
LEMMA ReturnInv ==
    ASSUME IInv, NEW p \in Procs, Return(p),
           UNCHANGED <<now, file, row, saved, erased>>,
           logged \subseteq logged', logged' \subseteq Ids, abandoned' \subseteq Ids,
           abandoned \subseteq abandoned', Saving(p) => Id(p) \in abandoned',
           (lock' = lock /\ lock # p) \/ lock' = IF lock = p THEN Nobody ELSE lock,
           crashes' \in 0 .. MaxCrashes
    PROVE  IInv'
  <1> USE DEF IInv
  <1>1. proc' = [proc EXCEPT ![p] = Idle] /\ Idle.at = "idle"  BY DEF Return, Idle
  <1>2. proc'[p] = Idle /\ \A q \in Procs \ {p} : proc'[q] = proc[q]  BY <1>1 DEF TypeOK
  <1>3. Sound(p)' /\ Touched(p)' = {} /\ ~Saving(p)'  BY <1>2, IdleIsSound
  <1>4. TypeOK'
    <2>1. Idle \in [at : Labels, id : Ids \cup {None}, todo : SUBSET Ids, gone : SUBSET Ids,
                    had : BOOLEAN]
      BY DEF Idle, Labels
    <2>2. proc' \in [Procs -> [at : Labels, id : Ids \cup {None}, todo : SUBSET Ids,
                               gone : SUBSET Ids, had : BOOLEAN]]
      BY <1>1, <2>1 DEF TypeOK
    <2>3. lock' \in Procs \cup {Nobody} /\ (lock' # Nobody => lock' # p /\ lock' = lock)
      BY StoreAssumption DEF TypeOK, StoreAssumption
    <2>4. lock' # Nobody => proc'[lock'].at \in CleanupLabels
      BY <1>2, <2>3 DEF TypeOK
    <2> QED  BY <2>2, <2>3, <2>4 DEF TypeOK
  <1>5. Frame(p)  BY <1>2, <1>3 DEF Frame, Changes
  <1> QED  BY <1>3, <1>4, <1>5, StepInv

LEMMA GoneInv ==
    ASSUME IInv, NEW p \in Procs, LockTimeout(p) \/ Crash(p)
    PROVE  IInv'
  <1> USE DEF IInv
  <1>1. Vanish(p) /\ crashes' \in 0 .. MaxCrashes
    BY Bounds DEF LockTimeout, Crash, TypeOK
  <1>2. Saving(p) => Id(p) \in Ids  BY DEF Sound, Saving
  <1>3. Return(p) /\ UNCHANGED <<now, file, row, logged, saved, erased>>  BY <1>1 DEF Vanish
  <1>4. /\ abandoned \subseteq abandoned' /\ abandoned' \subseteq Ids
        /\ Saving(p) => Id(p) \in abandoned'
        /\ lock' = IF lock = p THEN Nobody ELSE lock
    BY <1>1, <1>2 DEF Vanish, Saving, TypeOK
  <1>5. logged \subseteq Ids  BY DEF TypeOK
  <1> QED  BY <1>1, <1>3, <1>4, <1>5, ReturnInv

\* The steps that only end an operation.
LEMMA EndInv ==
    ASSUME IInv, NEW p \in Procs, AuditSaved(p) \/ Read(p) \/ AuditRemoval(p)
    PROVE  IInv'
  <1> USE DEF IInv
  <1>1. /\ Return(p) /\ proc[p].at \in {"auditSaved", "read", "auditRemoval"}
        /\ logged' \in {logged, logged \cup {Id(p)}}
        /\ UNCHANGED <<now, file, row, lock, saved, abandoned, erased, crashes>>
    BY DEF AuditSaved, Read, AuditRemoval, At
  <1>2. Id(p) \in Ids /\ ~Saving(p)  BY <1>1 DEF Sound, Saving
  <1>3. lock # p  BY <1>1, StoreAssumption DEF TypeOK, CleanupLabels, StoreAssumption
  <1>4. logged \subseteq logged' /\ logged' \subseteq Ids /\ abandoned \subseteq Ids
    BY <1>1, <1>2 DEF TypeOK
  <1>5. crashes' \in 0 .. MaxCrashes  BY <1>1 DEF TypeOK
  <1> QED  BY <1>1, <1>2, <1>3, <1>4, <1>5, ReturnInv

\* The lock is held by a cleanup.
LEMMA NotHolding == ASSUME TypeOK, NEW p \in Procs, proc[p].at \notin CleanupLabels PROVE lock # p
  BY StoreAssumption DEF TypeOK, StoreAssumption

ProcRecords == [at : Labels, id : Ids \cup {None}, todo : SUBSET Ids, gone : SUBSET Ids,
                had : BOOLEAN]

\* A step by which p becomes new.  It saves nothing; it may take away what it knows to be
\* over or erased, a row only after its file.
LEMMA MoveInv ==
    ASSUME IInv, NEW p \in Procs, NEW new \in ProcRecords, proc' = [proc EXCEPT ![p] = new],
           lock' \in {lock, p, Nobody}, lock' = p => new.at \in CleanupLabels,
           logged' \subseteq Ids, erased \subseteq erased', erased' \subseteq Ids,
           UNCHANGED <<now, saved, abandoned, crashes>>,
           file' \in [Ids -> {"absent", "partial", "whole"}],
           row' \in [Ids -> (0 .. MaxTime + TTL) \cup {None}],
           \A id \in Ids :
              \/ file'[id] = file[id] /\ row'[id] = row[id]
              \/ /\ id \in Touched(p)
                 /\ file'[id] \in {file[id], "absent"} /\ row'[id] \in {row[id], None}
                 /\ Out(id)' \/ id \in erased'
                 /\ (row'[id] = row[id] /\ row[id] # None) \/ file'[id] = "absent",
           ~Saving(p), new.at \notin {"write", "index"},
           \A id \in ({new.id} \cup new.todo \cup new.gone) \ {None} :
              row[id] # None \/ id \in Touched(p),
           new.at \notin {"idle", "next", "commit"} => new.id \in Ids,
           new.at \in {"unlinkExpired", "unlink", "erase"} => Out(new.id)',
           new.at = "unlinkStale" => row'[new.id] = None,
           new.at \in {"deleteUnlink", "deleteIndex"} => new.id \in erased',
           new.at \in {"deleteRow", "deleteIndex", "erase"} => file'[new.id] = "absent",
           \A id \in new.todo : Out(id)',
           \A id \in new.gone : Out(id)' /\ file'[id] = "absent"
    PROVE  IInv'
  <1> USE DEF IInv
  <1>1. proc'[p] = new /\ \A q \in Procs \ {p} : proc'[q] = proc[q]  BY DEF TypeOK
  <1>2. TypeOK'
    <2>1. lock' \in Procs \cup {Nobody} /\ (lock' # Nobody => proc'[lock'].at \in CleanupLabels)
      BY <1>1 DEF TypeOK
    <2>2. proc' \in [Procs -> ProcRecords]  BY DEF TypeOK, ProcRecords
    <2> QED  BY <2>1, <2>2 DEF TypeOK, ProcRecords
  <1>3. /\ Touched(p)' = ({new.id} \cup new.todo \cup new.gone) \ {None}
        /\ ~Saving(p)' /\ Id(p)' = new.id
    BY <1>1 DEF Touched, Id, Saving
  <1>4. Touched(p)' \subseteq Ids  BY <1>3 DEF ProcRecords
  <1>5. Touched(p)' \subseteq saved  BY <1>3, <1>4 DEF RowsAreSaved, Sound
  <1>6. Sound(p)'  BY <1>1, <1>3, <1>5 DEF Sound, At
  <1>7. Frame(p)  BY <1>1, <1>3, <1>4 DEF Frame, Changes
  <1>8. \A id \in Ids : row'[id] # None => row[id] # None  OBVIOUS
  <1>9. \A id \in Ids : file'[id] = "absent" \/ row'[id] # None
                          \/ (file'[id] = file[id] /\ row'[id] = row[id])
    OBVIOUS
  <1>10. \A id \in Ids : \/ file'[id] = file[id] /\ row'[id] = row[id]
                         \/ Out(id)' \/ id \in erased'
    OBVIOUS
  <1> HIDE DEF IInv
  <1> QED  BY <1>2, <1>6, <1>7, <1>8, <1>9, <1>10, StepInv

LEMMA BeginInv ==
    ASSUME IInv, NEW p \in Procs,
           (\E id \in Ids : LoadBegin(p, id) \/ DeleteBegin(p, id)) \/ CleanupBegin(p)
    PROVE  IInv'
  <1> USE DEF IInv
  <1>1. proc[p].at = "idle" /\ ~Saving(p) /\ lock # p
    BY NotHolding DEF LoadBegin, DeleteBegin, CleanupBegin, At, Saving, CleanupLabels
  <1>2. ASSUME NEW id \in Ids, LoadBegin(p, id) PROVE IInv'
    <2> DEFINE new == [Idle EXCEPT !.at = "select", !.id = id]
    <2>1. /\ proc' = [proc EXCEPT ![p] = new] /\ row[id] # None
          /\ UNCHANGED <<now, file, row, logged, lock, saved, abandoned, erased, crashes>>
      BY <1>2 DEF LoadBegin, Begin, Known
    <2>2. new.at = "select" /\ new.id = id /\ new.todo = {} /\ new.gone = {} /\ new.had = FALSE  BY DEF Idle
    <2>3. new \in ProcRecords  BY DEF ProcRecords, Labels, LoadLabels, Idle
    <2> HIDE DEF new
    <2> QED  BY <1>1, <2>1, <2>2, <2>3, MoveInv DEF TypeOK
  <1>3. ASSUME NEW id \in Ids, DeleteBegin(p, id) PROVE IInv'
    <2> DEFINE at == IF Exists(id) THEN "deleteUnlink" ELSE "deleteIndex"
               new == [Idle EXCEPT !.at = at, !.id = id]
    <2>1. /\ proc' = [proc EXCEPT ![p] = new] /\ row[id] # None /\ erased' = erased \cup {id}
          /\ UNCHANGED <<now, file, row, logged, lock, saved, abandoned, crashes>>
      BY <1>3 DEF DeleteBegin, Begin, Known
    <2>2. new.at = at /\ new.id = id /\ new.todo = {} /\ new.gone = {} /\ new.had = FALSE  BY DEF Idle
    <2>3. at \in {"deleteUnlink", "deleteIndex"} /\ (at = "deleteIndex" => file[id] = "absent")
      BY DEF Exists
    <2> HIDE DEF at
    <2>4. new \in ProcRecords  BY <2>3 DEF ProcRecords, Labels, DeleteLabels, Idle
    <2> HIDE DEF new
    <2>5. erased' \subseteq Ids /\ erased \subseteq erased' /\ id \in erased'  BY <2>1 DEF TypeOK
    <2> QED  BY <1>1, <2>1, <2>2, <2>3, <2>4, <2>5, MoveInv DEF TypeOK
  <1>4. CASE CleanupBegin(p)
    <2> DEFINE expired == {id \in Ids : row[id] # None /\ row[id] < now}
               new == [Idle EXCEPT !.at = "next", !.todo = expired]
    <2>1. /\ proc' = [proc EXCEPT ![p] = new]
          /\ UNCHANGED <<now, file, row, logged, lock, saved, abandoned, erased, crashes>>
      BY <1>4 DEF CleanupBegin
    <2>2. new.at = "next" /\ new.id = None /\ new.todo = expired /\ new.gone = {} /\ new.had = FALSE
      BY DEF Idle
    <2>3. \A id \in expired : id \in Ids /\ row[id] # None /\ Out(id)'  BY <2>1 DEF Out
    <2>4. expired \subseteq Ids  OBVIOUS
    <2> HIDE DEF expired
    <2>5. new \in ProcRecords  BY <2>4 DEF ProcRecords, Labels, CleanupLabels, Idle
    <2> HIDE DEF new
    <2> QED  BY <1>1, <2>1, <2>2, <2>3, <2>5, MoveInv DEF TypeOK
  <1> QED  BY <1>2, <1>3, <1>4

LEMMA CleanupStepInv ==
    ASSUME IInv, NEW p \in Procs, CleanupNext(p) \/ CleanupErase(p)
    PROVE  IInv'
  <1> USE DEF IInv
  <1>1. proc[p] \in ProcRecords /\ ~Saving(p) /\ Sound(p) /\ None \notin Ids
    BY StoreAssumption DEF CleanupNext, CleanupErase, At, Saving, TypeOK, ProcRecords, StoreAssumption
  <1>2. CASE CleanupNext(p)
    <2>1. PICK id \in proc[p].todo :
             proc' = [proc EXCEPT ![p].id = id, ![p].todo = @ \ {id},
                                  ![p].at = IF Exists(id) THEN "unlink" ELSE "erase"]
      BY <1>2 DEF CleanupNext
    <2> DEFINE at == IF Exists(id) THEN "unlink" ELSE "erase"
               new == [at |-> at, id |-> id, todo |-> proc[p].todo \ {id}, gone |-> proc[p].gone,
                       had |-> proc[p].had]
    <2>2. at \in {"unlink", "erase"} /\ (at = "erase" => file[id] = "absent")  BY DEF Exists
    <2>3. proc' = [proc EXCEPT ![p] = new]  BY <1>1, <2>1 DEF ProcRecords, TypeOK
    <2>4. UNCHANGED <<now, file, row, logged, lock, saved, abandoned, erased, crashes>>
      BY <1>2 DEF CleanupNext
    <2>5. id \in Ids /\ Out(id)' /\ \A x \in proc[p].todo : Out(x)'
      BY <1>1, <2>4 DEF Sound, Out, ProcRecords
    <2>6. \A x \in proc[p].gone : Out(x)' /\ file'[x] = "absent"  BY <1>1, <2>4 DEF Sound, Out
    <2>7. ({id} \cup proc[p].todo \cup proc[p].gone) \ {None} \subseteq Touched(p)  BY DEF Touched
    <2> HIDE DEF at
    <2>8. new \in ProcRecords  BY <1>1, <2>2, <2>5 DEF ProcRecords, Labels, CleanupLabels
    <2>9. /\ new.at = at /\ new.id = id /\ new.todo = proc[p].todo \ {id} /\ new.gone = proc[p].gone
          /\ new.at \in CleanupLabels
      BY <2>2 DEF CleanupLabels
    <2> HIDE DEF new
    <2> QED  BY <1>1, <2>2, <2>3, <2>4, <2>5, <2>6, <2>7, <2>8, <2>9, MoveInv DEF TypeOK
  <1>3. CASE CleanupErase(p)
    <2> DEFINE at == IF proc[p].todo = {} THEN "commit" ELSE "next"
    <2>1. proc[p].at = "erase" /\ at \in {"commit", "next"}  BY <1>3 DEF CleanupErase, At
    <2>2. PICK x \in Ids : x = Id(p)  BY <1>1, <2>1 DEF Sound
    <2> DEFINE gone == proc[p].gone \cup {x}
               new == [proc[p] EXCEPT !.gone = gone, !.id = None, !.at = at]
    <2>3. /\ proc' = [proc EXCEPT ![p] = new] /\ lock' = p
          /\ UNCHANGED <<now, file, row, logged, saved, abandoned, erased, crashes>>
      <3>1. /\ proc' = [proc EXCEPT ![p].gone = gone, ![p].id = None, ![p].at = at]
            /\ lock' = p
            /\ UNCHANGED <<now, file, row, logged, saved, abandoned, erased, crashes>>
        BY <1>3, <2>2 DEF CleanupErase
      <3> HIDE DEF at, gone
      <3> QED  BY <1>1, <3>1 DEF ProcRecords, TypeOK
    <2>4. Out(x)' /\ file'[x] = "absent"
      BY <1>1, <2>1, <2>2, <2>3 DEF Sound, Out
    <2>5. /\ \A y \in proc[p].todo : Out(y)'
          /\ \A y \in proc[p].gone : Out(y)' /\ file'[y] = "absent"
      BY <1>1, <2>3 DEF Sound, Out
    <2>6. ({x} \cup proc[p].todo \cup proc[p].gone) \ {None} = Touched(p)  BY <2>2 DEF Touched
    <2> HIDE DEF at
    <2>7. new \in ProcRecords  BY <1>1, <2>1 DEF ProcRecords, Labels, CleanupLabels
    <2>8. /\ new.at = at /\ new.id = None /\ new.todo = proc[p].todo
          /\ new.gone = proc[p].gone \cup {x} /\ new.at \in CleanupLabels
      BY <2>1 DEF CleanupLabels
    <2> HIDE DEF new
    <2>9. /\ \A id \in ({new.id} \cup new.todo \cup new.gone) \ {None} : id \in Touched(p)
          /\ \A id \in new.todo : Out(id)'
          /\ \A id \in new.gone : Out(id)' /\ file'[id] = "absent"
      BY <2>4, <2>5, <2>6, <2>8
    <2> QED  BY <1>1, <2>1, <2>3, <2>7, <2>8, <2>9, MoveInv DEF TypeOK
  <1> QED  BY <1>2, <1>3

LEMMA SelectInv == ASSUME IInv, NEW p \in Procs, LoadSelect(p) PROVE IInv'
  <1> USE DEF IInv
  <1> DEFINE at == CASE row[Id(p)] = None -> "unlinkStale"
                     [] row[Id(p)] # None /\ now > row[Id(p)] -> "unlinkExpired"
                     [] OTHER -> "read"
             new == [proc[p] EXCEPT !.at = at]
  <1>1. /\ proc[p].at = "select" /\ proc' = [proc EXCEPT ![p] = new]
        /\ UNCHANGED <<now, file, row, logged, lock, saved, abandoned, erased, crashes>>
    BY DEF LoadSelect, At, Goto, TypeOK
  <1>2. proc[p] \in ProcRecords /\ Sound(p) /\ Id(p) \in Ids /\ ~Saving(p) /\ lock # p
    BY <1>1, NotHolding DEF TypeOK, ProcRecords, Sound, Saving, CleanupLabels
  <1>3. now \in Nat /\ row[Id(p)] \in Nat \cup {None}  BY <1>2, Bounds DEF TypeOK
  <1>4. /\ at \in {"unlinkStale", "unlinkExpired", "read"}
        /\ at = "unlinkStale" => row[Id(p)] = None
        /\ at = "unlinkExpired" => row[Id(p)] < now
    BY <1>3
  <1> HIDE DEF at
  <1>5. /\ new.at = at /\ new.id = Id(p) /\ new.todo = proc[p].todo /\ new.gone = proc[p].gone
        /\ new \in ProcRecords
    BY <1>2, <1>4 DEF ProcRecords, Id, Labels, LoadLabels
  <1>6. PICK n \in ProcRecords : n = new  BY <1>5
  <1> HIDE DEF new
  <1>7. ({n.id} \cup n.todo \cup n.gone) \ {None} = Touched(p)  BY <1>5, <1>6 DEF Touched
  <1>8. /\ \A id \in n.todo : Out(id)'
        /\ \A id \in n.gone : Out(id)' /\ file'[id] = "absent"
        /\ n.at = "unlinkExpired" => Out(n.id)'
    <2> SUFFICES /\ \A id \in n.todo : Out(id)
                 /\ \A id \in n.gone : Out(id) /\ file[id] = "absent"
                 /\ n.at = "unlinkExpired" => row[n.id] < now
      BY <1>1 DEF Out
    <2> QED  BY <1>2, <1>4, <1>5, <1>6 DEF Sound
  <1>9. /\ proc' = [proc EXCEPT ![p] = n] /\ n.id \in Ids
        /\ n.at \in {"unlinkStale", "unlinkExpired", "read"}
        /\ n.at = "unlinkStale" => row'[n.id] = None
        /\ lock' \in {lock, p, Nobody} /\ lock' # p
        /\ logged' \subseteq Ids /\ erased \subseteq erased' /\ erased' \subseteq Ids
        /\ file' \in [Ids -> {"absent", "partial", "whole"}]
        /\ row' \in [Ids -> (0 .. MaxTime + TTL) \cup {None}]
    BY <1>1, <1>2, <1>4, <1>5, <1>6 DEF TypeOK
  <1> HIDE DEF IInv
  <1> QED  BY <1>1, <1>2, <1>6, <1>7, <1>8, <1>9, MoveInv

\* A process takes a file away, and ends or goes on with its row.
LEMMA UnlinkInv ==
    ASSUME IInv, NEW p \in Procs,
           UnlinkStale(p) \/ UnlinkExpired(p) \/ DeleteUnlink(p) \/ CleanupUnlink(p)
    PROVE  IInv'
  <1> USE DEF IInv
  <1>1. /\ proc[p].at \in {"unlinkStale", "unlinkExpired", "deleteUnlink", "unlink"}
        /\ file' = [file EXCEPT ![Id(p)] = "absent"]
        /\ UNCHANGED <<now, row, logged, saved, abandoned, erased, crashes>>
        /\ proc[p].at # "unlink" => UNCHANGED lock
    BY DEF UnlinkStale, UnlinkExpired, DeleteUnlink, CleanupUnlink, At
  <1>2. proc[p] \in ProcRecords /\ Sound(p) /\ ~Saving(p)
    BY <1>1 DEF TypeOK, ProcRecords, Saving
  <1>3. PICK x \in Ids : x = Id(p)  BY <1>1, <1>2 DEF Sound
  <1>4. x \in Touched(p)  BY <1>3, StoreAssumption DEF Touched, StoreAssumption
  <1>5. Out(x)' \/ x \in erased'  BY <1>1, <1>2, <1>3 DEF Sound, Out, At
  <1>6. /\ file' \in [Ids -> {"absent", "partial", "whole"}]
        /\ \A id \in Ids : \/ file'[id] = file[id] /\ row'[id] = row[id]
                           \/ id = x /\ file'[id] = "absent" /\ row'[id] = row[id]
    BY <1>1, <1>3 DEF TypeOK
  <1>7. /\ \A id \in proc[p].todo : Out(id)'
        /\ \A id \in proc[p].gone : Out(id)' /\ file'[id] = "absent"
    <2>1. proc[p].gone \subseteq Ids  BY <1>2 DEF ProcRecords
    <2> QED  BY <1>1, <1>2, <1>6, <2>1 DEF Sound, Out
  <1>8. CASE proc' = [proc EXCEPT ![p] = Idle] /\ lock' \in {lock, Nobody} /\ lock' # p
    <2>1. Idle \in ProcRecords  BY DEF Idle, ProcRecords, Labels
    <2>2. Idle.at = "idle" /\ Idle.id = None /\ Idle.todo = {} /\ Idle.gone = {}  BY DEF Idle
    <2> QED  BY <1>1, <1>2, <1>4, <1>5, <1>6, <1>8, <2>1, <2>2, MoveInv DEF TypeOK
  <1>9. ASSUME NEW new \in ProcRecords, proc' = [proc EXCEPT ![p] = new], lock' = lock,
               new.at \in {"deleteRow", "deleteIndex", "erase"}, new.id = x,
               new.todo = proc[p].todo, new.gone = proc[p].gone,
               new.at = "deleteIndex" => x \in erased', new.at = "erase" => Out(x)',
               lock = p => new.at \in CleanupLabels
        PROVE  IInv'
    <2>1. ({new.id} \cup new.todo \cup new.gone) \ {None} = Touched(p)
      BY <1>3, <1>9 DEF Touched
    <2>2. /\ \A id \in new.todo : Out(id)'
          /\ \A id \in new.gone : Out(id)' /\ file'[id] = "absent"
      BY <1>7, <1>9
    <2>3. file'[x] = "absent"  BY <1>1, <1>3 DEF TypeOK
    <2>4. /\ UNCHANGED <<now, row, logged, saved, abandoned, erased, crashes>>
          /\ logged' \subseteq Ids /\ erased \subseteq erased' /\ erased' \subseteq Ids
          /\ row' \in [Ids -> (0 .. MaxTime + TTL) \cup {None}]
          /\ lock' \in {lock, p, Nobody} /\ (lock' = p => new.at \in CleanupLabels)
      BY <1>1, <1>9 DEF TypeOK
    <2>5. \A id \in Ids : \/ file'[id] = file[id] /\ row'[id] = row[id]
                          \/ /\ id \in Touched(p) /\ file'[id] = "absent" /\ row'[id] = row[id]
                             /\ Out(id)' \/ id \in erased'
      BY <1>4, <1>5, <1>6
    <2> HIDE DEF IInv
    <2> QED  BY <1>2, <1>6, <1>9, <2>1, <2>2, <2>3, <2>4, <2>5, MoveInv
  <1>10. CASE UnlinkStale(p)
    <2>1. lock # p  BY <1>10, NotHolding DEF UnlinkStale, At, CleanupLabels
    <2> QED  BY <1>8, <1>10, <2>1 DEF UnlinkStale, Return
  <1>11. CASE UnlinkExpired(p)
    <2> DEFINE new == [proc[p] EXCEPT !.at = "deleteRow"]
    <2>1. proc' = [proc EXCEPT ![p] = new] /\ lock' = lock /\ lock # p
      BY <1>11, NotHolding DEF UnlinkExpired, Goto, At, TypeOK, CleanupLabels
    <2>2. new \in ProcRecords /\ new.at = "deleteRow" /\ new.id = x /\ new.todo = proc[p].todo
          /\ new.gone = proc[p].gone
      BY <1>2, <1>3 DEF ProcRecords, Labels, LoadLabels, Id
    <2> HIDE DEF new
    <2> QED  BY <1>9, <2>1, <2>2
  <1>12. CASE DeleteUnlink(p)
    <2> DEFINE new == [proc[p] EXCEPT !.at = "deleteIndex", !.had = TRUE]
    <2>1. (proc' = [proc EXCEPT ![p] = new] \/ proc' = [proc EXCEPT ![p] = Idle])
          /\ lock' = lock /\ lock # p
      BY <1>12, NotHolding DEF DeleteUnlink, Return, At, TypeOK, CleanupLabels
    <2>2. new \in ProcRecords /\ new.at = "deleteIndex" /\ new.id = x /\ new.todo = proc[p].todo
          /\ new.gone = proc[p].gone
      BY <1>2, <1>3 DEF ProcRecords, Labels, DeleteLabels, Id
    <2>3. x \in erased'  BY <1>1, <1>2, <1>3, <1>12 DEF Sound, DeleteUnlink, At
    <2> HIDE DEF new
    <2> QED  BY <1>8, <1>9, <2>1, <2>2, <2>3
  <1>13. CASE CleanupUnlink(p)
    <2> DEFINE new == [proc[p] EXCEPT !.at = "erase"]
    <2>1. \/ proc' = [proc EXCEPT ![p] = new] /\ lock' = lock
          \/ proc' = [proc EXCEPT ![p] = Idle] /\ lock' = IF lock = p THEN Nobody ELSE lock
      BY <1>13 DEF CleanupUnlink, Goto, Return, TypeOK
    <2>2. new \in ProcRecords /\ new.at = "erase" /\ new.id = x /\ new.todo = proc[p].todo
          /\ new.gone = proc[p].gone
      BY <1>2, <1>3 DEF ProcRecords, Labels, CleanupLabels, Id
    <2>3. Out(x)'  BY <1>1, <1>2, <1>3, <1>13 DEF Sound, CleanupUnlink, At, Out
    <2>4. new.at \in CleanupLabels /\ Nobody # p
      BY <2>2, StoreAssumption DEF CleanupLabels, StoreAssumption
    <2> HIDE DEF new
    <2> QED  BY <1>8, <1>9, <2>1, <2>2, <2>3, <2>4
  <1> QED  BY <1>10, <1>11, <1>12, <1>13

\* A process takes rows away, whose files are gone.
LEMMA RemoveRowInv ==
    ASSUME IInv, NEW p \in Procs, DeleteRow(p) \/ DeleteIndex(p) \/ CleanupCommit(p)
    PROVE  IInv'
  <1> USE DEF IInv
  <1>1. /\ proc[p].at \in {"deleteRow", "deleteIndex", "commit"}
        /\ UNCHANGED <<now, file, saved, abandoned, erased, crashes>>
    BY DEF DeleteRow, DeleteIndex, CleanupCommit, At
  <1>2. proc[p] \in ProcRecords /\ Sound(p) /\ ~Saving(p) /\ None \notin Ids
    BY <1>1, StoreAssumption DEF TypeOK, ProcRecords, Saving, StoreAssumption
  <1>3. ASSUME NEW new \in ProcRecords, proc' = [proc EXCEPT ![p] = new],
               new.at \in {"idle", "auditRemoval"},
               new.todo \subseteq proc[p].todo, new.gone \subseteq proc[p].gone,
               new.id \in Touched(p) \cup {None}, new.at = "auditRemoval" => new.id \in Ids,
               lock' \in {lock, Nobody}, lock' # p, logged' \subseteq Ids,
               NEW R \in SUBSET Ids, R \subseteq Touched(p), \A id \in R : file[id] = "absent",
               row' = [id \in Ids |-> IF id \in R THEN None ELSE row[id]]
        PROVE  IInv'
    <2>1. row' \in [Ids -> (0 .. MaxTime + TTL) \cup {None}] /\ file' = file
      BY <1>1, <1>3 DEF TypeOK
    <2>2. \A id \in Ids : \/ file'[id] = file[id] /\ row'[id] = row[id]
                          \/ /\ id \in Touched(p) /\ file'[id] = file[id] /\ row'[id] = None
                             /\ Out(id)' /\ file'[id] = "absent"
      BY <1>1, <1>3 DEF Out
    <2>3. /\ UNCHANGED <<now, saved, abandoned, erased, crashes>>
          /\ erased \subseteq erased' /\ erased' \subseteq Ids
          /\ file' \in [Ids -> {"absent", "partial", "whole"}]
          /\ lock' \in {lock, p, Nobody}
      BY <1>1, <1>3 DEF TypeOK
    <2>4. \A id \in ({new.id} \cup new.todo \cup new.gone) \ {None} : id \in Touched(p)
      BY <1>3 DEF Touched
    <2>5. /\ \A id \in new.todo : Out(id)'
          /\ \A id \in new.gone : Out(id)' /\ file'[id] = "absent"
      <3> SUFFICES ASSUME NEW id \in new.todo \cup new.gone
                   PROVE  Out(id)' /\ (id \in new.gone => file'[id] = "absent")
        OBVIOUS
      <3>1. id \in Ids /\ Out(id) /\ (id \in new.gone => file[id] = "absent")
        BY <1>2, <1>3 DEF Sound, ProcRecords
      <3> QED  BY <1>1, <1>3, <3>1 DEF Out
    <2> HIDE DEF IInv
    <2> QED  BY <1>2, <1>3, <2>1, <2>2, <2>3, <2>4, <2>5, MoveInv
  <1>4. CASE DeleteRow(p) \/ DeleteIndex(p)
    <2>1. PICK x \in Ids : x = Id(p)  BY <1>2, <1>4 DEF Sound, DeleteRow, DeleteIndex, At
    <2>2. x \in Touched(p) /\ file[x] = "absent" /\ lock # p
      BY <1>2, <1>4, <2>1, NotHolding
         DEF Touched, Sound, DeleteRow, DeleteIndex, At, CleanupLabels
    <2>3. /\ \/ proc' = [proc EXCEPT ![p] = [proc[p] EXCEPT !.at = "auditRemoval"]]
             \/ proc' = [proc EXCEPT ![p] = Idle]
          /\ row' = [row EXCEPT ![x] = None] /\ UNCHANGED <<lock, logged>>
      BY <1>4, <2>1 DEF DeleteRow, DeleteIndex, Goto, Return, TypeOK
    <2>4. PICK n \in ProcRecords : n \in {[proc[p] EXCEPT !.at = "auditRemoval"], Idle}
                                   /\ proc' = [proc EXCEPT ![p] = n]
      <3>1. Idle \in ProcRecords /\ [proc[p] EXCEPT !.at = "auditRemoval"] \in ProcRecords
        BY <1>2 DEF ProcRecords, Idle, Labels
      <3> QED  BY <2>3, <3>1
    <2>5. \/ n.at = "auditRemoval" /\ n.id = x /\ n.todo = proc[p].todo /\ n.gone = proc[p].gone
          \/ n.at = "idle" /\ n.id = None /\ n.todo = {} /\ n.gone = {}
      BY <1>2, <2>1, <2>4 DEF Idle, ProcRecords, Id
    <2>6. /\ {x} \in SUBSET Ids /\ {x} \subseteq Touched(p) /\ \A id \in {x} : file[id] = "absent"
          /\ row' = [id \in Ids |-> IF id \in {x} THEN None ELSE row[id]]
          /\ logged' \subseteq Ids /\ lock' \in {lock, Nobody} /\ lock' # p
      BY <2>2, <2>3 DEF TypeOK
    <2>7. /\ n.at \in {"idle", "auditRemoval"} /\ n.id \in Touched(p) \cup {None}
          /\ n.at = "auditRemoval" => n.id \in Ids
      BY <2>2, <2>5
    <2>8. n.todo \subseteq proc[p].todo /\ n.gone \subseteq proc[p].gone  BY <2>5
    <2> HIDE DEF IInv
    <2> QED  BY <1>3, <2>4, <2>6, <2>7, <2>8
  <1>5. CASE CleanupCommit(p)
    <2> DEFINE R == proc[p].gone
    <2>1. /\ proc' = [proc EXCEPT ![p] = Idle] /\ lock' = Nobody /\ logged' = logged \cup R
          /\ row' = [id \in Ids |-> IF id \in R THEN None ELSE row[id]]
      BY <1>5 DEF CleanupCommit, Return
    <2>2. R \in SUBSET Ids /\ R \subseteq Touched(p) /\ \A id \in R : file[id] = "absent"
      BY <1>2 DEF ProcRecords, Touched, Sound
    <2>3. /\ Idle \in ProcRecords /\ Idle.at = "idle" /\ Idle.id = None
          /\ Idle.todo = {} /\ Idle.gone = {}
      BY DEF ProcRecords, Idle, Labels
    <2>4. logged' \subseteq Ids /\ lock' # p  BY <2>1, <2>2, StoreAssumption DEF TypeOK, StoreAssumption
    <2> HIDE DEF IInv, R
    <2> QED  BY <1>3, <2>1, <2>2, <2>3, <2>4
  <1> QED  BY <1>4, <1>5

-----------------------------------------------------------------------------
(* save *)

\* The steps of a save know nothing but the id that they save.
LEMMA SaveIsAlone ==
    ASSUME IInv, NEW p \in Procs, Saving(p)
    PROVE  /\ Id(p) \in Ids /\ Id(p) \in saved /\ row[Id(p)] = None
           /\ proc[p].todo = {} /\ proc[p].gone = {} /\ Touched(p) = {Id(p)}
           /\ \A q \in Procs \ {p} : Id(p) \notin Touched(q)
  <1>1. Id(p) \in Ids /\ proc[p].todo = {} /\ proc[p].gone = {}
    BY DEF IInv, Sound, Saving
  <1>2. Touched(p) = {Id(p)}  BY <1>1, StoreAssumption DEF Touched, StoreAssumption
  <1> QED  BY <1>1, <1>2 DEF IInv, Sound

LEMMA SaveOpenInv == ASSUME IInv, NEW p \in Procs, NEW x \in Ids, SaveOpen(p, x) PROVE IInv'
  <1> USE DEF IInv
  <1> DEFINE new == [Idle EXCEPT !.at = "write", !.id = x]
  <1>1. /\ proc[p].at = "idle" /\ x \notin saved /\ saved' = saved \cup {x}
        /\ file' = [file EXCEPT ![x] = "partial"] /\ proc' = [proc EXCEPT ![p] = new]
        /\ UNCHANGED <<now, row, logged, lock, abandoned, erased, crashes>>
    BY DEF SaveOpen, At, Begin
  <1>2. /\ new \in ProcRecords /\ new.at = "write" /\ new.id = x /\ new.todo = {} /\ new.gone = {}
    BY DEF Idle, ProcRecords, Labels, SaveLabels
  <1> HIDE DEF new
  <1>3. proc'[p] = new /\ \A q \in Procs \ {p} : proc'[q] = proc[q]  BY <1>1 DEF TypeOK
  <1>4. lock # p /\ ~Saving(p)  BY <1>1, NotHolding DEF Saving, CleanupLabels
  <1>5. TypeOK'
    <2>1. proc' \in [Procs -> ProcRecords]  BY <1>1, <1>2 DEF TypeOK, ProcRecords
    <2>2. lock' # Nobody => proc'[lock'].at \in CleanupLabels  BY <1>1, <1>3, <1>4 DEF TypeOK
    <2>3. file' \in [Ids -> {"absent", "partial", "whole"}] /\ saved' \subseteq Ids
      BY <1>1 DEF TypeOK
    <2> QED  BY <1>1, <2>1, <2>2, <2>3 DEF TypeOK, ProcRecords
  <1>6. /\ Touched(p)' = {x} /\ Id(p)' = x /\ Saving(p)'
        /\ \A q \in Procs \ {p} : Touched(q)' = Touched(q)
    BY <1>2, <1>3, StoreAssumption DEF Touched, Id, Saving, StoreAssumption
  <1>7. row[x] = None /\ \A q \in Procs : x \notin Touched(q)
    BY <1>1 DEF RowsAreSaved, Sound
  <1>8. Sound(p)'
    BY <1>1, <1>2, <1>3, <1>6, <1>7 DEF Sound, At
  <1>9. \A id \in Ids : id # x => file'[id] = file[id] /\ row'[id] = row[id]
    BY <1>1 DEF TypeOK
  <1>10. Frame(p)  BY <1>1, <1>3, <1>6, <1>9 DEF Frame, Changes
  <1>11. Out(x)'
    <2>1. row'[x] = None  BY <1>1, <1>7
    <2> QED  BY <2>1 DEF Out
  <1>12. \A id \in Ids : \/ file'[id] = file[id] /\ row'[id] = row[id]
                         \/ Out(id)' \/ id \in erased' \/ file'[id] = "whole"
    BY <1>9, <1>11
  <1>13. \A id \in Ids :
              \/ file'[id] = "absent" \/ row'[id] # None
              \/ (Saving(p) /\ Id(p) = id => id \in abandoned') /\ file'[id] = file[id] /\ row'[id] = row[id]
              \/ Saving(p)' /\ Id(p)' = id
    BY <1>4, <1>6, <1>9
  <1>14. \A id \in Ids : row'[id] # None => row[id] # None  BY <1>1
  <1> HIDE DEF IInv
  <1> QED  BY <1>5, <1>8, <1>10, <1>12, <1>13, <1>14, StepInv

\* The file is written, then the row.
LEMMA SaveStepInv == ASSUME IInv, NEW p \in Procs, SaveWrite(p) \/ SaveIndex(p) PROVE IInv'
  <1> USE DEF IInv
  <1>1. /\ proc[p].at \in {"write", "index"}
        /\ UNCHANGED <<now, logged, lock, saved, abandoned, erased, crashes>>
    BY DEF SaveWrite, SaveIndex, At
  <1>2. Saving(p) /\ proc[p] \in ProcRecords  BY <1>1 DEF Saving, TypeOK, ProcRecords
  <1>3. PICK x \in Ids : x = Id(p)  BY <1>2, SaveIsAlone
  <1>4. /\ x \in saved /\ row[x] = None /\ proc[p].todo = {} /\ proc[p].gone = {}
        /\ Touched(p) = {x} /\ \A q \in Procs \ {p} : x \notin Touched(q)
    BY <1>2, <1>3, SaveIsAlone
  <1> DEFINE at == IF proc[p].at = "write" THEN "index" ELSE "auditSaved"
             new == [proc[p] EXCEPT !.at = at]
  <1>5. proc' = [proc EXCEPT ![p] = new]
    BY DEF SaveWrite, SaveIndex, At, Goto, TypeOK
  <1>6. /\ new \in ProcRecords /\ new.at = at /\ new.id = x /\ new.todo = {} /\ new.gone = {}
    BY <1>2, <1>3, <1>4 DEF ProcRecords, Labels, SaveLabels, Id
  <1>7. proc'[p] = new /\ \A q \in Procs \ {p} : proc'[q] = proc[q]  BY <1>5 DEF TypeOK
  <1>8. /\ file' \in [Ids -> {"absent", "partial", "whole"}]
        /\ row' \in [Ids -> (0 .. MaxTime + TTL) \cup {None}]
        /\ \A id \in Ids : id # x => file'[id] = file[id] /\ row'[id] = row[id]
        /\ at = "index" => file'[x] = "whole" /\ row'[x] = None
        /\ at = "auditSaved" => file'[x] = file[x] /\ row'[x] # None
    <2>1. now + TTL \in 0 .. MaxTime + TTL /\ now + TTL # None
      <3>1. now \in 0 .. MaxTime  BY DEF TypeOK
      <3>2. now + TTL \in 0 .. MaxTime + TTL  BY <3>1, Bounds
      <3> QED  BY <3>2, Bounds, StoreAssumption DEF StoreAssumption
    <2>2. CASE SaveWrite(p)  BY <2>2, <1>3, <1>4 DEF SaveWrite, At, TypeOK
    <2>3. CASE SaveIndex(p)
      BY <2>1, <2>3, <1>3, <1>4 DEF SaveIndex, At, TypeOK
    <2> QED  BY <2>2, <2>3
  <1>9. at \in {"index", "auditSaved"} /\ (at = "auditSaved" => file[x] = "whole")
    BY <1>1, <1>3 DEF Sound, At, Saving
  <1> HIDE DEF at, new
  <1>10. TypeOK'
    <2>1. proc' \in [Procs -> ProcRecords]  BY <1>5, <1>6 DEF TypeOK, ProcRecords
    <2>2. lock # p  BY <1>1, NotHolding DEF CleanupLabels
    <2>3. lock' # Nobody => proc'[lock'].at \in CleanupLabels  BY <1>1, <1>7, <2>2 DEF TypeOK
    <2> QED  BY <1>1, <1>8, <2>1, <2>3 DEF TypeOK, ProcRecords
  <1>11. /\ Touched(p)' = {x} /\ Id(p)' = x /\ (Saving(p)' <=> at = "index")
         /\ \A q \in Procs \ {p} : Touched(q)' = Touched(q)
    BY <1>6, <1>7, <1>9, StoreAssumption DEF Touched, Id, Saving, StoreAssumption
  <1>12. Sound(p)'
    BY <1>1, <1>4, <1>6, <1>7, <1>8, <1>9, <1>11 DEF Sound, At
  <1>13. Frame(p)  BY <1>1, <1>2, <1>4, <1>7, <1>8, <1>11 DEF Frame, Changes
  <1>14. \A id \in Ids : \/ file'[id] = file[id] /\ row'[id] = row[id]
                         \/ file'[id] = "whole"
    BY <1>8, <1>9
  <1>15. \A id \in Ids : \/ row'[id] # None
                         \/ id # x /\ file'[id] = file[id] /\ row'[id] = row[id]
                         \/ Saving(p)' /\ Id(p)' = id
    BY <1>8, <1>9, <1>11
  <1>16. \A id \in Ids : row'[id] # None => row[id] # None \/ id \in saved'
    BY <1>1, <1>4, <1>8
  <1> HIDE DEF IInv
  <1> QED  BY <1>3, <1>10, <1>12, <1>13, <1>14, <1>15, <1>16, StepInv

-----------------------------------------------------------------------------
\* The clock makes nothing that is over come back.
LEMMA TickInv == ASSUME IInv, Tick PROVE IInv'
  <1> USE DEF IInv
  <1>1. /\ now' = now + 1 /\ now \in Nat /\ now' \in 0 .. MaxTime
        /\ UNCHANGED <<file, row, logged, lock, proc, saved, abandoned, erased, crashes>>
    BY Bounds DEF Tick, TypeOK
  <1>2. TypeOK'  BY <1>1 DEF TypeOK
  <1>3. \A id \in Ids : Out(id) => Out(id)'
    <2>1. \A id \in Ids : row[id] \in Nat \cup {None}  BY Bounds DEF TypeOK
    <2> QED  BY <1>1, <2>1 DEF Out
  <1>4. \A p \in Procs : Sound(p)'
    <2> SUFFICES ASSUME NEW p \in Procs PROVE Sound(p)'  OBVIOUS
    <2>1. proc[p].todo \subseteq Ids /\ proc[p].gone \subseteq Ids  BY DEF TypeOK
    <2>2. /\ proc[p].at \in {"unlinkExpired", "unlink", "erase"} => Out(Id(p))'
          /\ \A id \in proc[p].todo \cup proc[p].gone : Out(id)'
      BY <1>1, <1>3, <2>1 DEF Sound, Id, Out
    <2>3. /\ Touched(p)' = Touched(p) /\ Id(p)' = Id(p) /\ (Saving(p)' <=> Saving(p))
          /\ \A q \in Procs : Touched(q)' = Touched(q)
      BY <1>1 DEF Touched, Id, Saving
    <2> QED  BY <1>1, <2>2, <2>3 DEF Sound, At
  <1>5. RowsAreSaved' /\ OrphansAreAbandonedSaves'
    BY <1>1 DEF RowsAreSaved, OrphansAreAbandonedSaves, Exists, Id
  <1>6. ListedIsLoadable'
    <2>1. \A id \in Ids : row[id] \in Nat \cup {None}  BY Bounds DEF TypeOK
    <2> QED  BY <1>1, <2>1 DEF ListedIsLoadable
  <1> QED  BY <1>2, <1>4, <1>5, <1>6

LEMMA NextInv == IInv /\ [Next]_vars => IInv'
  <1> SUFFICES ASSUME IInv, [Next]_vars PROVE IInv'  OBVIOUS
  <1>1. ASSUME NEW p \in Procs, NEW id \in Ids, SaveOpen(p, id) PROVE IInv'  BY <1>1, SaveOpenInv
  <1>2. ASSUME NEW p \in Procs,
               (\E id \in Ids : LoadBegin(p, id) \/ DeleteBegin(p, id)) \/ CleanupBegin(p)
        PROVE  IInv'
    BY <1>2, BeginInv
  <1>3. ASSUME NEW p \in Procs, OpStep(p) PROVE IInv'
    BY <1>3, SaveStepInv, EndInv, SelectInv, UnlinkInv, RemoveRowInv, CleanupStepInv DEF OpStep
  <1>4. ASSUME NEW p \in Procs, LockTimeout(p) \/ Crash(p) PROVE IInv'  BY <1>4, GoneInv
  <1>5. CASE Tick  BY <1>5, TickInv
  <1>6. CASE UNCHANGED vars
    <2>1. TypeOK' /\ RowsAreSaved' /\ ListedIsLoadable' /\ OrphansAreAbandonedSaves'
      BY <1>6 DEF vars, IInv, TypeOK, RowsAreSaved, ListedIsLoadable, OrphansAreAbandonedSaves,
                  Exists, Id
    <2>2. \A p \in Procs : Sound(p)'
      BY <1>6 DEF vars, IInv, Sound, Touched, Saving, Out, At, Id
    <2> QED  BY <2>1, <2>2 DEF IInv
  <1> QED  BY <1>1, <1>2, <1>3, <1>4, <1>5, <1>6 DEF Next

\* The inductive invariant, from which the theorems follow.
THEOREM Invariance == Spec => []IInv
  BY InitInv, NextInv, PTL DEF Spec

-----------------------------------------------------------------------------
(* Theorems *)

\* The variables keep their types, and only a cleanup holds the lock.
THEOREM TypeCorrect == Spec => []TypeOK
  <1>1. IInv => TypeOK  BY DEF IInv
  <1> QED  BY <1>1, Invariance, PTL

\* store.py: what list_packages shows and has time left can be loaded, whatever crashes.
THEOREM ListedLoads == Spec => []ListedIsLoadable
  <1>1. IInv => ListedIsLoadable  BY DEF IInv
  <1> QED  BY <1>1, Invariance, PTL

\* store.py: a file that no row points to belongs to a save, under way or cut short.
THEOREM OrphansComeFromSaves == Spec => []OrphansAreAbandonedSaves
  <1>1. IInv => OrphansAreAbandonedSaves  BY DEF IInv
  <1> QED  BY <1>1, Invariance, PTL

\* store.py, delete and cleanup_expired: no row goes without an audit entry, written or
\* about to be.
THEOREM RemovalsLeaveATrace == Spec => RemovalsAreAudited
  <1> DEFINE Step == \A id \in Ids : row[id] # None /\ row'[id] = None =>
                       id \in logged' \/ \E p \in Procs : proc'[p].at = "auditRemoval" /\ proc'[p].id = id
  <1>1. IInv /\ [Next]_vars => [Step]_vars
    <2> SUFFICES ASSUME IInv, Next, NEW id \in Ids, row[id] # None, row'[id] = None
                 PROVE  id \in logged' \/ \E p \in Procs : proc'[p].at = "auditRemoval" /\ proc'[p].id = id
      OBVIOUS
    <2> USE DEF IInv
    <2>1. ASSUME NEW p \in Procs, DeleteRow(p)
          PROVE  proc'[p].at = "auditRemoval" /\ proc'[p].id = id
      BY <2>1 DEF DeleteRow, Goto, Id, TypeOK
    <2>2. ASSUME NEW p \in Procs, DeleteIndex(p)
          PROVE  proc'[p].at = "auditRemoval" /\ proc'[p].id = id
      BY <2>2 DEF DeleteIndex, Goto, Id, TypeOK
    <2>3. ASSUME NEW p \in Procs, CleanupCommit(p) PROVE id \in logged'
      BY <2>3 DEF CleanupCommit
    <2>4. ASSUME NEW p \in Procs, SaveIndex(p) PROVE FALSE
      <3>1. row' = [row EXCEPT ![Id(p)] = now + TTL] /\ now \in Nat  BY <2>4, Bounds DEF SaveIndex, TypeOK
      <3>2. now + TTL # None  BY <3>1, Bounds, StoreAssumption DEF StoreAssumption
      <3> QED  BY <3>1, <3>2 DEF TypeOK
    <2>5. CASE row' = row  BY <2>5
    <2> QED
      BY <2>1, <2>2, <2>3, <2>4, <2>5
         DEF Next, OpStep, SaveOpen, LoadBegin, DeleteBegin, CleanupBegin, SaveWrite, AuditSaved,
             LoadSelect, UnlinkStale, UnlinkExpired, Read, AuditRemoval, DeleteUnlink, CleanupNext,
             CleanupUnlink, CleanupErase, LockTimeout, Crash, Vanish, Tick
  <1> QED  BY <1>1, Invariance, PTL DEF Spec, RemovalsAreAudited
=============================================================================
