----------------------------- MODULE LocalStore -----------------------------
(***************************************************************************)
(* LocalHandoffStore: a package is a JSON file plus a row of a SQLite      *)
(* index, shared by every process of the user (CLI commands, hooks, MCP    *)
(* servers).  Each file operation and each SQLite statement is one step;   *)
(* a process may die between any two.                                      *)
(*                                                                         *)
(* SQLite is modelled by what the code relies on: readers see committed    *)
(* rows, one connection at a time has uncommitted writes (lock), waiting   *)
(* for it may time out, and an exception or a crash rolls back.            *)
(* A package id is a fresh uuid, so it is saved once.  Payloads, the other *)
(* columns and the filters of list_packages are left out.                  *)
(***************************************************************************)
EXTENDS Naturals, FiniteSets

CONSTANTS Ids, Procs,
          Ops,            \* operations that processes perform
          TTL, MaxTime, MaxCrashes,
          None, Nobody

ASSUME StoreAssumption == /\ Ops \subseteq {"save", "load", "delete", "cleanup"}
                          /\ {TTL, MaxTime, MaxCrashes} \subseteq Nat
                          /\ None \notin Nat \cup Ids /\ Nobody \notin Procs

VARIABLES now,
          file,       \* file[id]: packages/<id>.json
          row,        \* row[id]: expires_at of the committed index row
          logged,     \* ids whose removal is in the committed audit log
          lock,       \* the process with uncommitted SQLite writes
          proc,       \* proc[p]: the operation that p is executing
          saved,      \* history: ids whose save has begun
          abandoned,  \* history: saves that ended between file and row
          erased,     \* history: ids that delete was called for
          crashes

vars == <<now, file, row, logged, lock, proc, saved, abandoned, erased, crashes>>

Idle == [at |-> "idle", id |-> None, todo |-> {}, gone |-> {}, had |-> FALSE]

SaveLabels    == {"write", "index", "auditSaved"}
LoadLabels    == {"select", "unlinkStale", "unlinkExpired", "deleteRow", "read"}
DeleteLabels  == {"deleteUnlink", "deleteIndex"}
CleanupLabels == {"next", "unlink", "erase", "commit"}
Labels == {"idle", "auditRemoval"} \cup SaveLabels \cup LoadLabels \cup DeleteLabels
                                   \cup CleanupLabels

At(p, label) == proc[p].at = label
Id(p) == proc[p].id
Goto(p, label) == proc' = [proc EXCEPT ![p].at = label]
Begin(p, label, id) == proc' = [proc EXCEPT ![p] = [Idle EXCEPT !.at = label, !.id = id]]
Return(p) == proc' = [proc EXCEPT ![p] = Idle]
CanWrite(p) == lock \in {Nobody, p}

Exists(id) == file[id] # "absent"
Known(id) == row[id] # None          \* it was printed by save or by list_packages

-----------------------------------------------------------------------------
(* save: the file, then the row, then the audit entry *)

SaveOpen(p, id) == /\ At(p, "idle") /\ "save" \in Ops
                   /\ id \notin saved
                   /\ saved' = saved \cup {id}
                   /\ file' = [file EXCEPT ![id] = "partial"]
                   /\ Begin(p, "write", id)
                   /\ UNCHANGED <<now, row, logged, lock, abandoned, erased, crashes>>

\* Faulty variant: the row is written before the payload has reached the file.
SaveWriteLater(p) == /\ At(p, "write")
                     /\ Goto(p, "index")
                     /\ UNCHANGED <<now, file, row, logged, lock, saved, abandoned, erased, crashes>>
SaveWrite(p) == /\ At(p, "write")
                /\ file' = [file EXCEPT ![Id(p)] = "whole"]
                /\ Goto(p, "index")
                /\ UNCHANGED <<now, row, logged, lock, saved, abandoned, erased, crashes>>

SaveIndex(p) == /\ At(p, "index") /\ CanWrite(p)
                /\ row' = [row EXCEPT ![Id(p)] = now + TTL]
                /\ Goto(p, "auditSaved")
                /\ UNCHANGED <<now, file, logged, lock, saved, abandoned, erased, crashes>>

AuditSaved(p) == /\ At(p, "auditSaved") /\ CanWrite(p)
                 /\ Return(p)
                 /\ UNCHANGED <<now, file, row, logged, lock, saved, abandoned, erased, crashes>>

-----------------------------------------------------------------------------
(* load *)

LoadBegin(p, id) == /\ At(p, "idle") /\ "load" \in Ops
                    /\ Known(id) /\ Exists(id)
                    /\ Begin(p, "select", id)
                    /\ UNCHANGED <<now, file, row, logged, lock, saved, abandoned, erased, crashes>>

\* Faulty variant: an expired row is deleted before its file.
SelectRowFirst(p) == /\ At(p, "select")
                     /\ Goto(p, CASE row[Id(p)] = None -> "unlinkStale"
                                  [] row[Id(p)] # None /\ now > row[Id(p)] -> "deleteRow"
                                  [] OTHER -> "read")
                     /\ UNCHANGED <<now, file, row, logged, lock, saved, abandoned, erased, crashes>>
LoadSelect(p) == /\ At(p, "select")
                 /\ Goto(p, CASE row[Id(p)] = None -> "unlinkStale"
                              [] row[Id(p)] # None /\ now > row[Id(p)] -> "unlinkExpired"
                              [] OTHER -> "read")
                 /\ UNCHANGED <<now, file, row, logged, lock, saved, abandoned, erased, crashes>>

UnlinkStale(p) == /\ At(p, "unlinkStale")
                  /\ file' = [file EXCEPT ![Id(p)] = "absent"]
                  /\ Return(p)
                  /\ UNCHANGED <<now, row, logged, lock, saved, abandoned, erased, crashes>>

UnlinkExpired(p) == /\ At(p, "unlinkExpired")
                    /\ file' = [file EXCEPT ![Id(p)] = "absent"]
                    /\ Goto(p, "deleteRow")
                    /\ UNCHANGED <<now, row, logged, lock, saved, abandoned, erased, crashes>>

DeleteRow(p) == /\ At(p, "deleteRow") /\ CanWrite(p)
                /\ row' = [row EXCEPT ![Id(p)] = None]
                /\ Goto(p, "auditRemoval")
                /\ UNCHANGED <<now, file, logged, lock, saved, abandoned, erased, crashes>>

\* Returns the package, or raises if the file is gone or not complete.
Read(p) == /\ At(p, "read")
           /\ Return(p)
           /\ UNCHANGED <<now, file, row, logged, lock, saved, abandoned, erased, crashes>>

AuditRemoval(p) == /\ At(p, "auditRemoval") /\ CanWrite(p)
                   /\ logged' = logged \cup {Id(p)}
                   /\ Return(p)
                   /\ UNCHANGED <<now, file, row, lock, saved, abandoned, erased, crashes>>

-----------------------------------------------------------------------------
(* delete; had: it has deleted the file *)

DeleteBegin(p, id) == /\ At(p, "idle") /\ "delete" \in Ops
                      /\ Known(id)
                      /\ Begin(p, IF Exists(id) THEN "deleteUnlink" ELSE "deleteIndex", id)
                      /\ erased' = erased \cup {id}
                      /\ UNCHANGED <<now, file, row, logged, lock, saved, abandoned, crashes>>

\* unlink() raises if the file has gone since exists().
DeleteUnlink(p) == /\ At(p, "deleteUnlink")
                   /\ file' = [file EXCEPT ![Id(p)] = "absent"]
                   /\ IF Exists(Id(p))
                      THEN proc' = [proc EXCEPT ![p].at = "deleteIndex", ![p].had = TRUE]
                      ELSE Return(p)
                   /\ UNCHANGED <<now, row, logged, lock, saved, abandoned, erased, crashes>>

DeleteIndex(p) == /\ At(p, "deleteIndex") /\ CanWrite(p)
                  /\ row' = [row EXCEPT ![Id(p)] = None]
                  /\ IF row[Id(p)] # None \/ proc[p].had
                     THEN Goto(p, "auditRemoval") ELSE Return(p)
                  /\ UNCHANGED <<now, file, logged, lock, saved, abandoned, erased, crashes>>

-----------------------------------------------------------------------------
(* cleanup_expired: one transaction for all rows, files as it goes *)

CleanupBegin(p) ==
    LET expired == {id \in Ids : row[id] # None /\ row[id] < now} IN
    /\ At(p, "idle") /\ "cleanup" \in Ops
    /\ expired # {}
    /\ proc' = [proc EXCEPT ![p] = [Idle EXCEPT !.at = "next", !.todo = expired]]
    /\ UNCHANGED <<now, file, row, logged, lock, saved, abandoned, erased, crashes>>

CleanupNext(p) == /\ At(p, "next")
                  /\ \E id \in proc[p].todo :
                       proc' = [proc EXCEPT ![p].id = id, ![p].todo = @ \ {id},
                                            ![p].at = IF Exists(id) THEN "unlink" ELSE "erase"]
                  /\ UNCHANGED <<now, file, row, logged, lock, saved, abandoned, erased, crashes>>

\* unlink() raises if the file has gone since exists(): roll back.
\* Faulty variant: the connection is left with its transaction open.
CleanupUnlinkNoRollback(p) == /\ At(p, "unlink")
                              /\ file' = [file EXCEPT ![Id(p)] = "absent"]
                              /\ IF Exists(Id(p)) THEN Goto(p, "erase") ELSE Return(p)
                              /\ UNCHANGED <<now, row, logged, lock, saved, abandoned, erased,
                                             crashes>>
CleanupUnlink(p) == /\ At(p, "unlink")
                    /\ file' = [file EXCEPT ![Id(p)] = "absent"]
                    /\ IF Exists(Id(p))
                       THEN Goto(p, "erase") /\ UNCHANGED lock
                       ELSE Return(p) /\ lock' = (IF lock = p THEN Nobody ELSE lock)
                    /\ UNCHANGED <<now, row, logged, saved, abandoned, erased, crashes>>

\* The first DELETE takes the write lock; the audit entry is in the transaction.
CleanupErase(p) ==
    /\ At(p, "erase") /\ CanWrite(p)
    /\ lock' = p
    /\ proc' = [proc EXCEPT ![p].gone = @ \cup {Id(p)}, ![p].id = None,
                            ![p].at = IF proc[p].todo = {} THEN "commit" ELSE "next"]
    /\ UNCHANGED <<now, file, row, logged, saved, abandoned, erased, crashes>>

\* Faulty variants: the audit entries are not part of the transaction; the
\* transaction is left open.
CommitUnlogged(p) == /\ At(p, "commit")
                     /\ row' = [id \in Ids |-> IF id \in proc[p].gone THEN None ELSE row[id]]
                     /\ lock' = Nobody
                     /\ Return(p)
                     /\ UNCHANGED <<now, file, logged, saved, abandoned, erased, crashes>>
RollBackAtEnd(p) == /\ At(p, "commit")
                    /\ lock' = Nobody
                    /\ Return(p)
                    /\ UNCHANGED <<now, file, row, logged, saved, abandoned, erased, crashes>>
CleanupCommit(p) == /\ At(p, "commit")
                    /\ row' = [id \in Ids |-> IF id \in proc[p].gone THEN None ELSE row[id]]
                    /\ logged' = logged \cup proc[p].gone
                    /\ lock' = Nobody
                    /\ Return(p)
                    /\ UNCHANGED <<now, file, saved, abandoned, erased, crashes>>

-----------------------------------------------------------------------------
WritesNext == {"index", "auditSaved", "deleteRow", "auditRemoval", "deleteIndex", "erase"}

\* A process goes away with what it had not committed.
Vanish(p) == /\ Return(p)
             /\ lock' = IF lock = p THEN Nobody ELSE lock
             /\ abandoned' = IF proc[p].at \in {"write", "index"} THEN abandoned \cup {Id(p)}
                                                                  ELSE abandoned
             /\ UNCHANGED <<now, file, row, logged, saved, erased>>

\* "database is locked": another connection held the lock for five seconds.
LockTimeout(p) == /\ proc[p].at \in WritesNext
                  /\ ~CanWrite(p)
                  /\ Vanish(p)
                  /\ UNCHANGED crashes

Crash(p) == /\ ~At(p, "idle")
            /\ crashes < MaxCrashes
            /\ crashes' = crashes + 1
            /\ Vanish(p)

Tick == /\ now < MaxTime
        /\ now' = now + 1
        /\ UNCHANGED <<file, row, logged, lock, proc, saved, abandoned, erased, crashes>>

Init == /\ now = 0
        /\ file = [id \in Ids |-> "absent"]
        /\ row = [id \in Ids |-> None]
        /\ proc = [p \in Procs |-> Idle]
        /\ logged = {} /\ saved = {} /\ abandoned = {} /\ erased = {}
        /\ lock = Nobody
        /\ crashes = 0

\* The steps of an operation once it has begun.
OpStep(p) == \/ SaveWrite(p) \/ SaveIndex(p) \/ AuditSaved(p)
             \/ LoadSelect(p) \/ UnlinkStale(p) \/ UnlinkExpired(p) \/ DeleteRow(p) \/ Read(p)
             \/ AuditRemoval(p) \/ DeleteUnlink(p) \/ DeleteIndex(p)
             \/ CleanupNext(p) \/ CleanupUnlink(p) \/ CleanupErase(p) \/ CleanupCommit(p)

Next == \/ \E p \in Procs : \/ \E id \in Ids : \/ SaveOpen(p, id)
                                                \/ LoadBegin(p, id)
                                                \/ DeleteBegin(p, id)
                            \/ CleanupBegin(p)
                            \/ OpStep(p)
                            \/ LockTimeout(p) \/ Crash(p)
        \/ Tick

Spec == Init /\ [][Next]_vars

\* A process that executes an operation goes on with it.  `handoff-relay cleanup`
\* is run again and again, each time in a process of its own: as Procs is a fixed
\* set, it gets its turn even if the others keep loading (strong fairness).
FairSpec == /\ Spec
            /\ \A p \in Procs : WF_vars(OpStep(p))
            /\ SF_vars(\E p \in Procs : CleanupBegin(p))

-----------------------------------------------------------------------------
(* Properties *)

\* Every variable keeps its type, and the lock is held by a cleanup under way.
TypeOK == /\ now \in 0 .. MaxTime
          /\ file \in [Ids -> {"absent", "partial", "whole"}]
          /\ row \in [Ids -> (0 .. MaxTime + TTL) \cup {None}]
          /\ {logged, saved, abandoned, erased} \subseteq SUBSET Ids
          /\ proc \in [Procs -> [at : Labels, id : Ids \cup {None}, todo : SUBSET Ids,
                                 gone : SUBSET Ids, had : BOOLEAN]]
          /\ lock \in Procs \cup {Nobody}
          /\ lock # Nobody => proc[lock].at \in CleanupLabels
          /\ crashes \in 0 .. MaxCrashes

\* What list_packages shows and has time left can be loaded: whatever crashes,
\* a row is only there with its complete file, unless delete was called for it.
ListedIsLoadable == \A id \in Ids : row[id] # None /\ now <= row[id] /\ id \notin erased
                                        => file[id] = "whole"

\* Expiry never loses track of a file: one that no row points to belongs to a
\* save that is under way or was cut short, never to an interrupted removal.
OrphansAreAbandonedSaves ==
    \A id \in Ids : Exists(id) /\ row[id] = None =>
        \/ id \in abandoned
        \/ \E p \in Procs : Id(p) = id /\ proc[p].at \in {"write", "index"}

\* A row that goes is in the audit log with it, or its remover is about to log
\* it; a cleanup logs in the transaction that deletes.
RemovalsAreAudited ==
    [][\A id \in Ids : row[id] # None /\ row'[id] = None =>
         id \in logged' \/ \E p \in Procs : proc'[p].at = "auditRemoval" /\ proc'[p].id = id]_vars

\* A package whose time is over leaves the index, whatever crashes, rolls back
\* or is locked on the way.
ExpiredIsRemoved == \A id \in Ids : row[id] # None /\ row[id] < now ~> row[id] = None

\* The docstring of load, "Returns None if the package does not exist or has
\* expired": what it has found in the index it can read.
LoadFindsItsFile == \A p \in Procs : At(p, "read") => file[Id(p)] = "whole"
=============================================================================
