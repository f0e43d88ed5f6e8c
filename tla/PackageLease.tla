---------------------------- MODULE PackageLease ----------------------------
(***************************************************************************)
(* What HandoffStore promises (docstrings of orchestrator/store.py): a     *)
(* saved package is there until it expires, and load answers None once it  *)
(* has expired.  Who removes the expired ones, and when, is not visible.   *)
(* The stores disagree on the very instant of expiry: both answers are     *)
(* allowed there.                                                          *)
(***************************************************************************)
EXTENDS Integers

CONSTANTS Ids,       \* package ids
          Times,     \* instants of time
          None

VARIABLES now,       \* the clock
          due,       \* due[id]: the expiry that the last save of id came with
          lease      \* lease[id]: expiry of the package that load would return

vars == <<now, due, lease>>

\* What may be left at time t of a package that expires at e.
Standing(e, t) == CASE e = None -> {None}
                    [] e # None /\ e > t -> {e}
                    [] e # None /\ e = t -> {e, None}
                    [] OTHER -> {None}

Init == /\ now \in Times
        /\ due = [id \in Ids |-> None]
        /\ lease = [id \in Ids |-> None]

Save(id, e) == /\ due' = [due EXCEPT ![id] = e]
               /\ \E l \in Standing(e, now) : lease' = [lease EXCEPT ![id] = l]
               /\ UNCHANGED now

\* The instant of expiry goes by, or a package is dropped in that instant.
TimePasses == /\ now' \in {now, now + 1} \cap Times
              /\ \A id \in Ids : lease'[id] \in Standing(lease[id], now')
              /\ lease' = [id \in Ids |-> lease'[id]]
              /\ UNCHANGED due

Next == (\E id \in Ids, e \in Times : Save(id, e)) \/ TimePasses

Spec == Init /\ [][Next]_vars
=============================================================================
