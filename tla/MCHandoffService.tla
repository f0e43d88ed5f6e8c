-------------------------- MODULE MCHandoffService --------------------------
(* Instances of HandoffService for TLC. *)
EXTENDS HandoffService

CONSTANTS c1, c2, c3, p1, p2

\* A package handed off twice, and another one.
Retried == [c \in Calls |-> IF c = c3 THEN p2 ELSE p1]

\* The default TTL, or an expiry the caller has set, soon or later.
SomeGiven == {None, 1, 4}
=============================================================================
