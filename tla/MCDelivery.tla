----------------------------- MODULE MCDelivery -----------------------------
(* Instances of Delivery for TLC. *)
EXTENDS Delivery

CONSTANTS a, b, plain, dict, c1, c2

Line == <<a, b>>
OneEach == [x \in {a, b} |-> 1]
Windows == [x \in {a, b} |-> IF x = a THEN 0 ELSE 1]

\* One task without a whitelist; the first hop makes one, which the later hops go by.
Nested1 == [x \in Keys |-> IF x \in Nested THEN 1 ELSE 0]
Firsts == {<<FirstRun(a, Nested1, {})>>}
=============================================================================
