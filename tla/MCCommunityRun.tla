--------------------------- MODULE MCCommunityRun ---------------------------
(* Instances of CommunityRun for TLC. *)
EXTENDS CommunityRun

\* Two tasks: independent, dependent, and waiting for each other.
SomePlans == {g \in [Tasks -> SUBSET Tasks] :
    \/ \A t \in Tasks : g[t] = {}
    \/ g = [t \in Tasks |-> IF t = 1 THEN {} ELSE {1}]
    \/ g = [t \in Tasks |-> Tasks \ {t}]}

AcyclicPlans == {g \in SomePlans : g[1] = {}}

\* Each task its own file, or the first task also claims the second's file.
Disjoint == [t \in Tasks |-> {f \in Files : f = t}]
DisjointClaims == {Disjoint}
SomeClaims == {Disjoint, [Disjoint EXCEPT ![1] = {1, 2}]}
=============================================================================
