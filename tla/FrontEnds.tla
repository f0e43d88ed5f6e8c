----------------------------- MODULE FrontEnds -----------------------------
(***************************************************************************)
(* What is done with the words of a language model, of a session file and  *)
(* of a conversation: Planning, Capture and Briefing side by side.  The    *)
(* three share nothing, so that an interleaving of them shows nothing that *)
(* they do not show alone: a behaviour is one of one of them.              *)
(***************************************************************************)
EXTENDS Planning, Capture, Briefing

VARIABLE side   \* which of the three acts

vars == <<planVars, captureVars, briefingVars, side>>

Init == /\ PlanInit /\ CaptureInit /\ BriefingInit
        /\ side \in {"planning", "capture", "briefing"}
Next == /\ UNCHANGED side
        /\ \/ side = "planning" /\ PlanNext /\ UNCHANGED <<captureVars, briefingVars>>
           \/ side = "capture" /\ CaptureNext /\ UNCHANGED <<planVars, briefingVars>>
           \/ side = "briefing" /\ BriefingNext /\ UNCHANGED <<planVars, captureVars>>

Spec == Init /\ [][Next]_vars

\* Every variable of the three keeps its type; a package holds texts and has a
\* description, and a summary has no more steps than the rules keep.
TypeOK == PlanTypeOK /\ CaptureTypeOK /\ BriefingTypeOK
=============================================================================
