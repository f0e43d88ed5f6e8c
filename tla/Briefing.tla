------------------------------ MODULE Briefing ------------------------------
(***************************************************************************)
(* What an agent that resumes a task is told: LLMSummarizer makes the      *)
(* progress summary of a package, by a language model or else by rules,    *)
(* and PromptBasedInjector makes the prompt and the history out of it.     *)
(*                                                                         *)
(* The n-th message of a conversation has text n, or Blank.  A text of     *)
(* fixed wording is Wording, one that the model has written is ByModel.    *)
(***************************************************************************)
EXTENDS Naturals, Sequences, FiniteSets

CONSTANTS MaxMessages,        \* bound
          MaxSteps,           \* steps that the rules keep: 10 in the program
          MaxHistory,         \* MAX_HISTORY_MESSAGES: 20 in the program
          Wording, ByModel

Nothing == 0

BriefingAssumption == /\ MaxMessages \in Nat /\ {MaxSteps, MaxHistory} \subseteq Nat \ {0}
                      /\ {Wording, ByModel} \cap Nat = {}
ASSUME BriefingAssumption

VARIABLES talk,      \* the conversation: the role and the text of each message
          summary,   \* progress_summary
          answer,    \* what came of the client at the last summary
          brief      \* what the injector has returned

briefingVars == <<talk, summary, answer, brief>>

NoSummary == [method |-> "none", steps |-> <<>>, step |-> Nothing, next |-> Nothing]
NoAnswer == [kind |-> "none", named |-> {}]
NoBrief == [given |-> FALSE, progress |-> FALSE, first |-> 0, last |-> 0, warned |-> FALSE]

BriefingInit == /\ talk = <<>> /\ answer = NoAnswer
                /\ summary = NoSummary /\ brief = NoBrief

Talks(role, blank) == /\ Len(talk) < MaxMessages /\ ~brief.given
                      /\ talk' = Append(talk, [role |-> role,
                                               text |-> IF blank THEN Nothing ELSE Len(talk) + 1])
                      /\ UNCHANGED <<summary, answer, brief>>

-----------------------------------------------------------------------------
(* RuleBasedFallbackSummarizer *)

By(role) == {i \in DOMAIN talk : talk[i].role = role}
LastBy(role) == CHOOSE i \in By(role) : \A j \in By(role) : j <= i

\* The results of the last calls of tools, each at its place in the conversation.
LastTools == {i \in By("tool") : Cardinality({j \in By("tool") : i < j}) < MaxSteps}
Steps == IF LastTools = {} THEN <<Wording>> ELSE [i \in LastTools |-> talk[i].text]

\* The last word of the assistant; when that is blank it is not looked for further.
Step == IF By("assistant") = {} \/ talk[LastBy("assistant")].text = Nothing THEN Wording
        ELSE talk[LastBy("assistant")].text

\* The task of the last user message, with a fixed wording around it.
ByRules == [method |-> "rule_based_fallback",
            steps |-> Steps, step |-> Step, next |-> Wording]

-----------------------------------------------------------------------------
(* LLMSummarizer.  What may come of the client:                            *)
(*   "absent"   there is none, or it is of a type that is not supported    *)
(*   "raises"   the call fails                                             *)
(*   "odd"      JSON that is no dict, or with fields of other types        *)
(*   "json"     a JSON dict, which names some of the fields                *)
(*   "text"     any other text, with the labels of some of them            *)
(* "next" stands for the next action, the results and the blockers.        *)

Topics == {"steps", "step", "next"}
ModelAnswers == [kind : {"absent", "raises", "odd"}, named : {{}}]
                \cup [kind : {"json", "text"}, named : SUBSET Topics]

\* Faulty variant: any answer will do.
LegibleAny(a) == a.kind \in {"odd", "json", "text"}
Legible(a) == a.kind \in {"json", "text"}

\* Each field is what the model says of it, or empty.
Said(a, field) == IF field \in a.named THEN ByModel ELSE Nothing
ByLLM(a) == [method |-> "llm", steps |-> IF "steps" \in a.named THEN <<ByModel>> ELSE <<>>,
             step |-> Said(a, "step"), next |-> Said(a, "next")]

Summarize(a) == /\ ~brief.given
                /\ answer' = a
                /\ summary' = IF Legible(a) THEN ByLLM(a) ELSE ByRules
                /\ UNCHANGED <<talk, brief>>

-----------------------------------------------------------------------------
(* PromptBasedInjector.inject, for a package that has not expired.  The     *)
(* history is what it keeps of the talk: from `first` to `last`.            *)

History == [first |-> IF Len(talk) > MaxHistory THEN Len(talk) - MaxHistory + 1 ELSE 1,
            last |-> Len(talk)]
Warns(kept) == kept >= MaxHistory

\* The progress section is left out of a prompt if there is no step at all, whatever
\* else the summary says.
Inject == LET h == History
          IN  /\ ~brief.given /\ summary # NoSummary
              /\ brief' = [given |-> TRUE, first |-> h.first, last |-> h.last,
                           warned |-> Warns(h.last - h.first + 1),
                           progress |-> summary.step # Nothing \/ DOMAIN summary.steps # {}]
              /\ UNCHANGED <<talk, summary, answer>>

BriefingNext == \/ \E role \in {"user", "assistant", "tool"}, blank \in BOOLEAN : Talks(role, blank)
                \/ \E a \in ModelAnswers : Summarize(a)
                \/ Inject

BriefingSpec == BriefingInit /\ [][BriefingNext]_briefingVars

-----------------------------------------------------------------------------
(* Properties *)

\* Every variable keeps its type; a summary by rules has at most MaxSteps steps.
BriefingTypeOK ==
    /\ Len(talk) <= MaxMessages /\ answer \in ModelAnswers \cup {NoAnswer}
    /\ summary.method \in {"none", "llm", "rule_based_fallback"}
    /\ Cardinality(DOMAIN summary.steps) <= MaxSteps
    /\ {summary.step, summary.next} \subseteq (0 .. Len(talk)) \cup {Wording, ByModel}
    /\ brief.given \in BOOLEAN /\ brief.progress \in BOOLEAN /\ brief.warned \in BOOLEAN

\* An agent that resumes is told of the progress, whatever becomes of the language model
\* and however little was said, unless the model has answered and named neither a step
\* that is done nor the one under way (what it says of blockers, results and the next
\* action is then lost); a summary by rules says what is going on and one by the model
\* holds nothing but the model's words; and a history that is cut keeps the last word,
\* with a warning.
TheTargetIsTold ==
    /\ brief.given => \/ brief.progress
                      \/ summary.method = "llm" /\ answer.named \subseteq {"next"}
    /\ summary.method = "rule_based_fallback" => summary.step # Nothing /\ DOMAIN summary.steps # {}
    /\ summary.method = "llm" =>
         answer.kind \in {"json", "text"} /\ {summary.step, summary.next} \subseteq {Nothing, ByModel}
    /\ brief.given /\ brief.last - brief.first + 1 < Len(talk) => brief.warned /\ brief.last = Len(talk)
=============================================================================
