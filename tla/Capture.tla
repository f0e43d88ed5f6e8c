------------------------------- MODULE Capture -------------------------------
(***************************************************************************)
(* How handoff_relay makes a package out of what a coding agent has        *)
(* written to its session file.  The agents are other programs: they write *)
(* while they are read, and the newest file may change between the choice  *)
(* of the agent, the choice of its file and the reading of it.             *)
(*                                                                         *)
(* A session is the sequence of its messages.  The n-th message has text   *)
(* n, or Blank; `who` speaks it (which no parser sees), `role` is the      *)
(* label it has in the file and `shape` the form its content has there:    *)
(*   "flat"    the content is a text                                       *)
(*   "null"    the content is null                                         *)
(*   "parts"   the content is a list of parts                              *)
(*   "nested"  the message is a dict, or in a list, inside of the item     *)
(*   "deep"    it is a dict inside of a dict of the item                   *)
(*   "string"  the item is a text                                          *)
(***************************************************************************)
EXTENDS Naturals, Sequences

CONSTANTS Sessions, AgentOf,       \* AgentOf[s]: "claude-code", "codex-cli" or "opencode"
          Utterances,              \* Utterances[a]: what a message of agent a may be like
          Notes, Default,          \* the notes of the user; "<agent> session"
          NoText, PartsList,       \* contents that are no texts: null and a list
          MaxWrites, MaxCaptures   \* bounds

Blank == 0
CodingAgents == {AgentOf[s] : s \in Sessions}

Shapes == {"flat", "null", "parts", "nested", "deep", "string"}
Sayings == [who : {"user", "assistant", "other"}, role : STRING, shape : Shapes, blank : BOOLEAN]

\* The labels under which each agent writes down what the user says and what it says
\* itself, in the forms of a message that have one.
UserLabels(a) == IF a = "codex-cli" THEN {"user", "input", "prompt"} ELSE {"user"}
AgentLabels(a) == {"assistant", "model", "agent"} \cup
                  (IF a = "codex-cli" THEN {"output", "response", "completion", "agent_message"} ELSE {})
Labelled(a, u) ==
    u.shape \in (IF a = "codex-cli" THEN {"flat", "parts", "nested"} ELSE {"flat", "null", "parts"}) =>
        /\ u.who = "user" <=> u.role \in UserLabels(a)
        /\ u.who = "assistant" <=> u.role \in AgentLabels(a)

CaptureAssumption ==
    /\ MaxWrites \in Nat /\ MaxCaptures \in Nat
    /\ "" \notin Sessions /\ AgentOf \in [Sessions -> {"claude-code", "codex-cli", "opencode"}]
    /\ \A a \in CodingAgents : /\ Utterances[a] \subseteq Sayings
                              /\ \A u \in Utterances[a] : Labelled(a, u)
    /\ {Notes, Default, NoText, PartsList} \cap Nat = {}
ASSUME CaptureAssumption

VARIABLES session,    \* session[s]: its messages, and the tail that is being written
          written,    \* written[s]: when it was last written to (0: there is no such file)
          clock,      \* writes so far
          call,       \* create_package, as far as it has come
          captures,   \* calls so far
          result      \* what the last call has led to

captureVars == <<session, written, clock, call, captures, result>>

NoCall == [at |-> "none", agent |-> "", session |-> "", via |-> "", notes |-> Blank,
           newest |-> 0, seen |-> 0]
NoFields == [description |-> Blank, step |-> Blank, results |-> Blank, blockers |-> Blank]
NoResult == [kind |-> "none", call |-> NoCall, upto |-> 0, tail |-> "none", fields |-> NoFields]

CaptureInit == /\ session = [s \in Sessions |-> [msgs |-> <<>>, tail |-> "none", next |-> {}]]
               /\ written = [s \in Sessions |-> 0] /\ clock = 0
               /\ call = NoCall /\ captures = 0 /\ result = NoResult

There(s) == written[s] > 0
Newest(S) == CHOOSE s \in S : \A t \in S : written[t] <= written[s]

-----------------------------------------------------------------------------
(* The agents.  Codex appends a line, the others write the file anew: while *)
(* that lasts, a reader finds the tail cut (and the line, maybe, within a   *)
(* character).  What is written after the last call is left out.            *)

StartWrite(s, u) ==
    /\ session[s].tail = "none" /\ clock < MaxWrites /\ captures < MaxCaptures
    /\ session' = [session EXCEPT ![s].tail = "cut", ![s].next = {u}]
    /\ clock' = clock + 1
    /\ written' = [written EXCEPT ![s] = clock + 1]
    /\ UNCHANGED <<call, captures, result>>

WriteOn(s) == /\ session[s].tail = "cut" /\ captures < MaxCaptures
              /\ AgentOf[s] = "codex-cli"
              /\ session' = [session EXCEPT ![s].tail = "split"]
              /\ UNCHANGED <<written, clock, call, captures, result>>

Message(u, n) == [who |-> u.who, role |-> u.role, shape |-> u.shape,
                  text |-> IF u.blank THEN Blank ELSE n]
EndWrite(s) ==
    /\ session[s].tail # "none" /\ captures < MaxCaptures
    /\ \E u \in session[s].next :
         session' = [session EXCEPT ![s] = [msgs |-> Append(@.msgs, Message(u, Len(@.msgs) + 1)),
                                            tail |-> "none", next |-> {}]]
    /\ UNCHANGED <<written, clock, call, captures, result>>

-----------------------------------------------------------------------------
(* The parsers.  What they return is a list of pairs of a role and a        *)
(* content; here, each keeps the place of its message in the file.         *)

\* Faulty variant: labels are taken as they are.
CodexRoleVerbatim(role) == role
CodexRole(role) == CASE role \in {"output", "response", "completion", "agent_message"} -> "assistant"
                     [] role \in {"input", "prompt"} -> "user"
                     [] role = "developer" -> "system"
                     [] OTHER -> role

\* A blank content is no message; a dict is searched for messages one level down.
CodexParse(msgs) ==
    [i \in {j \in DOMAIN msgs : /\ msgs[j].shape \in {"flat", "parts", "nested"}
                               /\ msgs[j].text # Blank}
        |-> [role |-> CodexRole(msgs[i].role), content |-> msgs[i].text]]

JsonContent(m) == CASE m.shape \in {"flat", "string"} -> m.text
                    [] m.shape = "null" -> NoText
                    [] m.shape = "parts" -> IF m.text = Blank THEN Blank ELSE PartsList
                    [] OTHER -> Blank
JsonRole(m) == IF m.shape \in {"flat", "null", "parts"} THEN m.role ELSE "unknown"
JsonMessage(m) == [role |-> JsonRole(m), content |-> JsonContent(m)]
ClaudeParse(msgs) == [i \in DOMAIN msgs |-> JsonMessage(msgs[i])]
OpenCodeParse(msgs) == [i \in {j \in DOMAIN msgs : msgs[j].shape # "string"} |-> JsonMessage(msgs[i])]

Parse(a, msgs) == CASE a = "codex-cli" -> CodexParse(msgs)
                    [] a = "claude-code" -> ClaudeParse(msgs)
                    [] a = "opencode" -> OpenCodeParse(msgs)

\* What a reader of the file makes of its tail: json.load takes all or nothing, the
\* lines of Codex are read one by one, but decoded first.
\* Faulty variant: a line that is no JSON is not passed over.
UnreadableLine(s) == session[s].tail # "none"
Unreadable(s) == \/ session[s].tail = "split"
                 \/ session[s].tail = "cut" /\ AgentOf[s] # "codex-cli"

-----------------------------------------------------------------------------
(* _build_snapshot *)

Earliest(S) == CHOOSE i \in S : \A j \in S : i <= j
Spoken(who) == IF who = "user" THEN {"user"} ELSE {"assistant", "model", "agent"}

\* Positions that the scan from the end takes for `who`: down to the first not blank.
Taken(ms, who) == {i \in DOMAIN ms : /\ ms[i].role \in Spoken(who)
                                     /\ \A j \in DOMAIN ms : j > i /\ ms[j].role \in Spoken(who)
                                                             => ms[j].content = Blank}
LastOf(ms, who) == IF Taken(ms, who) = {} THEN Blank ELSE ms[Earliest(Taken(ms, who))].content
ByUser(ms) == {i \in DOMAIN ms : ms[i].role = "user"}
FirstUser(ms) == IF ByUser(ms) = {} THEN Blank ELSE ms[Earliest(ByUser(ms))].content

\* A null cannot be sliced, and a list, sliced, is not a text for the package.
Fits(v) == v \notin {NoText, PartsList}

-----------------------------------------------------------------------------
(* create_package *)

Or(v, w) == IF v = Blank THEN w ELSE v

\* By the adapters of Claude and Codex ...
AdapterFields(ms, notes) ==
    [description |-> Or(FirstUser(ms), Or(notes, Default)),
     step        |-> IF DOMAIN ms # {} THEN LastOf(ms, "assistant") ELSE Or(notes, Default),
     results     |-> LastOf(ms, "user"),
     blockers    |-> IF DOMAIN ms # {} THEN notes ELSE Blank]
\* ... and by the service itself, for what is not Claude.
\* Faulty variant: nobody stands in for a task that is not known.
ServiceFieldsBare(ms, notes) ==
    [description |-> FirstUser(ms), step |-> LastOf(ms, "assistant"),
     results |-> LastOf(ms, "user"), blockers |-> notes]
ServiceFields(ms, notes) ==
    [description |-> Or(FirstUser(ms), Default), step |-> LastOf(ms, "assistant"),
     results |-> LastOf(ms, "user"), blockers |-> notes]

Begin(agent, via, notes) ==
    /\ call.at = "none" /\ captures < MaxCaptures
    /\ via = "adapter" => agent # "opencode"
    /\ via = "service" => agent # "claude-code"
    /\ LET S == {s \in Sessions : AgentOf[s] = agent /\ There(s)}
       IN call' = [NoCall EXCEPT !.at = "begun", !.agent = agent, !.via = via, !.notes = notes,
                                 !.newest = IF S = {} THEN 0 ELSE written[Newest(S)]]
    /\ UNCHANGED <<session, written, clock, captures, result>>

\* switch: detect_current_agent goes by the newest file of all agents.
Detect(notes) ==
    LET S == {s \in Sessions : There(s)}
    IN  /\ call.at = "none" /\ captures < MaxCaptures /\ S # {}
        /\ call' = LET a == AgentOf[Newest(S)]
                   IN [NoCall EXCEPT !.at = "begun", !.agent = a, !.notes = notes,
                                     !.newest = written[Newest(S)],
                                     !.via = IF a = "claude-code" THEN "adapter" ELSE "service"]
        /\ UNCHANGED <<session, written, clock, captures, result>>

\* find_latest_session.  Faulty variant: the session that has the most to tell.
LongestSession(agent) ==
    LET S == {s \in Sessions : AgentOf[s] = agent /\ There(s)}
    IN  IF S = {} THEN {} ELSE {CHOOSE s \in S : \A t \in S : Len(session[t].msgs) <= Len(session[s].msgs)}
LatestSession(agent) ==
    LET S == {s \in Sessions : AgentOf[s] = agent /\ There(s)}
    IN  IF S = {} THEN {} ELSE {Newest(S)}

Returns(r) == /\ result' = r
              /\ captures' = captures + 1
              /\ call' = NoCall
              /\ UNCHANGED <<session, written, clock>>

Package(ms) == IF call.via = "adapter" THEN AdapterFields(ms, call.notes)
               ELSE ServiceFields(ms, call.notes)

Outcome(kind, upto, tail, fields) ==
    [kind |-> kind, call |-> call, upto |-> upto, tail |-> tail, fields |-> fields]

Find == /\ call.at = "begun"
        /\ \/ \E s \in LatestSession(call.agent) :
                /\ call' = [call EXCEPT !.at = "found", !.session = s, !.seen = written[s]]
                /\ UNCHANGED <<session, written, clock, captures, result>>
           \/ /\ LatestSession(call.agent) = {}
              /\ Returns(Outcome("package", 0, "none", Package(<<>>)))

\* What is parsed is more than the package has room for.
Unfit(ms) == \/ ~Fits(FirstUser(ms))
             \/ \E who \in {"user", "assistant"} : \E i \in Taken(ms, who) : ~Fits(ms[i].content)

Read ==
    LET s == call.session
        ms == Parse(call.agent, session[s].msgs)
        raised == Unreadable(s) \/ Unfit(ms)
    IN  /\ call.at = "found"
        /\ Returns(Outcome(IF raised THEN "error" ELSE "package", Len(session[s].msgs),
                           session[s].tail, IF raised THEN NoFields ELSE Package(ms)))

CaptureNext == \/ \E s \in Sessions : \/ \E u \in Utterances[AgentOf[s]] : StartWrite(s, u)
                                      \/ WriteOn(s) \/ EndWrite(s)
               \/ \E notes \in {Blank, Notes} :
                     \/ Detect(notes)
                     \/ \E a \in CodingAgents, via \in {"adapter", "service"} : Begin(a, via, notes)
               \/ Find \/ Read

CaptureSpec == CaptureInit /\ [][CaptureNext]_captureVars

-----------------------------------------------------------------------------
(* Properties *)

Texts == 0 .. MaxWrites
Fields == [description : (Texts \ {Blank}) \cup {Notes, Default},
           step : Texts \cup {Notes, Default}, results : Texts, blockers : {Blank, Notes}]

\* Every variable keeps its type; every package has a description, and texts only.
CaptureTypeOK ==
    /\ \A s \in Sessions : /\ session[s].tail \in {"none", "cut", "split"}
                           /\ \A i \in DOMAIN session[s].msgs : session[s].msgs[i].text \in {Blank, i}
    /\ written \in [Sessions -> 0 .. clock] /\ clock \in 0 .. MaxWrites
    /\ call.at \in {"none", "begun", "found"} /\ captures \in 0 .. MaxCaptures
    /\ result.kind \in {"none", "error", "package"}
    /\ result.kind = "package" => result.fields \in Fields

Captured == result.kind = "package" /\ result.call.session # ""
ToldTo(r) == SubSeq(session[r.call.session].msgs, 1, r.upto)

\* What a parser can hear: each knows some forms that the others do not.
Audible(agent, m) == /\ m.text # Blank
                     /\ m.shape \in IF agent = "codex-cli" THEN {"flat", "parts", "nested"} ELSE {"flat"}
Heard(agent, told, who) == {i \in DOMAIN told : told[i].who = who /\ Audible(agent, told[i])}

\* A text of `who` that is blank, before any that can be heard.
BlankFirst(agent, told, who) ==
    \E i \in DOMAIN told : /\ told[i].who = who /\ told[i].text = Blank
                          /\ \A j \in Heard(agent, told, who) : i < j

\* f holds the last word of the agent and the last of the user, and the first of the user.
Tells(f, agent, told) ==
    LET agentSaid == Heard(agent, told, "assistant")
        userSaid == Heard(agent, told, "user")
    IN  /\ IF agentSaid = {} THEN f.step \notin Texts \ {Blank}
           ELSE \A i \in agentSaid : f.step >= i /\ f.step \in agentSaid
        /\ IF userSaid = {} THEN f.results = Blank
           ELSE \A i \in userSaid : f.results >= i /\ f.results \in userSaid
        /\ \/ userSaid # {} /\ f.description \in userSaid /\ \A i \in userSaid : f.description <= i
           \/ /\ f.description \in {Notes, Default}
              /\ userSaid = {} \/ BlankFirst(agent, told, "user")

\* The three formats, with the labels and forms that each has, come to the same: a
\* package holds the last word of the agent and the last of the user, and describes
\* the task by the first of the user; of all that was complete when the file was read,
\* whoever has been writing meanwhile.  A blank first word counts, where a parser keeps
\* it: then the task is described by other means.  Whatever was parsed, the user's notes
\* get into the package.
PackageTellsTheTalk ==
    /\ result.kind = "package" /\ result.call.notes = Notes =>
         Notes \in {result.fields.description, result.fields.step, result.fields.blockers}
    /\ Captured => Tells(result.fields, result.call.agent, ToldTo(result))

\* Nothing newer than the captured session had been written when the call began: not
\* by the agent in question and, when that was detected, not by any.
CapturesAreFresh == Captured => result.call.seen >= result.call.newest

\* A session that is being written costs Codex the line that is being written.  A call
\* fails only over a character that is cut, a JSON file that is being rewritten, or a
\* JSON message whose content is no text.
FailuresHaveACause ==
    result.kind = "error" =>
        \/ result.tail = "split"
        \/ /\ result.call.agent # "codex-cli"
           /\ \/ result.tail = "cut"
              \/ \E i \in DOMAIN ToldTo(result) : ToldTo(result)[i].shape \in {"null", "parts"}
=============================================================================
