-------------------------- MODULE FrontEndsProofs --------------------------
(***************************************************************************)
(* Proofs about Capture and Briefing, and about FrontEnds, of which they   *)
(* and Planning are the parts.                                             *)
(***************************************************************************)
EXTENDS FrontEnds, PlanningProofs

-----------------------------------------------------------------------------
(* Capture: first, last, newest *)

\* A least place exists, so the CHOOSE is one.
LEMMA EarliestIsFirst ==
    ASSUME NEW S \in SUBSET Nat, S # {}
    PROVE  Earliest(S) \in S /\ \A j \in S : Earliest(S) <= j
  <1>1. \E i \in S : \A j \in S : i <= j
    BY LeastNat
  <1> QED
    BY <1>1 DEF Earliest

\* Numbers up to a bound have a greatest one.
LEMMA GreatestNat ==
    ASSUME NEW n \in Nat, NEW S \in SUBSET (0 .. n), S # {}
    PROVE  \E i \in S : \A j \in S : j <= i
  <1> DEFINE Gap == {n - i : i \in S}
  <1>1. Gap \in SUBSET Nat /\ Gap # {}
    <2>1. \A i \in S : n - i \in Nat
      OBVIOUS
    <2> QED
      BY <2>1
  <1>2. PICK g \in Gap : \A h \in Gap : g <= h
    BY <1>1, LeastNat
  <1>3. PICK i \in S : g = n - i
    BY <1>2
  <1>4. ASSUME NEW j \in S PROVE j <= i
    <2>1. n - j \in Gap
      OBVIOUS
    <2>2. n - i <= n - j
      BY <1>2, <1>3, <2>1
    <2> QED
      BY <2>2
  <1> QED
    BY <1>4

\* Of finitely many times of writing one is the last.
LEMMA NewestIsLast ==
    ASSUME NEW n \in Nat, written \in [Sessions -> 0 .. n], NEW S \in SUBSET Sessions, S # {}
    PROVE  Newest(S) \in S /\ \A t \in S : written[t] <= written[Newest(S)]
  <1> DEFINE W == {written[s] : s \in S}
  <1>1. W \in SUBSET (0 .. n) /\ W # {}
    OBVIOUS
  <1>2. PICK w \in W : \A v \in W : v <= w
    BY <1>1, GreatestNat
  <1>3. PICK s \in S : w = written[s]
    BY <1>2
  <1>4. \A t \in S : written[t] <= written[s]
    BY <1>2, <1>3
  <1> QED
    BY <1>4 DEF Newest

-----------------------------------------------------------------------------
(* Capture: what the parsers hear *)

Messages == [who : {"user", "assistant", "other"}, role : STRING, shape : Shapes, text : Nat]

\* A session of agent a.
WellTold(a, msgs) == /\ msgs \in Seq(Messages)
                     /\ \A i \in DOMAIN msgs : msgs[i].text \in {Blank, i} /\ Labelled(a, msgs[i])

\* What an agent writes down is labelled with its speaker.
LEMMA MessageIsTold ==
    ASSUME CaptureAssumption, NEW a \in CodingAgents, NEW u \in Utterances[a], NEW i \in Nat
    PROVE  /\ Message(u, i) \in Messages
           /\ Message(u, i).text \in {Blank, i}
           /\ Labelled(a, Message(u, i))
  <1>1. u \in Sayings /\ Labelled(a, u)
    BY DEF CaptureAssumption
  <1>2. /\ Message(u, i).who = u.who /\ Message(u, i).role = u.role /\ Message(u, i).shape = u.shape
        /\ Message(u, i).text \in {Blank, i}
    BY DEF Message
  <1>3. Message(u, i) \in Messages
    BY <1>1 DEF Message, Messages, Sayings, Blank
  <1>4. Labelled(a, Message(u, i))
    BY <1>1, <1>2 DEF Labelled
  <1> QED
    BY <1>2, <1>3, <1>4

\* A list of roles and contents that tells, at the same places, what can be heard of msgs.
Renders(ms, a, msgs) ==
    /\ DOMAIN ms \subseteq DOMAIN msgs
    /\ \A i \in DOMAIN ms :
         /\ ms[i].content \in {Blank, i, NoText, PartsList}
         /\ ~Fits(ms[i].content) => a # "codex-cli" /\ msgs[i].shape \in {"null", "parts"}
         /\ ms[i].role = "user" /\ Fits(ms[i].content) =>
              msgs[i].who = "user" /\ (ms[i].content = Blank => msgs[i].text = Blank)
         /\ \A w \in {"user", "assistant"} :
              ms[i].role \in Spoken(w) /\ Fits(ms[i].content) /\ ms[i].content # Blank =>
                i \in Heard(a, msgs, w) /\ ms[i].content = i
    /\ \A w \in {"user", "assistant"} : \A i \in Heard(a, msgs, w) :
         i \in DOMAIN ms /\ ms[i].role \in Spoken(w) /\ ms[i].content = i

\* Notes, defaults and contents that are no texts are told from the texts.
LEMMA NoTexts ==
    ASSUME CaptureAssumption
    PROVE  /\ NoText \notin Nat /\ PartsList \notin Nat /\ Notes \notin Nat /\ Default \notin Nat
           /\ \A n \in Nat : Fits(n)
  <1>1. {Notes, Default, NoText, PartsList} \cap Nat = {}
    BY DEF CaptureAssumption
  <1>2. NoText \notin Nat /\ PartsList \notin Nat /\ Notes \notin Nat /\ Default \notin Nat
    BY <1>1
  <1> QED
    BY <1>2 DEF Fits

\* The lines of Codex: all that can be heard is kept, under the label of its speaker.
LEMMA CodexRenders ==
    ASSUME CaptureAssumption, NEW msgs, WellTold("codex-cli", msgs)
    PROVE  Renders(CodexParse(msgs), "codex-cli", msgs)
  <1> DEFINE ms == CodexParse(msgs)
  <1>1. DOMAIN ms = {i \in DOMAIN msgs : /\ msgs[i].shape \in {"flat", "parts", "nested"}
                                         /\ msgs[i].text # Blank}
    BY DEF CodexParse
  <1>2. \A i \in DOMAIN ms : ms[i].role = CodexRole(msgs[i].role) /\ ms[i].content = msgs[i].text
    BY DEF CodexParse
  <1>3. \A i \in DOMAIN msgs : msgs[i] \in Messages /\ i \in Nat /\ i # 0
    BY LenProperties DEF WellTold
  <1>4. \A i \in DOMAIN ms : ms[i].content = i /\ Fits(ms[i].content) /\ i # Blank
    BY <1>1, <1>2, <1>3, NoTexts DEF WellTold, Blank
  <1>5. \A role : /\ CodexRole(role) \in Spoken("user") <=> role \in UserLabels("codex-cli")
                  /\ CodexRole(role) \in Spoken("assistant") <=> role \in AgentLabels("codex-cli")
                  /\ CodexRole(role) = "user" => CodexRole(role) \in Spoken("user")
    BY DEF CodexRole, Spoken, UserLabels, AgentLabels
  <1>6. \A i \in DOMAIN ms : /\ msgs[i].who = "user" <=> msgs[i].role \in UserLabels("codex-cli")
                             /\ msgs[i].who = "assistant" <=> msgs[i].role \in AgentLabels("codex-cli")
    BY <1>1 DEF WellTold, Labelled
  <1>7. \A w \in {"user", "assistant"} : \A i \in DOMAIN ms :
           ms[i].role \in Spoken(w) <=> msgs[i].who = w
    <2>1. \A i \in DOMAIN ms : /\ ms[i].role \in Spoken("user") <=> msgs[i].who = "user"
                               /\ ms[i].role \in Spoken("assistant") <=> msgs[i].who = "assistant"
      BY <1>2, <1>5, <1>6
    <2> QED
      BY <2>1
  <1>8. \A w \in {"user", "assistant"} :
           Heard("codex-cli", msgs, w) = {i \in DOMAIN ms : msgs[i].who = w}
    BY <1>1 DEF Heard, Audible
  <1>9. \A i \in DOMAIN ms : ms[i].role = "user" => ms[i].role \in Spoken("user")
    BY DEF Spoken
  <1> HIDE DEF ms
  <1>10. DOMAIN ms \subseteq DOMAIN msgs
    BY <1>1
  <1> QED
    <2>1. \A i \in DOMAIN ms :
            /\ ms[i].content \in {Blank, i, NoText, PartsList}
            /\ Fits(ms[i].content) /\ ms[i].content # Blank
            /\ ms[i].role = "user" => msgs[i].who = "user"
      BY <1>4, <1>7, <1>9
    <2>2. \A i \in DOMAIN ms : \A w \in {"user", "assistant"} :
             ms[i].role \in Spoken(w) => i \in Heard("codex-cli", msgs, w) /\ ms[i].content = i
      BY <1>4, <1>7, <1>8
    <2>3. \A w \in {"user", "assistant"} : \A i \in Heard("codex-cli", msgs, w) :
             i \in DOMAIN ms /\ ms[i].role \in Spoken(w) /\ ms[i].content = i
      BY <1>4, <1>7, <1>8
    <2> QED
      BY <1>10, <2>1, <2>2, <2>3 DEF Renders, ms

\* The same of a JSON file, of whose messages those at the places K are kept: all that
\* have a label, at least.
LEMMA JsonRenders ==
    ASSUME CaptureAssumption, NEW a, a # "codex-cli", NEW msgs, WellTold(a, msgs),
           NEW K \in SUBSET DOMAIN msgs, \A i \in DOMAIN msgs : msgs[i].shape # "string" => i \in K
    PROVE  Renders([i \in K |-> JsonMessage(msgs[i])], a, msgs)
  <1> DEFINE ms == [i \in K |-> JsonMessage(msgs[i])]
  <1>1. DOMAIN ms = K /\ \A i \in K : /\ ms[i].role = JsonRole(msgs[i])
                                      /\ ms[i].content = JsonContent(msgs[i])
    BY DEF JsonMessage
  <1>2. \A i \in K : msgs[i] \in Messages /\ i \in Nat /\ i # Blank /\ msgs[i].text \in {Blank, i}
    BY LenProperties DEF WellTold, Blank
  <1>3. Blank \in Nat /\ \A i \in K : Fits(i) /\ Fits(Blank)
    BY <1>2, NoTexts DEF Blank
  <1>4. ~Fits(NoText) /\ ~Fits(PartsList)
    BY DEF Fits
  <1>5. \A i \in K : msgs[i].shape \in {"flat", "null", "parts"} =>
           /\ msgs[i].who = "user" <=> msgs[i].role = "user"
           /\ msgs[i].who = "assistant" <=> msgs[i].role \in {"assistant", "model", "agent"}
    BY DEF WellTold, Labelled, UserLabels, AgentLabels
  <1>6. \A w : Heard(a, msgs, w) = {i \in K : /\ msgs[i].who = w /\ msgs[i].text # Blank
                                              /\ msgs[i].shape = "flat"}
    BY DEF Heard, Audible
  <1>7. \A i \in K : ms[i].role \in {"user", "assistant", "model", "agent"} =>
           msgs[i].shape \in {"flat", "null", "parts"} /\ ms[i].role = msgs[i].role
    BY <1>1 DEF JsonRole
  <1>8. \A i \in K : /\ msgs[i].shape \in {"flat", "string"} => ms[i].content = msgs[i].text
                     /\ msgs[i].shape = "null" => ms[i].content = NoText
                     /\ msgs[i].shape = "parts" =>
                         ms[i].content = IF msgs[i].text = Blank THEN Blank ELSE PartsList
                     /\ msgs[i].shape \notin {"flat", "string", "null", "parts"} => ms[i].content = Blank
    BY <1>1 DEF JsonContent
  <1> HIDE DEF ms
  <1>9. \A i \in K :
          /\ ms[i].content \in {Blank, i, NoText, PartsList}
          /\ ~Fits(ms[i].content) => msgs[i].shape \in {"null", "parts"}
    <2>1. SUFFICES ASSUME NEW i \in K
                   PROVE  /\ ms[i].content \in {Blank, i, NoText, PartsList}
                          /\ ~Fits(ms[i].content) => msgs[i].shape \in {"null", "parts"}
      OBVIOUS
    <2>2. msgs[i].text \in {Blank, i} /\ Fits(msgs[i].text) /\ Fits(Blank)
      BY <1>2, <1>3
    <2>3. CASE msgs[i].shape \in {"flat", "string"}
      BY <1>8, <2>2, <2>3
    <2>4. CASE msgs[i].shape \in {"null", "parts"}
      BY <1>8, <2>4
    <2>5. CASE msgs[i].shape \notin {"flat", "string", "null", "parts"}
      BY <1>8, <2>2, <2>5
    <2> QED
      BY <2>3, <2>4, <2>5
  <1>10. ASSUME NEW i \in K, ms[i].role \in {"user", "assistant", "model", "agent"}, Fits(ms[i].content)
         PROVE  /\ msgs[i].shape \in {"flat", "parts"} /\ ms[i].content = msgs[i].text
                /\ ms[i].content # Blank => msgs[i].shape = "flat" /\ ms[i].content = i
                /\ msgs[i].who = "user" <=> ms[i].role = "user"
                /\ msgs[i].who = "assistant" <=> ms[i].role \in {"assistant", "model", "agent"}
    <2>1. msgs[i].shape \in {"flat", "null", "parts"} /\ ms[i].role = msgs[i].role
      BY <1>7, <1>10
    <2>2. /\ msgs[i].who = "user" <=> ms[i].role = "user"
          /\ msgs[i].who = "assistant" <=> ms[i].role \in {"assistant", "model", "agent"}
      BY <1>5, <2>1
    <2>3. CASE msgs[i].shape = "flat"
      BY <1>2, <1>8, <2>2, <2>3
    <2>4. CASE msgs[i].shape = "null"
      BY <1>4, <1>8, <1>10, <2>4
    <2>5. CASE msgs[i].shape = "parts"
      <3>1. ms[i].content = Blank /\ msgs[i].text = Blank
        BY <1>4, <1>8, <1>10, <2>5
      <3> QED
        BY <2>2, <2>5, <3>1
    <2> QED
      BY <2>1, <2>3, <2>4, <2>5
  <1>11. \A i \in K : ms[i].role = "user" /\ Fits(ms[i].content) =>
            msgs[i].who = "user" /\ (ms[i].content = Blank => msgs[i].text = Blank)
    BY <1>10
  <1>12. \A w \in {"user", "assistant"} : \A i \in K :
            ms[i].role \in Spoken(w) /\ Fits(ms[i].content) /\ ms[i].content # Blank =>
              i \in Heard(a, msgs, w) /\ ms[i].content = i
    BY <1>6, <1>10 DEF Spoken
  <1>13. \A w \in {"user", "assistant"} : \A i \in Heard(a, msgs, w) :
            i \in K /\ ms[i].role \in Spoken(w) /\ ms[i].content = i
    <2>1. SUFFICES ASSUME NEW w \in {"user", "assistant"}, NEW i \in Heard(a, msgs, w)
                   PROVE  i \in K /\ ms[i].role \in Spoken(w) /\ ms[i].content = i
      OBVIOUS
    <2>2. i \in K /\ msgs[i].who = w /\ msgs[i].text # Blank /\ msgs[i].shape = "flat"
      BY <1>6
    <2>3. ms[i].role = msgs[i].role
      BY <1>1, <2>2 DEF JsonRole
    <2>4. ms[i].content = i
      BY <1>2, <1>8, <2>2
    <2>5. /\ msgs[i].who = "user" <=> msgs[i].role = "user"
          /\ msgs[i].who = "assistant" <=> msgs[i].role \in {"assistant", "model", "agent"}
      BY <1>5, <2>2
    <2> QED
      BY <2>1, <2>2, <2>3, <2>4, <2>5 DEF Spoken
  <1> QED
    BY <1>1, <1>9, <1>11, <1>12, <1>13 DEF Renders, ms

\* Whatever agent has written it, a parser makes the same of a session.
LEMMA ParseRenders ==
    ASSUME CaptureAssumption, NEW a \in CodingAgents, NEW msgs, WellTold(a, msgs)
    PROVE  Renders(Parse(a, msgs), a, msgs)
  <1>1. a \in {"claude-code", "codex-cli", "opencode"}
    BY DEF CaptureAssumption, CodingAgents
  <1>2. CASE a = "codex-cli"
    BY <1>2, CodexRenders DEF Parse
  <1>3. CASE a = "claude-code"
    <2>1. Parse(a, msgs) = [i \in DOMAIN msgs |-> JsonMessage(msgs[i])]
      BY <1>3 DEF Parse, ClaudeParse
    <2> QED
      BY <1>3, <2>1, JsonRenders
  <1>4. CASE a = "opencode"
    <2> DEFINE K == {j \in DOMAIN msgs : msgs[j].shape # "string"}
    <2>1. Parse(a, msgs) = [i \in K |-> JsonMessage(msgs[i])]
      BY <1>4 DEF Parse, OpenCodeParse
    <2>2. K \in SUBSET DOMAIN msgs /\ \A i \in DOMAIN msgs : msgs[i].shape # "string" => i \in K
      OBVIOUS
    <2> HIDE DEF K
    <2> QED
      BY <1>4, <2>1, <2>2, JsonRenders
  <1> QED
    BY <1>1, <1>2, <1>3, <1>4

-----------------------------------------------------------------------------
(* Capture: what the package is told *)

\* The last word of w that can be heard, if nothing unfit is taken.
LEMMA LastIsHeard ==
    ASSUME NEW a, NEW msgs, NEW ms, Renders(ms, a, msgs), NEW n \in Nat, DOMAIN msgs = 1 .. n,
           NEW w \in {"user", "assistant"}, \A i \in Taken(ms, w) : Fits(ms[i].content)
    PROVE  LET H == Heard(a, msgs, w)
           IN  /\ H = {} => LastOf(ms, w) = Blank
               /\ H # {} => LastOf(ms, w) \in H /\ \A i \in H : i <= LastOf(ms, w)
  <1> DEFINE H == Heard(a, msgs, w)
             N == {i \in DOMAIN ms : ms[i].role \in Spoken(w) /\ ms[i].content # Blank}
             T == Taken(ms, w)
  <1>1. DOMAIN ms \subseteq 1 .. n
    BY DEF Renders
  <1>2. \A i \in DOMAIN ms : ms[i].role \in Spoken(w) /\ Fits(ms[i].content) /\ ms[i].content # Blank =>
           i \in H /\ ms[i].content = i
    BY DEF Renders
  <1>3. \A i \in H : i \in DOMAIN ms /\ ms[i].role \in Spoken(w) /\ ms[i].content = i
    BY DEF Renders
  <1>4. H \subseteq N
    BY <1>1, <1>3 DEF Blank
  <1>5. T = {i \in DOMAIN ms : /\ ms[i].role \in Spoken(w)
                               /\ \A j \in DOMAIN ms : j > i /\ ms[j].role \in Spoken(w)
                                                         => ms[j].content = Blank}
    BY DEF Taken
  <1>6. T \in SUBSET Nat
    BY <1>1, <1>5
  <1>7. LastOf(ms, w) = IF T = {} THEN Blank ELSE ms[Earliest(T)].content
    BY DEF LastOf
  <1> HIDE DEF H, T
  <1>8. CASE N = {}
    <2>1. \A i \in T : ms[i].content = Blank
      BY <1>5, <1>8
    <2>2. T # {} => Earliest(T) \in T
      BY <1>6, EarliestIsFirst
    <2>3. H = {} /\ LastOf(ms, w) = Blank
      BY <1>4, <1>7, <1>8, <2>1, <2>2
    <2> QED
      BY <2>3 DEF H
  <1>9. CASE N # {}
    <2>1. N \in SUBSET (0 .. n)
      BY <1>1
    <2>2. PICK p \in N : \A j \in N : j <= p
      BY <1>9, <2>1, GreatestNat
    <2>3. \A j \in DOMAIN ms : j > p /\ ms[j].role \in Spoken(w) => ms[j].content = Blank
      BY <1>1, <2>1, <2>2
    <2>4. p \in T
      BY <1>5, <2>2, <2>3
    <2>5. Earliest(T) \in T /\ Earliest(T) <= p
      BY <1>6, <2>4, EarliestIsFirst
    <2>6. ~(Earliest(T) < p)
      BY <1>1, <1>5, <2>2, <2>5
    <2>7. Earliest(T) = p
      <3>1. Earliest(T) \in Nat /\ p \in Nat
        BY <1>6, <2>4, <2>5
      <3> QED
        BY <2>5, <2>6, <3>1
    <2>8. p \in H /\ ms[p].content = p
      BY <1>2, <2>2, <2>4 DEF T
    <2>9. LastOf(ms, w) = p
      BY <1>7, <2>4, <2>7, <2>8
    <2> QED
      BY <1>4, <2>2, <2>8, <2>9 DEF H
  <1> QED
    BY <1>8, <1>9

\* The first word of the user, which may be blank.
LEMMA FirstIsHeard ==
    ASSUME CaptureAssumption,
           NEW a, NEW msgs, NEW ms, Renders(ms, a, msgs), NEW n \in Nat, DOMAIN msgs = 1 .. n,
           Fits(FirstUser(ms))
    PROVE  LET H == Heard(a, msgs, "user")
           IN  \/ FirstUser(ms) \in H /\ \A i \in H : FirstUser(ms) <= i
               \/ FirstUser(ms) = Blank /\ (H = {} \/ BlankFirst(a, msgs, "user"))
  <1> DEFINE H == Heard(a, msgs, "user")
             U == ByUser(ms)
  <1>1. U \in SUBSET Nat /\ U = {i \in DOMAIN ms : ms[i].role = "user"}
    BY DEF Renders, ByUser
  <1>2. \A i \in H : i \in U /\ ms[i].content = i /\ i \in 1 .. n
    BY DEF Renders, ByUser, Spoken, Heard
  <1> HIDE DEF H
  <1>3. CASE U = {}
    <2>1. FirstUser(ms) = Blank /\ H = {}
      BY <1>2, <1>3 DEF FirstUser
    <2> QED
      BY <2>1 DEF H
  <1>4. CASE U # {}
    <2> DEFINE p == Earliest(U)
    <2> HIDE DEF U
    <2>1. p \in U /\ \A j \in U : p <= j
      BY <1>1, <1>4, EarliestIsFirst
    <2> HIDE DEF p
    <2>2. FirstUser(ms) = ms[p].content
      BY <1>4 DEF FirstUser, p, U
    <2>3. p \in DOMAIN ms /\ p \in DOMAIN msgs /\ ms[p].role = "user" /\ "user" \in Spoken("user")
      BY <1>1, <2>1 DEF Renders, Spoken
    <2>4. CASE ms[p].content = Blank
      <3>1. msgs[p].who = "user" /\ msgs[p].text = Blank
        BY <2>2, <2>3, <2>4 DEF Renders
      <3>2. \A j \in H : p < j
        <4>1. SUFFICES ASSUME NEW j \in H PROVE p < j
          OBVIOUS
        <4>2. p <= j /\ j \in Nat /\ p \in Nat /\ j # Blank /\ ms[j].content = j
          BY <1>1, <1>2, <2>1 DEF Blank
        <4> QED
          BY <2>4, <4>2
      <3>3. BlankFirst(a, msgs, "user")
        BY <2>3, <3>1, <3>2 DEF BlankFirst, H
      <3> QED
        BY <2>2, <2>4, <3>3
    <2>5. CASE ms[p].content # Blank
      <3>1. p \in H /\ ms[p].content = p
        BY <2>2, <2>3, <2>5 DEF Renders, H
      <3>2. \A i \in H : p <= i
        BY <1>2, <2>1
      <3> QED
        BY <2>2, <3>1, <3>2 DEF H
    <2> QED
      BY <2>4, <2>5
  <1> QED
    BY <1>3, <1>4

\* What has no room in a package has not come from Codex, and is null or a list.
LEMMA UnfitHasACause ==
    ASSUME CaptureAssumption, NEW a, NEW msgs, NEW ms, Renders(ms, a, msgs),
           NEW n \in Nat, DOMAIN msgs = 1 .. n, Unfit(ms)
    PROVE  a # "codex-cli" /\ \E i \in DOMAIN msgs : msgs[i].shape \in {"null", "parts"}
  <1>1. \E i \in DOMAIN ms : ~Fits(ms[i].content)
    <2>1. CASE ~Fits(FirstUser(ms))
      <3>1. Fits(Blank)
        BY NoTexts DEF Blank
      <3>2. ByUser(ms) # {} /\ FirstUser(ms) = ms[Earliest(ByUser(ms))].content
        BY <2>1, <3>1 DEF FirstUser
      <3>3. ByUser(ms) \in SUBSET Nat
        BY DEF ByUser, Renders
      <3>4. Earliest(ByUser(ms)) \in ByUser(ms)
        BY <3>2, <3>3, EarliestIsFirst
      <3> QED
        BY <2>1, <3>2, <3>4 DEF ByUser
    <2>2. CASE \E w \in {"user", "assistant"} : \E i \in Taken(ms, w) : ~Fits(ms[i].content)
      BY <2>2 DEF Taken
    <2> QED
      BY <2>1, <2>2 DEF Unfit
  <1> QED
    BY <1>1 DEF Renders

\* The fields of a package, whoever makes it.
LEMMA PackageFields ==
    ASSUME CaptureAssumption, call.via \in {"adapter", "service"}, call.notes \in {Blank, Notes},
           NEW ms, FirstUser(ms) \in Texts, LastOf(ms, "assistant") \in Texts,
           LastOf(ms, "user") \in Texts
    PROVE  LET f == Package(ms)
           IN  /\ f \in Fields
               /\ call.notes = Notes => Notes \in {f.description, f.step, f.blockers}
               /\ f.description = FirstUser(ms) \/ (FirstUser(ms) = Blank /\ f.description \in {Notes, Default})
               /\ f.step = LastOf(ms, "assistant")
                    \/ (f.step \in {Notes, Default} /\ LastOf(ms, "assistant") = Blank)
               /\ f.results = LastOf(ms, "user")
  <1> DEFINE d == FirstUser(ms)
             s == LastOf(ms, "assistant")
             r == LastOf(ms, "user")
             f == Package(ms)
  <1>1. Notes \notin Nat /\ Default \notin Nat /\ MaxWrites \in Nat
    BY NoTexts DEF CaptureAssumption
  <1>2. Notes # Blank /\ Default # Blank
    BY <1>1 DEF Blank
  <1>3. DOMAIN ms = {} => s = Blank
    BY DEF LastOf, Taken
  <1>4. \A x, y : Or(x, y) = IF x = Blank THEN y ELSE x
    BY DEF Or
  <1> HIDE DEF d, s, r
  <1>5. f = IF call.via = "adapter"
            THEN [description |-> Or(d, Or(call.notes, Default)),
                  step |-> IF DOMAIN ms # {} THEN s ELSE Or(call.notes, Default),
                  results |-> r,
                  blockers |-> IF DOMAIN ms # {} THEN call.notes ELSE Blank]
            ELSE [description |-> Or(d, Default), step |-> s, results |-> r, blockers |-> call.notes]
    BY DEF Package, AdapterFields, ServiceFields, d, s, r
  <1> HIDE DEF f
  <1>6. /\ f = [description |-> f.description, step |-> f.step, results |-> f.results,
                blockers |-> f.blockers]
        /\ (f.description = d /\ d # Blank) \/ (d = Blank /\ f.description \in {Notes, Default})
        /\ f.step = s \/ (f.step \in {Notes, Default} /\ s = Blank)
        /\ f.results = r /\ f.blockers \in {Blank, Notes}
        /\ call.notes = Notes => Notes \in {f.description, f.step, f.blockers}
    <2>1. Or(call.notes, Default) \in {Notes, Default}
      BY <1>4
    <2>2. call.notes = Notes => Or(call.notes, Default) = Notes
      BY <1>2, <1>4
    <2>3. CASE call.via = "adapter"
      BY <1>3, <1>4, <1>5, <2>1, <2>2, <2>3
    <2>4. CASE call.via = "service"
      BY <1>4, <1>5, <2>4
    <2> QED
      BY <2>3, <2>4
  <1>7. d \in Texts /\ s \in Texts /\ r \in Texts
    BY DEF d, s, r
  <1>8. f \in Fields
    <2>1. /\ f.description \in (Texts \ {Blank}) \cup {Notes, Default}
          /\ f.step \in Texts \cup {Notes, Default}
          /\ f.results \in Texts /\ f.blockers \in {Blank, Notes}
      BY <1>2, <1>6, <1>7
    <2> QED
      BY <1>6, <2>1 DEF Fields
  <1> QED
    BY <1>6, <1>8 DEF d, s, r, f

\* With nothing parsed, the words come from elsewhere.
LEMMA EmptyPackage ==
    ASSUME CaptureAssumption, call.via \in {"adapter", "service"}, call.notes \in {Blank, Notes}
    PROVE  LET f == Package(<<>>)
           IN  f \in Fields /\ (call.notes = Notes => Notes \in {f.description, f.step, f.blockers})
  <1>1. DOMAIN <<>> = {}
    OBVIOUS
  <1>2. FirstUser(<<>>) = Blank /\ LastOf(<<>>, "user") = Blank /\ LastOf(<<>>, "assistant") = Blank
    BY <1>1 DEF FirstUser, ByUser, LastOf, Taken
  <1>3. Blank \in Texts
    <2>1. MaxWrites \in Nat
      BY DEF CaptureAssumption
    <2> QED
      BY <2>1 DEF Texts, Blank
  <1> QED
    BY <1>2, <1>3, PackageFields

\* A package made of a session tells what was said in it.
LEMMA PackageTells ==
    ASSUME CaptureAssumption, call.via \in {"adapter", "service"}, call.notes \in {Blank, Notes},
           NEW a \in CodingAgents, NEW msgs, WellTold(a, msgs), Len(msgs) <= MaxWrites,
           ~Unfit(Parse(a, msgs))
    PROVE  LET f == Package(Parse(a, msgs))
           IN  /\ f \in Fields
               /\ call.notes = Notes => Notes \in {f.description, f.step, f.blockers}
               /\ Tells(f, a, msgs)
  <1> DEFINE ms == Parse(a, msgs)
             n == Len(msgs)
             A == Heard(a, msgs, "assistant")
             U == Heard(a, msgs, "user")
             d == FirstUser(ms)
             s == LastOf(ms, "assistant")
             r == LastOf(ms, "user")
             f == Package(ms)
  <1>1. n \in Nat /\ DOMAIN msgs = 1 .. n /\ MaxWrites \in Nat /\ n <= MaxWrites
    BY LenProperties DEF WellTold, CaptureAssumption
  <1>2. Renders(ms, a, msgs)
    BY ParseRenders
  <1> HIDE DEF ms, n
  <1>3. /\ Fits(d) /\ \A i \in Taken(ms, "assistant") : Fits(ms[i].content)
        /\ \A i \in Taken(ms, "user") : Fits(ms[i].content)
    BY DEF Unfit, ms
  <1>4. /\ A = {} => s = Blank
        /\ A # {} => s \in A /\ \A i \in A : i <= s
    BY <1>1, <1>2, <1>3, LastIsHeard
  <1>5. /\ U = {} => r = Blank
        /\ U # {} => r \in U /\ \A i \in U : i <= r
    BY <1>1, <1>2, <1>3, LastIsHeard
  <1>6. \/ d \in U /\ \A i \in U : d <= i
        \/ d = Blank /\ (U = {} \/ BlankFirst(a, msgs, "user"))
    BY <1>1, <1>2, <1>3, FirstIsHeard
  <1>7. A \subseteq Texts \ {Blank} /\ U \subseteq Texts \ {Blank} /\ Blank \in Texts
    BY <1>1 DEF Heard, Texts, Blank
  <1> HIDE DEF A, U, d, s, r
  <1>8. d \in Texts /\ s \in Texts /\ r \in Texts
    BY <1>4, <1>5, <1>6, <1>7
  <1>9. /\ f \in Fields
        /\ call.notes = Notes => Notes \in {f.description, f.step, f.blockers}
        /\ f.description = d \/ (d = Blank /\ f.description \in {Notes, Default})
        /\ f.step = s \/ (f.step \in {Notes, Default} /\ s = Blank)
        /\ f.results = r
    BY <1>8, PackageFields DEF d, s, r
  <1> HIDE DEF f
  <1>10. IF A = {} THEN f.step \notin Texts \ {Blank}
         ELSE \A i \in A : f.step >= i /\ f.step \in A
    <2>1. Notes \notin Texts /\ Default \notin Texts
      BY <1>1, NoTexts DEF Texts
    <2>2. CASE A = {}
      BY <1>4, <1>9, <2>1, <2>2
    <2>3. CASE A # {}
      <3>1. s \in A /\ s # Blank /\ f.step = s
        BY <1>4, <1>7, <1>9, <2>3
      <3>2. ASSUME NEW i \in A PROVE f.step >= i
        <4>1. i \in Nat /\ s \in Nat /\ i <= s
          BY <1>1, <1>4, <1>7, <3>1 DEF Texts
        <4> QED
          BY <3>1, <4>1
      <3> QED
        BY <2>3, <3>1, <3>2
    <2> QED
      BY <2>2, <2>3
  <1>11. IF U = {} THEN f.results = Blank
         ELSE \A i \in U : f.results >= i /\ f.results \in U
    <2>1. CASE U = {}
      BY <1>5, <1>9, <2>1
    <2>2. CASE U # {}
      <3>1. r \in U /\ f.results = r
        BY <1>5, <1>9, <2>2
      <3>2. ASSUME NEW i \in U PROVE f.results >= i
        <4>1. i \in Nat /\ r \in Nat /\ i <= r
          BY <1>1, <1>5, <1>7, <3>1 DEF Texts
        <4> QED
          BY <3>1, <4>1
      <3> QED
        BY <2>2, <3>1, <3>2
    <2> QED
      BY <2>1, <2>2
  <1>12. \/ U # {} /\ f.description \in U /\ \A i \in U : f.description <= i
         \/ f.description \in {Notes, Default} /\ (U = {} \/ BlankFirst(a, msgs, "user"))
    <2>1. f.description # Blank
      BY <1>1, <1>9, NoTexts DEF Fields, Texts, Blank
    <2>2. CASE f.description = d
      <3>1. d \in U /\ \A i \in U : d <= i
        BY <1>6, <2>1, <2>2
      <3> QED
        BY <2>2, <3>1
    <2>3. CASE d = Blank /\ f.description \in {Notes, Default}
      <3>1. d \notin U
        BY <1>7, <2>3
      <3> QED
        BY <1>6, <2>3, <3>1
    <2> QED
      BY <1>9, <2>2, <2>3
  <1>13. Tells(f, a, msgs)
    BY <1>10, <1>11, <1>12 DEF Tells, A, U
  <1> QED
    BY <1>9, <1>13 DEF f, ms

-----------------------------------------------------------------------------
(* Capture: the invariant *)

SessionStates == [msgs : Seq(Messages), tail : {"none", "cut", "split"}, next : SUBSET Sayings]
Calls == [at : {"none", "begun", "found"}, agent : CodingAgents \cup {""},
          session : Sessions \cup {""}, via : {"", "adapter", "service"},
          notes : {Blank, Notes}, newest : Nat, seen : Nat]

\* A session is no longer than the writes that it took.
SessionsInv ==
    /\ session \in [Sessions -> SessionStates] /\ clock \in 0 .. MaxWrites
    /\ written \in [Sessions -> 0 .. clock]
    /\ \A s \in Sessions :
         /\ WellTold(AgentOf[s], session[s].msgs) /\ session[s].next \subseteq Utterances[AgentOf[s]]
         /\ Len(session[s].msgs) <= clock
         /\ session[s].tail # "none" => Len(session[s].msgs) < clock

\* What was the newest when the call began belongs to the agent, and is not newer than
\* what has been found.
CallInv ==
    /\ call \in Calls
    /\ call.at # "none" => call.agent \in CodingAgents /\ call.via \in {"adapter", "service"}
    /\ call.at = "begun" =>
         /\ call.session = ""
         /\ call.newest = 0 \/ \E s \in Sessions : AgentOf[s] = call.agent /\ There(s) /\ call.newest <= written[s]
    /\ call.at = "found" =>
         call.session \in Sessions /\ AgentOf[call.session] = call.agent /\ call.newest <= call.seen

\* A result stands by what its session held, which is still there.
ResultInv ==
    /\ result.kind \in {"none", "error", "package"}
    /\ result.kind = "package" => result.fields \in Fields
    /\ result.kind = "error" \/ Captured =>
         /\ result.call.session \in Sessions
         /\ result.upto \in 0 .. Len(session[result.call.session].msgs)
    /\ PackageTellsTheTalk /\ CapturesAreFresh /\ FailuresHaveACause

CaptureInv == /\ SessionsInv /\ CallInv /\ ResultInv
              /\ captures \in 0 .. MaxCaptures /\ (call.at # "none" => captures < MaxCaptures)

\* Before anything is written, nothing is told.
LEMMA CaptureInitInv == CaptureAssumption /\ CaptureInit => CaptureInv
  <1> SUFFICES ASSUME CaptureAssumption, CaptureInit PROVE CaptureInv
    OBVIOUS
  <1>1. MaxWrites \in Nat /\ MaxCaptures \in Nat
    BY DEF CaptureAssumption
  <1>2. <<>> \in Seq(Messages) /\ Len(<<>>) = 0 /\ DOMAIN <<>> = {}
    BY EmptySeq
  <1>3. SessionsInv
    <2>1. [msgs |-> <<>>, tail |-> "none", next |-> {}] \in SessionStates
      BY <1>2 DEF SessionStates
    <2>2. \A s \in Sessions : session[s] = [msgs |-> <<>>, tail |-> "none", next |-> {}]
      BY DEF CaptureInit
    <2>3. \A a : WellTold(a, <<>>)
      BY <1>2 DEF WellTold
    <2> QED
      BY <1>1, <1>2, <2>1, <2>2, <2>3 DEF SessionsInv, CaptureInit
  <1>4. CallInv
    <2>1. call = NoCall /\ NoCall.at = "none"
      BY DEF CaptureInit, NoCall
    <2>2. NoCall \in Calls
      BY DEF NoCall, Calls, Blank
    <2> QED
      BY <2>1, <2>2 DEF CallInv
  <1>5. ResultInv
    <2>1. result.kind = "none"
      BY DEF CaptureInit, NoResult
    <2> QED
      BY <2>1 DEF ResultInv, Captured, PackageTellsTheTalk, CapturesAreFresh, FailuresHaveACause
  <1>6. call.at = "none"
    BY DEF CaptureInit, NoCall
  <1>7. captures \in 0 .. MaxCaptures
    BY <1>1 DEF CaptureInit
  <1> QED
    BY <1>3, <1>4, <1>5, <1>6, <1>7 DEF CaptureInv

\* What has been told is not changed by what is told later.
LEMMA AppendKeepsPrefix ==
    ASSUME NEW S, NEW q \in Seq(S), NEW x \in S, NEW n \in 0 .. Len(q)
    PROVE  SubSeq(Append(q, x), 1, n) = SubSeq(q, 1, n)
  <1>1. Append(q, x) \in Seq(S) /\ Len(Append(q, x)) = Len(q) + 1 /\ Len(q) \in Nat
    BY AppendProperties, LenProperties
  <1>2. \A i \in 1 .. Len(q) : Append(q, x)[i] = q[i]
    BY AppendProperties
  <1> QED
    BY <1>1, <1>2

\* What has come of a call stays as it was, while sessions grow.
LEMMA ResultStays ==
    ASSUME SessionsInv, ResultInv, UNCHANGED result,
           \A s \in Sessions : \/ session'[s].msgs = session[s].msgs
                               \/ \E m \in Messages : session'[s].msgs = Append(session[s].msgs, m)
    PROVE  ResultInv'
  <1>1. CASE result.kind = "error" \/ Captured
    <2>1. PICK t \in Sessions : t = result.call.session /\ result.upto \in 0 .. Len(session[t].msgs)
      BY <1>1 DEF ResultInv
    <2>2. session[t].msgs \in Seq(Messages)
      BY <2>1 DEF SessionsInv, WellTold
    <2>3. /\ SubSeq(session'[t].msgs, 1, result.upto) = SubSeq(session[t].msgs, 1, result.upto)
          /\ Len(session[t].msgs) <= Len(session'[t].msgs) /\ Len(session'[t].msgs) \in Nat
      <3>1. CASE session'[t].msgs = session[t].msgs
        BY <2>2, <3>1, LenProperties
      <3>2. CASE \E m \in Messages : session'[t].msgs = Append(session[t].msgs, m)
        <4>1. PICK m \in Messages : session'[t].msgs = Append(session[t].msgs, m)
          BY <3>2
        <4>2. /\ Len(Append(session[t].msgs, m)) = Len(session[t].msgs) + 1
              /\ Len(session[t].msgs) \in Nat
          BY <2>2, AppendProperties, LenProperties
        <4>3. SubSeq(Append(session[t].msgs, m), 1, result.upto) = SubSeq(session[t].msgs, 1, result.upto)
          BY <2>1, <2>2, AppendKeepsPrefix
        <4>4. SubSeq(session'[t].msgs, 1, result.upto) = SubSeq(session[t].msgs, 1, result.upto)
          BY <4>1, <4>3, Zenon
        <4>5. Len(session'[t].msgs) = Len(session[t].msgs) + 1
          BY <4>1, <4>2, Zenon
        <4>6. \A x \in Nat : x <= x + 1 /\ x + 1 \in Nat
          OBVIOUS
        <4> QED
          BY <4>2, <4>4, <4>5, <4>6, Zenon
      <3> QED
        BY <2>1, <3>1, <3>2
    <2>4. ToldTo(result)' = ToldTo(result)
      BY <2>1, <2>3 DEF ToldTo
    <2>5. result'.call.session \in Sessions /\ result'.upto \in 0 .. Len(session'[result'.call.session].msgs)
      <3>1. Len(session[t].msgs) \in Nat
        BY <2>2, LenProperties
      <3>2. result.upto \in 0 .. Len(session'[t].msgs)
        BY <2>1, <2>3, <3>1
      <3> QED
        BY <2>1, <3>2
    <2>6. PackageTellsTheTalk'
      BY <2>4 DEF ResultInv, PackageTellsTheTalk, Captured
    <2>7. CapturesAreFresh' /\ FailuresHaveACause'
      BY <2>4 DEF ResultInv, CapturesAreFresh, FailuresHaveACause, Captured
    <2> QED
      BY <2>5, <2>6, <2>7 DEF ResultInv, Captured
  <1>2. CASE ~(result.kind = "error" \/ Captured)
    BY <1>2 DEF ResultInv, Captured, PackageTellsTheTalk, CapturesAreFresh, FailuresHaveACause
  <1> QED
    BY <1>1, <1>2

\* What a call goes by stays true, while files become newer.
LEMMA CallStays ==
    ASSUME CallInv, UNCHANGED call, SessionsInv, SessionsInv',
           \A s \in Sessions : written[s] <= written'[s]
    PROVE  CallInv'
  <1>1. call \in Calls
    BY DEF CallInv
  <1>2. \A s \in Sessions : There(s) => There(s)' /\ (call.newest <= written[s] => call.newest <= written'[s])
    <2>1. call.newest \in Nat
      BY <1>1 DEF Calls
    <2>2. clock \in Nat /\ clock' \in Nat
      BY DEF SessionsInv
    <2>3. \A s \in Sessions : written[s] \in Nat /\ written'[s] \in Nat
      BY <2>2 DEF SessionsInv
    <2> QED
      BY <2>1, <2>3 DEF There
  <1> QED
    BY <1>2 DEF CallInv

-----------------------------------------------------------------------------
(* Capture: the steps *)

LEMMA StartWriteStep ==
    ASSUME CaptureAssumption, CaptureInv, NEW s \in Sessions, NEW u \in Utterances[AgentOf[s]],
           StartWrite(s, u)
    PROVE  CaptureInv'
  <1>1. MaxWrites \in Nat /\ u \in Sayings
    BY DEF CaptureAssumption, CodingAgents
  <1>2. /\ session \in [Sessions -> SessionStates] /\ clock \in Nat /\ clock < MaxWrites
        /\ session' = [session EXCEPT ![s].tail = "cut", ![s].next = {u}]
        /\ clock' = clock + 1 /\ written' = [written EXCEPT ![s] = clock + 1]
        /\ written \in [Sessions -> 0 .. clock]
    BY DEF CaptureInv, SessionsInv, StartWrite
  <1>3. /\ session'[s] \in SessionStates /\ session'[s].msgs = session[s].msgs
        /\ session'[s].tail = "cut" /\ session'[s].next = {u}
    BY <1>1, <1>2 DEF SessionStates
  <1>4. \A t \in Sessions \ {s} : session'[t] = session[t]
    BY <1>2
  <1>5. written' \in [Sessions -> 0 .. clock'] /\ \A t \in Sessions : written[t] <= written'[t]
    <2>1. \A t \in Sessions : written[t] \in 0 .. clock
      BY <1>2
    <2> QED
      BY <1>2, <2>1
  <1>6. \A t \in Sessions : Len(session[t].msgs) \in Nat /\ Len(session[t].msgs) <= clock
    BY <1>2, LenProperties DEF CaptureInv, SessionsInv, SessionStates
  <1>7. SessionsInv'
    <2>1. session' \in [Sessions -> SessionStates]
      BY <1>2, <1>3
    <2>2. clock' \in 0 .. MaxWrites
      BY <1>1, <1>2
    <2>3. ASSUME NEW t \in Sessions
          PROVE  /\ WellTold(AgentOf[t], session'[t].msgs)
                 /\ session'[t].next \subseteq Utterances[AgentOf[t]]
                 /\ Len(session'[t].msgs) <= clock'
                 /\ session'[t].tail # "none" => Len(session'[t].msgs) < clock'
      <3>1. session'[t].msgs = session[t].msgs
        BY <1>3, <1>4
      <3>2. Len(session'[t].msgs) < clock'
        BY <1>2, <1>6, <3>1
      <3>3. WellTold(AgentOf[t], session'[t].msgs) /\ session'[t].next \subseteq Utterances[AgentOf[t]]
        BY <1>3, <1>4, <3>1 DEF CaptureInv, SessionsInv
      <3> QED
        BY <1>2, <1>6, <3>1, <3>2, <3>3
    <2> QED
      BY <1>5, <2>1, <2>2, <2>3 DEF SessionsInv
  <1>8. UNCHANGED <<call, captures, result>>
    BY DEF StartWrite
  <1>9. CallInv'
    BY <1>5, <1>7, <1>8, CallStays DEF CaptureInv
  <1>10. ResultInv'
    BY <1>3, <1>4, <1>8, ResultStays DEF CaptureInv
  <1> QED
    BY <1>7, <1>8, <1>9, <1>10 DEF CaptureInv

LEMMA WriteOnStep ==
    ASSUME CaptureInv, NEW s \in Sessions, WriteOn(s)
    PROVE  CaptureInv'
  <1>1. /\ session \in [Sessions -> SessionStates] /\ clock \in Nat
        /\ session[s].tail = "cut"
        /\ session' = [session EXCEPT ![s].tail = "split"]
        /\ written \in [Sessions -> 0 .. clock]
        /\ UNCHANGED <<written, clock, call, captures, result>>
    BY DEF CaptureInv, SessionsInv, WriteOn
  <1>2. /\ session'[s] \in SessionStates /\ session'[s].msgs = session[s].msgs
        /\ session'[s].tail = "split" /\ session'[s].next = session[s].next
    BY <1>1 DEF SessionStates
  <1>3. \A t \in Sessions \ {s} : session'[t] = session[t]
    BY <1>1
  <1>4. SessionsInv'
    <2>1. session' \in [Sessions -> SessionStates]
      BY <1>1, <1>2
    <2> QED
      BY <1>1, <1>2, <1>3, <2>1 DEF CaptureInv, SessionsInv
  <1>5. \A t \in Sessions : written[t] <= written'[t]
    BY <1>1
  <1>6. CallInv'
    BY <1>1, <1>4, <1>5, CallStays DEF CaptureInv
  <1>7. ResultInv'
    BY <1>1, <1>2, <1>3, ResultStays DEF CaptureInv
  <1> QED
    BY <1>1, <1>4, <1>6, <1>7 DEF CaptureInv

\* A message is complete: the session has grown by it, and its next text is its new length.
LEMMA EndWriteStep ==
    ASSUME CaptureAssumption, CaptureInv, NEW s \in Sessions, EndWrite(s)
    PROVE  CaptureInv'
  <1>1. /\ session \in [Sessions -> SessionStates] /\ clock \in Nat
        /\ session[s].tail # "none" /\ session[s].next \subseteq Utterances[AgentOf[s]]
        /\ written \in [Sessions -> 0 .. clock]
        /\ WellTold(AgentOf[s], session[s].msgs)
        /\ Len(session[s].msgs) < clock
        /\ UNCHANGED <<written, clock, call, captures, result>>
    BY DEF CaptureInv, SessionsInv, EndWrite
  <1> DEFINE q == session[s].msgs
  <1>2. PICK u \in session[s].next :
           session' = [session EXCEPT ![s] = [msgs |-> Append(q, Message(u, Len(q) + 1)),
                                              tail |-> "none", next |-> {}]]
    BY <1>1 DEF EndWrite
  <1>3. q \in Seq(Messages) /\ Len(q) \in Nat
    BY <1>1, LenProperties DEF WellTold
  <1> DEFINE m == Message(u, Len(q) + 1)
  <1>4. m \in Messages /\ m.text \in {Blank, Len(q) + 1} /\ Labelled(AgentOf[s], m)
    <2>1. AgentOf[s] \in CodingAgents /\ u \in Utterances[AgentOf[s]]
      BY <1>1, <1>2 DEF CodingAgents
    <2>2. Len(q) + 1 \in Nat
      BY <1>3
    <2> HIDE DEF q
    <2> QED
      BY <2>1, <2>2, MessageIsTold
  <1> HIDE DEF m
  <1>5. /\ session'[s] = [msgs |-> Append(q, m), tail |-> "none", next |-> {}]
        /\ session'[s].msgs = Append(q, m) /\ session'[s].tail = "none" /\ session'[s].next = {}
        /\ \A t \in Sessions \ {s} : session'[t] = session[t]
        /\ DOMAIN session' = Sessions
    BY <1>1, <1>2 DEF m
  <1>6. /\ Append(q, m) \in Seq(Messages) /\ Len(Append(q, m)) = Len(q) + 1
        /\ \A i \in 1 .. Len(q) : Append(q, m)[i] = q[i]
        /\ Append(q, m)[Len(q) + 1] = m
    BY <1>3, <1>4, AppendProperties
  <1>7. WellTold(AgentOf[s], Append(q, m))
    <2>1. DOMAIN Append(q, m) = 1 .. Len(q) + 1 /\ DOMAIN q = 1 .. Len(q)
      BY <1>3, <1>6, LenProperties
    <2>2. ASSUME NEW i \in DOMAIN Append(q, m)
          PROVE  Append(q, m)[i].text \in {Blank, i} /\ Labelled(AgentOf[s], Append(q, m)[i])
      <3>1. CASE i = Len(q) + 1
        BY <1>4, <1>6, <3>1, Zenon
      <3>2. CASE i # Len(q) + 1
        <4>1. i \in 1 .. Len(q)
          BY <1>3, <2>1, <3>2
        <4>2. Append(q, m)[i] = q[i] /\ i \in DOMAIN q
          BY <1>6, <2>1, <4>1
        <4>3. q[i].text \in {Blank, i} /\ Labelled(AgentOf[s], q[i])
          BY <1>1, <4>2 DEF WellTold
        <4> QED
          BY <4>2, <4>3, Zenon
      <3> QED
        BY <3>1, <3>2
    <2> QED
      BY <1>6, <2>2, Zenon DEF WellTold
  <1>8. SessionsInv'
    <2>1. session'[s] \in SessionStates
      BY <1>5, <1>6 DEF SessionStates
    <2>2. session' \in [Sessions -> SessionStates]
      BY <1>1, <1>2, <2>1, <1>5 DEF m
    <2>3. /\ WellTold(AgentOf[s], session'[s].msgs) /\ session'[s].next \subseteq Utterances[AgentOf[s]]
          /\ session'[s].tail = "none"
      <3>1. \A S : {} \subseteq S
        OBVIOUS
      <3> QED
        BY <1>5, <1>7, <3>1, Zenon
    <2>4. Len(session'[s].msgs) <= clock
      <3>1. Len(session'[s].msgs) = Len(q) + 1
        BY <1>5, <1>6, Zenon
      <3> QED
        BY <1>1, <1>3, <3>1
    <2> HIDE DEF q
    <2> QED
      BY <1>1, <1>5, <2>2, <2>3, <2>4 DEF CaptureInv, SessionsInv
  <1>9. \A t \in Sessions : written[t] <= written'[t]
    BY <1>1
  <1>10. CallInv'
    BY <1>1, <1>8, <1>9, CallStays DEF CaptureInv
  <1>11. ResultInv'
    <2>1. \A t \in Sessions : \/ session'[t].msgs = session[t].msgs
                              \/ \E x \in Messages : session'[t].msgs = Append(session[t].msgs, x)
      BY <1>4, <1>5, Zenon
    <2> QED
      BY <1>1, <2>1, ResultStays DEF CaptureInv
  <1> QED
    BY <1>1, <1>8, <1>10, <1>11 DEF CaptureInv

\* The sessions that there are of an agent.
LEMMA FoundSessions ==
    ASSUME SessionsInv, NEW S \in SUBSET {s \in Sessions : There(s)}, S # {}
    PROVE  /\ Newest(S) \in S /\ \A t \in S : written[t] <= written[Newest(S)]
           /\ written[Newest(S)] \in Nat /\ Newest(S) \in Sessions
  <1>1. clock \in Nat /\ written \in [Sessions -> 0 .. clock]
    BY DEF SessionsInv
  <1>2. Newest(S) \in S /\ \A t \in S : written[t] <= written[Newest(S)]
    BY <1>1, NewestIsLast
  <1> QED
    BY <1>1, <1>2

\* A call begins with the newest file it has seen, which stays in its place.
LEMMA StartsCall ==
    ASSUME CaptureInv, UNCHANGED <<session, written, clock, captures, result>>,
           captures < MaxCaptures,
           NEW agent \in CodingAgents, NEW via \in {"adapter", "service"}, NEW notes \in {Blank, Notes},
           NEW newest \in Nat,
           newest = 0 \/ \E s \in Sessions : AgentOf[s] = agent /\ There(s) /\ newest <= written[s],
           call' = [NoCall EXCEPT !.at = "begun", !.agent = agent, !.via = via, !.notes = notes,
                                  !.newest = newest]
    PROVE  CaptureInv'
  <1>1. SessionsInv' /\ ResultInv' /\ captures' \in 0 .. MaxCaptures /\ captures' < MaxCaptures
    <2>1. SessionsInv'
      BY DEF CaptureInv, SessionsInv
    <2>2. ResultInv'
      BY ResultStays DEF CaptureInv
    <2> QED
      BY <2>1, <2>2 DEF CaptureInv
  <1>2. /\ call' \in Calls /\ call'.at = "begun" /\ call'.agent = agent /\ call'.via = via
        /\ call'.newest = newest /\ call'.session = ""
    BY DEF NoCall, Calls
  <1>3. \A s : There(s)' <=> There(s)
    BY DEF There
  <1>4. CallInv'
    BY <1>2, <1>3 DEF CallInv
  <1> QED
    BY <1>1, <1>4 DEF CaptureInv

LEMMA BeginStep ==
    ASSUME CaptureInv, NEW agent \in CodingAgents, NEW via \in {"adapter", "service"},
           NEW notes \in {Blank, Notes}, Begin(agent, via, notes)
    PROVE  CaptureInv'
  <1> DEFINE S == {s \in Sessions : AgentOf[s] = agent /\ There(s)}
             newest == IF S = {} THEN 0 ELSE written[Newest(S)]
  <1>1. /\ captures < MaxCaptures
        /\ call' = [NoCall EXCEPT !.at = "begun", !.agent = agent, !.via = via, !.notes = notes,
                                  !.newest = newest]
        /\ UNCHANGED <<session, written, clock, captures, result>>
    BY DEF Begin
  <1>2. S # {} => Newest(S) \in S /\ written[Newest(S)] \in Nat
    BY FoundSessions DEF CaptureInv
  <1> HIDE DEF newest
  <1>3. newest = 0 \/ \E s \in Sessions : AgentOf[s] = agent /\ There(s) /\ newest <= written[s]
    <2>1. CASE S = {}
      BY <2>1 DEF newest
    <2>2. CASE S # {}
      <3>1. /\ Newest(S) \in Sessions /\ AgentOf[Newest(S)] = agent /\ There(Newest(S))
            /\ newest = written[Newest(S)] /\ newest \in Nat
        BY <1>2, <2>2 DEF newest
      <3>2. newest <= written[Newest(S)]
        BY <3>1
      <3> QED
        BY <3>1, <3>2
    <2> QED
      BY <2>1, <2>2
  <1>4. newest \in Nat
    BY <1>2 DEF newest
  <1> QED
    BY <1>1, <1>3, <1>4, StartsCall

LEMMA DetectStep ==
    ASSUME CaptureInv, NEW notes \in {Blank, Notes}, Detect(notes)
    PROVE  CaptureInv'
  <1> DEFINE S == {s \in Sessions : There(s)}
  <1>1. PICK n : n = Newest(S)
    OBVIOUS
  <1> DEFINE via == IF AgentOf[n] = "claude-code" THEN "adapter" ELSE "service"
  <1>2. /\ captures < MaxCaptures /\ S # {}
        /\ call' = [NoCall EXCEPT !.at = "begun", !.agent = AgentOf[n], !.notes = notes,
                                  !.newest = written[n], !.via = via]
        /\ UNCHANGED <<session, written, clock, captures, result>>
    BY <1>1 DEF Detect
  <1>3. n \in Sessions /\ There(n) /\ written[n] \in Nat
    BY <1>1, <1>2, FoundSessions DEF CaptureInv
  <1>4. via \in {"adapter", "service"} /\ AgentOf[n] \in CodingAgents
    BY <1>3 DEF CodingAgents
  <1> HIDE DEF via
  <1>5. call' = [NoCall EXCEPT !.at = "begun", !.agent = AgentOf[n], !.via = via, !.notes = notes,
                               !.newest = written[n]]
    BY <1>2 DEF NoCall
  <1>6. written[n] = 0 \/ \E s \in Sessions : AgentOf[s] = AgentOf[n] /\ There(s) /\ written[n] <= written[s]
    BY <1>3
  <1> QED
    BY <1>2, <1>3, <1>4, <1>5, <1>6, StartsCall

\* A call ends, and what it leads to stands for itself.
LEMMA ReturnsStep ==
    ASSUME CaptureAssumption, CaptureInv, call.at # "none", NEW r, Returns(r), ResultInv'
    PROVE  CaptureInv'
  <1>1. /\ UNCHANGED <<session, written, clock>> /\ call' = NoCall /\ captures' = captures + 1
    BY DEF Returns
  <1>2. SessionsInv'
    BY <1>1 DEF CaptureInv, SessionsInv
  <1>3. CallInv' /\ call'.at = "none"
    BY <1>1 DEF CallInv, NoCall, Calls, Blank
  <1>4. captures' \in 0 .. MaxCaptures
    <2>1. MaxCaptures \in Nat
      BY DEF CaptureAssumption
    <2> QED
      BY <1>1, <2>1 DEF CaptureInv
  <1> QED
    BY <1>2, <1>3, <1>4 DEF CaptureInv

\* The session found is at least as new as the newest seen before; with none, there is nothing to tell.
LEMMA FindStep ==
    ASSUME CaptureAssumption, CaptureInv, Find
    PROVE  CaptureInv'
  <1> DEFINE S == {s \in Sessions : AgentOf[s] = call.agent /\ There(s)}
  <1>1. /\ call \in Calls /\ call.at = "begun" /\ call.session = ""
        /\ call.agent \in CodingAgents /\ call.via \in {"adapter", "service"}
        /\ call.newest = 0 \/ \E s \in S : call.newest <= written[s]
    BY DEF CaptureInv, CallInv, Find
  <1>2. LatestSession(call.agent) = IF S = {} THEN {} ELSE {Newest(S)}
    BY DEF LatestSession
  <1> HIDE DEF S
  <1>3. CASE S # {}
    <2>1. S \in SUBSET {s \in Sessions : There(s)} /\ \A s \in S : AgentOf[s] = call.agent
      BY DEF S
    <2>2. PICK n \in S : n = Newest(S) /\ written[n] \in Nat /\ n \in Sessions
                         /\ \A t \in S : written[t] <= written[n]
      BY <1>3, <2>1, FoundSessions DEF CaptureInv
    <2>3. /\ call' = [call EXCEPT !.at = "found", !.session = n, !.seen = written[n]]
          /\ UNCHANGED <<session, written, clock, captures, result>>
      BY <1>2, <1>3, <2>2 DEF Find
    <2>4. /\ call' \in Calls /\ call'.at = "found" /\ call'.session = n /\ call'.seen = written[n]
          /\ call'.agent = call.agent /\ call'.via = call.via /\ call'.newest = call.newest
      BY <1>1, <2>2, <2>3 DEF Calls
    <2>5. call.newest <= written[n]
      <3>1. call.newest \in Nat /\ \A s \in S : written[s] \in Nat
        <4>1. clock \in Nat /\ written \in [Sessions -> 0 .. clock]
          BY DEF CaptureInv, SessionsInv
        <4>2. call.newest \in Nat
          BY <1>1 DEF Calls
        <4>3. \A s \in S : s \in Sessions
          BY <2>1
        <4>4. \A s \in S : written[s] \in 0 .. clock
          BY <4>1, <4>3
        <4> QED
          BY <4>1, <4>2, <4>4
      <3>2. CASE call.newest = 0
        BY <2>2, <3>2
      <3>3. CASE \E s \in S : call.newest <= written[s]
        <4>1. PICK s \in S : call.newest <= written[s]
          BY <3>3
        <4>2. written[s] <= written[n] /\ written[s] \in Nat /\ written[n] \in Nat
          BY <2>2, <3>1
        <4> QED
          BY <3>1, <4>1, <4>2
      <3> QED
        BY <1>1, <3>2, <3>3
    <2>6. CallInv'
      BY <1>1, <2>1, <2>2, <2>4, <2>5 DEF CallInv
    <2>7. SessionsInv'
      BY <2>3 DEF CaptureInv, SessionsInv
    <2>8. ResultInv'
      BY <2>3, ResultStays DEF CaptureInv
    <2>9. captures' \in 0 .. MaxCaptures /\ captures' < MaxCaptures
      BY <1>1, <2>3 DEF CaptureInv
    <2> QED
      BY <2>6, <2>7, <2>8, <2>9 DEF CaptureInv
  <1>4. CASE S = {}
    <2> DEFINE r == Outcome("package", 0, "none", Package(<<>>))
    <2>1. Returns(r)
      BY <1>2, <1>4 DEF Find
    <2>2. /\ result'.kind = "package" /\ result'.call = call /\ result'.fields = Package(<<>>)
      BY <2>1 DEF Returns, Outcome
    <2>3. call.notes \in {Blank, Notes}
      BY <1>1 DEF Calls
    <2>4. /\ Package(<<>>) \in Fields
          /\ call.notes = Notes => Notes \in {Package(<<>>).description, Package(<<>>).step,
                                            Package(<<>>).blockers}
      BY <1>1, <2>3, EmptyPackage
    <2>5. ~Captured'
      BY <1>1, <2>2 DEF Captured
    <2>6. ResultInv'
      BY <2>2, <2>4, <2>5 DEF ResultInv, PackageTellsTheTalk, CapturesAreFresh, FailuresHaveACause
    <2> HIDE DEF r
    <2> QED
      BY <1>1, <2>1, <2>6, ReturnsStep
  <1> QED
    BY <1>3, <1>4

\* What is read then and there is what was told up to there.
LEMMA ReadStep ==
    ASSUME CaptureAssumption, CaptureInv, Read
    PROVE  CaptureInv'
  <1>1. PICK s \in Sessions : s = call.session
    BY DEF CaptureInv, CallInv, Read
  <1>2. PICK msgs : msgs = session[s].msgs
    OBVIOUS
  <1> DEFINE a == call.agent
             ms == Parse(a, msgs)
             raised == Unreadable(s) \/ Unfit(ms)
             f == IF raised THEN NoFields ELSE Package(ms)
             r == Outcome(IF raised THEN "error" ELSE "package", Len(msgs), session[s].tail, f)
  <1>3. call.at = "found" /\ Returns(r)
    BY <1>1, <1>2 DEF Read
  <1>4. /\ call \in Calls /\ AgentOf[s] = a /\ a \in CodingAgents
        /\ call.newest <= call.seen /\ call.via \in {"adapter", "service"}
    BY <1>1, <1>3 DEF CaptureInv, CallInv
  <1>5. call.notes \in {Blank, Notes} /\ s # ""
    BY <1>1, <1>4 DEF Calls, CaptureAssumption
  <1>6. /\ WellTold(a, msgs) /\ msgs \in Seq(Messages) /\ Len(msgs) \in Nat /\ Len(msgs) <= clock
        /\ clock \in 0 .. MaxWrites /\ MaxWrites \in Nat /\ session[s].tail \in {"none", "cut", "split"}
    <2>1. /\ WellTold(a, msgs) /\ Len(msgs) <= clock /\ clock \in 0 .. MaxWrites
          /\ session[s] \in SessionStates
      BY <1>1, <1>2, <1>4 DEF CaptureInv, SessionsInv
    <2>2. MaxWrites \in Nat /\ msgs \in Seq(Messages)
      BY <2>1 DEF CaptureAssumption, WellTold
    <2>3. Len(msgs) \in Nat
      BY <2>2, LenProperties
    <2>4. session[s].tail \in {"none", "cut", "split"}
      BY <2>1 DEF SessionStates
    <2> QED
      BY <2>1, <2>2, <2>3, <2>4
  <1> HIDE DEF ms, raised, f, r
  <1>7. /\ result'.kind = (IF raised THEN "error" ELSE "package") /\ result'.call = call
        /\ result'.upto = Len(msgs) /\ result'.tail = session[s].tail /\ result'.fields = f
        /\ UNCHANGED session
    BY <1>3 DEF r, Outcome, Returns
  <1>8. ToldTo(result)' = msgs
    <2>1. SubSeq(msgs, 1, Len(msgs)) = msgs
      BY <1>6
    <2> QED
      BY <1>1, <1>2, <1>7, <2>1 DEF ToldTo
  <1>9. result'.upto \in 0 .. Len(session'[result'.call.session].msgs)
    <2>1. session'[result'.call.session].msgs = msgs
      BY <1>1, <1>2, <1>7
    <2> QED
      BY <1>6, <1>7, <2>1
  <1>10. CASE ~raised
    <2>1. Len(msgs) <= MaxWrites /\ ~Unfit(Parse(a, msgs))
      BY <1>6, <1>10 DEF raised, ms
    <2>2. /\ f \in Fields
          /\ call.notes = Notes => Notes \in {f.description, f.step, f.blockers}
          /\ Tells(f, a, msgs)
      BY <1>4, <1>5, <1>6, <1>10, <2>1, PackageTells DEF f, ms
    <2>3. PackageTellsTheTalk'
      BY <1>7, <1>8, <2>2 DEF PackageTellsTheTalk
    <2>4. CapturesAreFresh' /\ FailuresHaveACause'
      BY <1>4, <1>7, <1>10 DEF CapturesAreFresh, FailuresHaveACause, Calls
    <2>5. ResultInv'
      BY <1>1, <1>7, <1>9, <1>10, <2>2, <2>3, <2>4 DEF ResultInv
    <2> QED
      BY <1>3, <2>5, ReturnsStep
  <1>11. CASE raised
    <2>1. \/ session[s].tail = "split"
          \/ /\ a # "codex-cli"
             /\ session[s].tail = "cut" \/ \E i \in DOMAIN msgs : msgs[i].shape \in {"null", "parts"}
      <3>1. CASE Unreadable(s)
        BY <1>4, <3>1 DEF Unreadable
      <3>2. CASE Unfit(ms)
        <4>1. Renders(ms, a, msgs)
          BY <1>4, <1>6, ParseRenders DEF ms
        <4>2. DOMAIN msgs = 1 .. Len(msgs)
          BY <1>6, LenProperties
        <4> QED
          BY <1>6, <3>2, <4>1, <4>2, UnfitHasACause
      <3> QED
        BY <1>11, <3>1, <3>2 DEF raised
    <2>2. result'.kind = "error"
      BY <1>7, <1>11
    <2>3. FailuresHaveACause'
      BY <1>7, <1>8, <2>1, Zenon DEF FailuresHaveACause
    <2>4. PackageTellsTheTalk' /\ CapturesAreFresh'
      BY <2>2 DEF PackageTellsTheTalk, CapturesAreFresh, Captured
    <2>5. ResultInv'
      BY <1>1, <1>7, <1>9, <2>2, <2>3, <2>4 DEF ResultInv
    <2> QED
      BY <1>3, <2>5, ReturnsStep
  <1> QED
    BY <1>10, <1>11

\* Every step of an agent or of a call keeps the invariant.
LEMMA CaptureStep == CaptureAssumption /\ CaptureInv /\ [CaptureNext]_captureVars => CaptureInv'
  <1> SUFFICES ASSUME CaptureAssumption, CaptureInv, [CaptureNext]_captureVars PROVE CaptureInv'
    OBVIOUS
  <1>1. CASE \E s \in Sessions : \/ \E u \in Utterances[AgentOf[s]] : StartWrite(s, u)
                                 \/ WriteOn(s) \/ EndWrite(s)
    BY <1>1, StartWriteStep, WriteOnStep, EndWriteStep
  <1>2. CASE \E notes \in {Blank, Notes} :
                \/ Detect(notes)
                \/ \E a \in CodingAgents, via \in {"adapter", "service"} : Begin(a, via, notes)
    BY <1>2, DetectStep, BeginStep
  <1>3. CASE Find
    BY <1>3, FindStep
  <1>4. CASE Read
    BY <1>4, ReadStep
  <1>5. CASE UNCHANGED captureVars
    <2>1. UNCHANGED <<session, written, clock, call, captures, result>>
      BY <1>5 DEF captureVars
    <2>2. SessionsInv'
      BY <2>1 DEF CaptureInv, SessionsInv
    <2>3. CallInv'
      BY <2>1 DEF CaptureInv, CallInv, There
    <2>4. ResultInv'
      BY <2>1, ResultStays DEF CaptureInv
    <2> QED
      BY <2>1, <2>2, <2>3, <2>4 DEF CaptureInv
  <1> QED
    BY <1>1, <1>2, <1>3, <1>4, <1>5 DEF CaptureNext

LEMMA CaptureInvTyped == CaptureInv => CaptureTypeOK
  <1> SUFFICES ASSUME CaptureInv PROVE CaptureTypeOK
    OBVIOUS
  <1>1. \A s \in Sessions : /\ session[s].tail \in {"none", "cut", "split"}
                            /\ \A i \in DOMAIN session[s].msgs : session[s].msgs[i].text \in {Blank, i}
    BY DEF CaptureInv, SessionsInv, SessionStates, WellTold
  <1>2. call.at \in {"none", "begun", "found"}
    BY DEF CaptureInv, CallInv, Calls
  <1> QED
    BY <1>1, <1>2 DEF CaptureInv, SessionsInv, ResultInv, CaptureTypeOK

-----------------------------------------------------------------------------
(* Briefing: the summary by rules *)

TalkInv == /\ talk \in Seq([role : {"user", "assistant", "tool"}, text : Nat])
           /\ Len(talk) <= MaxMessages
           /\ \A i \in DOMAIN talk : talk[i].text \in {Nothing, i}

\* All the results that are kept, but the first, come after the first.
LEMMA LastToolsAreFew ==
    ASSUME BriefingAssumption, TalkInv
    PROVE  IsFiniteSet(LastTools) /\ Cardinality(LastTools) <= MaxSteps
  <1> DEFINE After(k) == {j \in By("tool") : k < j}
  <1>1. /\ IsFiniteSet(By("tool")) /\ By("tool") \in SUBSET Nat
        /\ LastTools = {i \in By("tool") : Cardinality(After(i)) < MaxSteps}
        /\ MaxSteps \in Nat
    <2>1. DOMAIN talk = 1 .. Len(talk) /\ Len(talk) \in Nat
      BY LenProperties DEF TalkInv
    <2>2. IsFiniteSet(DOMAIN talk)
      BY <2>1, FS_Interval
    <2>3. By("tool") \subseteq DOMAIN talk
      BY DEF By
    <2>4. IsFiniteSet(By("tool"))
      BY <2>2, <2>3, FS_Subset
    <2>5. MaxSteps \in Nat
      BY DEF BriefingAssumption
    <2> QED
      BY <2>1, <2>3, <2>4, <2>5 DEF LastTools
  <1>2. IsFiniteSet(LastTools)
    BY <1>1, FS_Subset
  <1>3. CASE LastTools = {}
    <2>1. Cardinality(LastTools) = 0
      BY <1>3, FS_EmptySet
    <2>2. MaxSteps \in Nat
      BY <1>1
    <2> QED
      BY <1>2, <2>1, <2>2
  <1>4. CASE LastTools # {}
    <2>1. LastTools \in SUBSET Nat
      BY <1>1
    <2>2. PICK k \in LastTools : \A j \in LastTools : k <= j
      BY <1>4, <2>1, LeastNat
    <2>3. Cardinality(After(k)) < MaxSteps /\ After(k) \subseteq By("tool")
      BY <1>1, <2>2
    <2>4. LastTools \ {k} \subseteq After(k)
      BY <1>1, <2>1, <2>2
    <2> HIDE DEF After
    <2>5. IsFiniteSet(After(k)) /\ Cardinality(After(k)) \in Nat
      BY <1>1, <2>3, FS_Subset, FS_CardinalityType
    <2>6. Cardinality(LastTools \ {k}) <= Cardinality(After(k))
      BY <2>4, <2>5, FS_Subset
    <2>7. /\ Cardinality(LastTools \ {k}) = Cardinality(LastTools) - 1
          /\ Cardinality(LastTools) \in Nat
      BY <1>2, <2>2, FS_RemoveElement, FS_CardinalityType
    <2> QED
      BY <1>1, <1>2, <2>3, <2>5, <2>6, <2>7
  <1> QED
    BY <1>3, <1>4

\* A summary by rules always says what is going on, in few steps.
Rules(sum, n) == /\ sum.method = "rule_based_fallback" /\ sum.step # Nothing
                 /\ DOMAIN sum.steps # {} /\ Cardinality(DOMAIN sum.steps) <= MaxSteps
                 /\ {sum.step, sum.next} \subseteq (0 .. n) \cup {Wording}

\* One step is few enough.
LEMMA Singleton ==
    ASSUME BriefingAssumption, NEW v
    PROVE  DOMAIN <<v>> # {} /\ Cardinality(DOMAIN <<v>>) <= MaxSteps
  <1>1. DOMAIN <<v>> = {1}
    OBVIOUS
  <1>2. Cardinality({1}) = 1
    BY FS_Singleton
  <1>3. MaxSteps \in Nat \ {0}
    BY DEF BriefingAssumption
  <1> QED
    BY <1>1, <1>2, <1>3

\* The rules always find a step, and no more than they may.
LEMMA ByRulesTells ==
    ASSUME BriefingAssumption, TalkInv
    PROVE  Rules(ByRules, Len(talk))
  <1>1. DOMAIN talk = 1 .. Len(talk) /\ Len(talk) \in Nat
    BY LenProperties DEF TalkInv
  <1>2. Wording \notin Nat /\ Wording # Nothing
    BY DEF BriefingAssumption, Nothing
  <1>3. DOMAIN Steps # {} /\ Cardinality(DOMAIN Steps) <= MaxSteps
    <2>1. CASE LastTools = {}
      BY <2>1, Singleton DEF Steps
    <2>2. CASE LastTools # {}
      <3>1. DOMAIN Steps = LastTools
        BY <2>2 DEF Steps
      <3> QED
        BY <2>2, <3>1, LastToolsAreFew
    <2> QED
      BY <2>1, <2>2
  <1>4. Step # Nothing /\ Step \in (0 .. Len(talk)) \cup {Wording}
    <2>1. CASE By("assistant") = {} \/ talk[LastBy("assistant")].text = Nothing
      BY <1>2, <2>1 DEF Step
    <2>2. CASE ~(By("assistant") = {} \/ talk[LastBy("assistant")].text = Nothing)
      <3>1. By("assistant") \in SUBSET (0 .. Len(talk)) /\ By("assistant") # {}
        BY <1>1, <2>2 DEF By
      <3>2. \E i \in By("assistant") : \A j \in By("assistant") : j <= i
        BY <1>1, <3>1, GreatestNat
      <3>3. LastBy("assistant") \in By("assistant")
        BY <3>2 DEF LastBy
      <3>4. talk[LastBy("assistant")].text \in {Nothing, LastBy("assistant")}
        BY <3>3 DEF TalkInv, By
      <3>5. Step = LastBy("assistant") /\ Step # Nothing
        BY <2>2, <3>4 DEF Step
      <3> QED
        BY <3>1, <3>3, <3>5
    <2> QED
      BY <2>1, <2>2
  <1>5. /\ ByRules.method = "rule_based_fallback" /\ ByRules.step = Step
        /\ ByRules.steps = Steps /\ ByRules.next = Wording
    BY DEF ByRules
  <1> QED
    BY <1>3, <1>4, <1>5 DEF Rules

-----------------------------------------------------------------------------
(* Briefing: the invariant *)

\* A summary is the model's, where its answer could be made out, or one by rules.
SummaryInv ==
    \/ summary = NoSummary
    \/ answer \in ModelAnswers /\ Legible(answer) /\ summary = ByLLM(answer)
    \/ Rules(summary, Len(talk))

BriefInv ==
    /\ TalkInv /\ SummaryInv /\ answer \in ModelAnswers \cup {NoAnswer}
    /\ brief.given \in BOOLEAN /\ brief.progress \in BOOLEAN /\ brief.warned \in BOOLEAN
    /\ brief.given =>
         /\ summary # NoSummary
         /\ brief.progress <=> summary.step # Nothing \/ DOMAIN summary.steps # {}
         /\ brief.first = History.first /\ brief.last = History.last
         /\ brief.warned <=> Warns(History.last - History.first + 1)

LEMMA BriefInitInv == BriefingAssumption /\ BriefingInit => BriefInv
  <1> SUFFICES ASSUME BriefingAssumption, BriefingInit PROVE BriefInv
    OBVIOUS
  <1>1. talk = <<>> /\ answer = NoAnswer /\ summary = NoSummary /\ brief = NoBrief
    BY DEF BriefingInit
  <1>2. TalkInv
    <2>1. MaxMessages \in Nat
      BY DEF BriefingAssumption
    <2> QED
      BY <1>1, <2>1, EmptySeq DEF TalkInv
  <1>3. brief.given = FALSE /\ brief.progress = FALSE /\ brief.warned = FALSE
    BY <1>1 DEF NoBrief
  <1> QED
    BY <1>1, <1>2, <1>3 DEF BriefInv, SummaryInv

\* A conversation grows only as long as nobody has been told of it.
LEMMA TalksStep ==
    ASSUME BriefingAssumption, BriefInv, NEW role \in {"user", "assistant", "tool"},
           NEW blank \in BOOLEAN, Talks(role, blank)
    PROVE  BriefInv'
  <1> DEFINE m == [role |-> role, text |-> IF blank THEN Nothing ELSE Len(talk) + 1]
             M == [role : {"user", "assistant", "tool"}, text : Nat]
  <1>1. /\ Len(talk) < MaxMessages /\ ~brief.given /\ talk' = Append(talk, m)
        /\ UNCHANGED <<summary, answer, brief>>
    BY DEF Talks
  <1>2. talk \in Seq(M) /\ Len(talk) \in Nat /\ DOMAIN talk = 1 .. Len(talk)
    BY LenProperties DEF BriefInv, TalkInv
  <1>3. m \in M /\ m.text \in {Nothing, Len(talk) + 1}
    BY <1>2 DEF Nothing
  <1> HIDE DEF m
  <1>4. /\ talk' \in Seq(M) /\ Len(talk') = Len(talk) + 1
        /\ \A i \in 1 .. Len(talk) : talk'[i] = talk[i]
        /\ talk'[Len(talk) + 1] = m
    BY <1>1, <1>2, <1>3, AppendProperties
  <1>5. DOMAIN talk' = 1 .. Len(talk) + 1
    BY <1>4, LenProperties
  <1>6. MaxMessages \in Nat
    BY DEF BriefingAssumption
  <1>7. TalkInv'
    <2>1. ASSUME NEW i \in DOMAIN talk' PROVE talk'[i].text \in {Nothing, i}
      <3>1. CASE i = Len(talk) + 1
        BY <1>3, <1>4, <3>1
      <3>2. CASE i # Len(talk) + 1
        <4>1. i \in DOMAIN talk /\ talk'[i] = talk[i]
          BY <1>2, <1>4, <1>5, <3>2
        <4> QED
          BY <4>1 DEF BriefInv, TalkInv
      <3> QED
        BY <3>1, <3>2
    <2> QED
      BY <1>1, <1>2, <1>4, <1>6, <2>1 DEF TalkInv
  <1>8. Rules(summary, Len(talk)) => Rules(summary', Len(talk'))
    <2>1. 0 .. Len(talk) \subseteq 0 .. Len(talk')
      BY <1>2, <1>4
    <2> QED
      BY <1>1, <2>1 DEF Rules
  <1>9. SummaryInv'
    BY <1>1, <1>8 DEF BriefInv, SummaryInv
  <1> QED
    BY <1>1, <1>7, <1>9 DEF BriefInv

LEMMA SummarizeStep ==
    ASSUME BriefingAssumption, BriefInv, NEW a \in ModelAnswers, Summarize(a)
    PROVE  BriefInv'
  <1>1. /\ ~brief.given /\ answer' = a /\ summary' = IF Legible(a) THEN ByLLM(a) ELSE ByRules
        /\ UNCHANGED <<talk, brief>>
    BY DEF Summarize
  <1>2. TalkInv'
    BY <1>1 DEF BriefInv, TalkInv
  <1>3. Rules(ByRules, Len(talk))
    BY ByRulesTells DEF BriefInv
  <1>4. SummaryInv'
    BY <1>1, <1>3 DEF SummaryInv
  <1> QED
    BY <1>1, <1>2, <1>4 DEF BriefInv

LEMMA InjectStep ==
    ASSUME BriefInv, Inject
    PROVE  BriefInv'
  <1> DEFINE tells == summary.step # Nothing \/ DOMAIN summary.steps # {}
             warns == Warns(History.last - History.first + 1)
  <1>1. /\ summary # NoSummary /\ UNCHANGED <<talk, summary, answer>>
        /\ brief' = [given |-> TRUE, first |-> History.first, last |-> History.last,
                     warned |-> warns, progress |-> tells]
    BY DEF Inject
  <1>2. tells \in BOOLEAN /\ warns \in BOOLEAN
    BY DEF Warns
  <1> HIDE DEF tells, warns
  <1>3. /\ brief'.given = TRUE /\ brief'.first = History.first /\ brief'.last = History.last
        /\ brief'.warned = warns /\ brief'.progress = tells
    BY <1>1
  <1>4. History' = History
    BY <1>1 DEF History
  <1>5. TalkInv' /\ SummaryInv'
    BY <1>1 DEF BriefInv, TalkInv, SummaryInv
  <1>6. /\ brief'.progress <=> (summary'.step # Nothing \/ DOMAIN summary'.steps # {})
        /\ brief'.warned <=> Warns(History'.last - History'.first + 1)
    BY <1>1, <1>3, <1>4 DEF tells, warns
  <1> QED
    BY <1>1, <1>2, <1>3, <1>4, <1>5, <1>6 DEF BriefInv

\* Every step keeps the invariant.
LEMMA BriefStep == BriefingAssumption /\ BriefInv /\ [BriefingNext]_briefingVars => BriefInv'
  <1> SUFFICES ASSUME BriefingAssumption, BriefInv, [BriefingNext]_briefingVars PROVE BriefInv'
    OBVIOUS
  <1>1. CASE \E role \in {"user", "assistant", "tool"}, blank \in BOOLEAN : Talks(role, blank)
    BY <1>1, TalksStep
  <1>2. CASE \E a \in ModelAnswers : Summarize(a)
    BY <1>2, SummarizeStep
  <1>3. CASE Inject
    BY <1>3, InjectStep
  <1>4. CASE UNCHANGED briefingVars
    <2>1. UNCHANGED <<talk, summary, answer, brief>>
      BY <1>4 DEF briefingVars
    <2> QED
      BY <2>1 DEF BriefInv, TalkInv, SummaryInv, History
  <1> QED
    BY <1>1, <1>2, <1>3, <1>4 DEF BriefingNext

\* What the model is made to say: its own words, or nothing.
LEMMA ByLLMTells ==
    ASSUME BriefingAssumption, NEW a \in ModelAnswers, Legible(a)
    PROVE  /\ ByLLM(a).method = "llm" /\ {ByLLM(a).step, ByLLM(a).next} \subseteq {Nothing, ByModel}
           /\ Cardinality(DOMAIN ByLLM(a).steps) <= MaxSteps
           /\ a.kind \in {"json", "text"}
           /\ \/ a.named \subseteq {"next"}
              \/ ByLLM(a).step # Nothing \/ DOMAIN ByLLM(a).steps # {}
  <1>1. ByModel # Nothing /\ MaxSteps \in Nat
    BY DEF BriefingAssumption, Nothing
  <1>2. /\ ByLLM(a).method = "llm"
        /\ ByLLM(a).step = Said(a, "step") /\ ByLLM(a).next = Said(a, "next")
        /\ ByLLM(a).steps = IF "steps" \in a.named THEN <<ByModel>> ELSE <<>>
    BY DEF ByLLM
  <1>3. {ByLLM(a).step, ByLLM(a).next} \subseteq {Nothing, ByModel}
    BY <1>2 DEF Said
  <1>4. a.kind \in {"json", "text"} /\ a.named \subseteq {"steps", "step", "next"}
    BY DEF Legible, ModelAnswers, Topics
  <1>5. CASE "steps" \in a.named
    <2>1. ByLLM(a).steps = <<ByModel>>
      BY <1>2, <1>5
    <2>2. DOMAIN ByLLM(a).steps # {} /\ Cardinality(DOMAIN ByLLM(a).steps) <= MaxSteps
      BY <2>1, Singleton
    <2> QED
      BY <1>2, <1>3, <1>4, <2>2
  <1>6. CASE "steps" \notin a.named
    <2>1. DOMAIN ByLLM(a).steps = {}
      BY <1>2, <1>6
    <2>2. Cardinality(DOMAIN ByLLM(a).steps) <= MaxSteps
      BY <1>1, <2>1, FS_EmptySet
    <2>3. a.named \subseteq {"next"} \/ ByLLM(a).step # Nothing
      BY <1>1, <1>2, <1>4, <1>6 DEF Said
    <2> QED
      BY <1>2, <1>3, <1>4, <2>2, <2>3
  <1> QED
    BY <1>5, <1>6

LEMMA BriefInvTyped == BriefingAssumption /\ BriefInv => BriefingTypeOK
  <1> SUFFICES ASSUME BriefingAssumption, BriefInv PROVE BriefingTypeOK
    OBVIOUS
  <1>1. Len(talk) \in Nat /\ Nothing \in 0 .. Len(talk)
    BY LenProperties DEF BriefInv, TalkInv, Nothing
  <1>2. /\ summary.method \in {"none", "llm", "rule_based_fallback"}
        /\ Cardinality(DOMAIN summary.steps) <= MaxSteps
        /\ {summary.step, summary.next} \subseteq (0 .. Len(talk)) \cup {Wording, ByModel}
    <2>1. CASE summary = NoSummary
      <3>1. /\ summary.method = "none" /\ summary.steps = <<>> /\ summary.step = Nothing
            /\ summary.next = Nothing
        BY <2>1 DEF NoSummary
      <3>2. Cardinality(DOMAIN <<>>) = 0 /\ MaxSteps \in Nat
        BY FS_EmptySet DEF BriefingAssumption
      <3>3. Cardinality(DOMAIN summary.steps) <= MaxSteps
        BY <3>1, <3>2
      <3> QED
        BY <1>1, <3>1, <3>3
    <2>2. CASE answer \in ModelAnswers /\ Legible(answer) /\ summary = ByLLM(answer)
      BY <1>1, <2>2, ByLLMTells
    <2>3. CASE Rules(summary, Len(talk))
      BY <2>3 DEF Rules
    <2> QED
      BY <2>1, <2>2, <2>3 DEF BriefInv, SummaryInv
  <1> QED
    BY <1>2 DEF BriefInv, TalkInv, BriefingTypeOK

\* A summary that has something to tell is told, with the end of the conversation.
LEMMA BriefInvTells == BriefingAssumption /\ BriefInv => TheTargetIsTold
  <1> SUFFICES ASSUME BriefingAssumption, BriefInv PROVE TheTargetIsTold
    OBVIOUS
  <1>1. summary.method = "rule_based_fallback" => summary.step # Nothing /\ DOMAIN summary.steps # {}
    BY ByLLMTells DEF BriefInv, SummaryInv, NoSummary, Rules
  <1>2. summary.method = "llm" =>
          /\ answer.kind \in {"json", "text"}
          /\ {summary.step, summary.next} \subseteq {Nothing, ByModel}
    BY ByLLMTells DEF BriefInv, SummaryInv, NoSummary, Rules
  <1>3. brief.given => brief.progress \/ (summary.method = "llm" /\ answer.named \subseteq {"next"})
    <2>1. SUFFICES ASSUME brief.given
                   PROVE  brief.progress \/ (summary.method = "llm" /\ answer.named \subseteq {"next"})
      OBVIOUS
    <2>2. /\ summary # NoSummary
          /\ summary.step # Nothing \/ DOMAIN summary.steps # {} => brief.progress
      BY <2>1 DEF BriefInv
    <2>3. CASE answer \in ModelAnswers /\ Legible(answer) /\ summary = ByLLM(answer)
      BY <2>2, <2>3, ByLLMTells
    <2>4. CASE Rules(summary, Len(talk))
      BY <2>2, <2>4 DEF Rules
    <2> QED
      BY <2>2, <2>3, <2>4 DEF BriefInv, SummaryInv
  <1>4. brief.given /\ brief.last - brief.first + 1 < Len(talk) => brief.warned /\ brief.last = Len(talk)
    <2>1. SUFFICES ASSUME brief.given, brief.last - brief.first + 1 < Len(talk)
                   PROVE  brief.warned /\ brief.last = Len(talk)
      OBVIOUS
    <2>2. Len(talk) \in Nat /\ MaxHistory \in Nat
      BY LenProperties DEF BriefInv, TalkInv, BriefingAssumption
    <2>3. /\ brief.first = IF Len(talk) > MaxHistory THEN Len(talk) - MaxHistory + 1 ELSE 1
          /\ brief.last = Len(talk)
          /\ Warns(brief.last - brief.first + 1) => brief.warned
      BY <2>1 DEF BriefInv, History
    <2>4. brief.last - brief.first + 1 >= MaxHistory
      <3>1. CASE Len(talk) > MaxHistory
        <4>1. brief.first = Len(talk) - MaxHistory + 1 /\ brief.last = Len(talk)
          BY <2>3, <3>1
        <4>2. brief.last - brief.first + 1 = MaxHistory
          BY <2>2, <4>1
        <4> QED
          BY <2>2, <4>2
      <3>2. CASE ~(Len(talk) > MaxHistory)
        <4>1. brief.first = 1 /\ brief.last = Len(talk)
          BY <2>3, <3>2
        <4> QED
          BY <2>1, <2>2, <4>1
      <3> QED
        BY <3>1, <3>2
    <2> QED
      BY <2>3, <2>4 DEF Warns
  <1> QED
    BY <1>1, <1>2, <1>3, <1>4 DEF TheTargetIsTold

-----------------------------------------------------------------------------
(* Theorems of the parts *)

\* The sessions, the call and what has come of it hang together.
THEOREM CaptureInvariant == CaptureSpec => []CaptureInv
  <1>1. CaptureInit => CaptureInv
    BY CaptureInitInv, CaptureAssumption
  <1>2. CaptureInv /\ [CaptureNext]_captureVars => CaptureInv'
    BY CaptureStep, CaptureAssumption
  <1> QED
    BY <1>1, <1>2, PTL DEF CaptureSpec

\* The variables of a capture keep their types; a package has a description, and texts only.
THEOREM CaptureTyped == CaptureSpec => []CaptureTypeOK
  BY CaptureInvariant, CaptureInvTyped, PTL

\* For all that agents may write, in every format and however long, and however it is read
\* while it is written: a package tells the last words and the first of what it was made of.
THEOREM PackagesTell == CaptureSpec => []PackageTellsTheTalk
  <1>1. CaptureInv => PackageTellsTheTalk
    BY DEF CaptureInv, ResultInv
  <1> QED
    BY <1>1, CaptureInvariant, PTL

\* However many sessions there are and whoever writes between the two looks at them: what
\* is captured is no older than what was the newest when the call began.
THEOREM CapturesFresh == CaptureSpec => []CapturesAreFresh
  <1>1. CaptureInv => CapturesAreFresh
    BY DEF CaptureInv, ResultInv
  <1> QED
    BY <1>1, CaptureInvariant, PTL

\* A call fails only over a file that is being written, or a content that is no text.
THEOREM FailuresCaused == CaptureSpec => []FailuresHaveACause
  <1>1. CaptureInv => FailuresHaveACause
    BY DEF CaptureInv, ResultInv
  <1> QED
    BY <1>1, CaptureInvariant, PTL

\* A summary is the model's or complete, and a briefing shows it and the end of the talk.
THEOREM BriefInvariant == BriefingSpec => []BriefInv
  <1>1. BriefingInit => BriefInv
    BY BriefInitInv, BriefingAssumption
  <1>2. BriefInv /\ [BriefingNext]_briefingVars => BriefInv'
    BY BriefStep, BriefingAssumption
  <1> QED
    BY <1>1, <1>2, PTL DEF BriefingSpec

\* For conversations of any length, and any number of steps and messages that are kept.
THEOREM TargetsAreTold == BriefingSpec => []TheTargetIsTold
  <1>1. BriefInv => TheTargetIsTold
    BY BriefInvTells, BriefingAssumption
  <1> QED
    BY <1>1, BriefInvariant, PTL

\* The variables of a briefing keep their types, and a summary has no more steps than it may.
THEOREM BriefTyped == BriefingSpec => []BriefingTypeOK
  <1>1. BriefInv => BriefingTypeOK
    BY BriefInvTyped, BriefingAssumption
  <1> QED
    BY <1>1, BriefInvariant, PTL

-----------------------------------------------------------------------------
(* Theorems of the composition *)

\* A behaviour of the three side by side is one of each of them.
THEOREM EachOnItsOwn == Spec => PlanSpec /\ CaptureSpec /\ BriefingSpec
  <1>1. Init => PlanInit /\ CaptureInit /\ BriefingInit
    BY DEF Init
  <1>2. [Next]_vars => [PlanNext]_planVars /\ [CaptureNext]_captureVars /\ [BriefingNext]_briefingVars
    <2>1. SUFFICES ASSUME [Next]_vars
                   PROVE  [PlanNext]_planVars /\ [CaptureNext]_captureVars /\ [BriefingNext]_briefingVars
      OBVIOUS
    <2>2. CASE PlanNext /\ UNCHANGED <<captureVars, briefingVars>>
      BY <2>2
    <2>3. CASE CaptureNext /\ UNCHANGED <<planVars, briefingVars>>
      BY <2>3
    <2>4. CASE BriefingNext /\ UNCHANGED <<planVars, captureVars>>
      BY <2>4
    <2>5. CASE UNCHANGED vars
      BY <2>5 DEF vars
    <2> QED
      BY <2>1, <2>2, <2>3, <2>4, <2>5 DEF Next
  <1> QED
    BY <1>1, <1>2, PTL DEF Spec, PlanSpec, CaptureSpec, BriefingSpec

\* The variables of all three keep their types.
THEOREM Typed == Spec => []TypeOK
  <1>1. PlanTypeOK /\ CaptureTypeOK /\ BriefingTypeOK => TypeOK
    BY DEF TypeOK
  <1> QED
    BY <1>1, EachOnItsOwn, PlanTyped, CaptureTyped, BriefTyped, PTL

\* What holds of the parts holds of the composition that the runs check.
THEOREM PartsHold ==
    Spec => /\ [](OrderIsKept /\ PlansFitTheExecutor) /\ RoutesFollowTheKeywords
            /\ [](PackageTellsTheTalk /\ CapturesAreFresh /\ FailuresHaveACause)
            /\ []TheTargetIsTold
  BY EachOnItsOwn, OrderKept, PlansFit, RoutesFollow, PackagesTell, CapturesFresh,
     FailuresCaused, TargetsAreTold, PTL
=============================================================================
