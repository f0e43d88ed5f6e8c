---------------------------- MODULE MCFrontEnds ----------------------------
(* An instance of FrontEnds for TLC: two community runs, four sessions of  *)
(* three agents, and what is said in them.                                 *)
EXTENDS FrontEnds

-----------------------------------------------------------------------------
(* Planning *)

CONSTANTS claude, codex, opencode, o1, o2, file1, file2

Profiles == <<claude, codex>>
Lists == {{}, {claude}, {codex}, {claude, codex}, {opencode}}

NoHits == [a \in {claude, codex} |-> 0]
Plain(deps) == [creates |-> {}, modifies |-> {}, deps |-> deps, hits |-> NoHits]
Index(n) == <<"int", n>>

\* Every graph over three tasks, of which two are kept, with an index out of range;
\* and what is not an index at all.
DepsOver(S) == {{Index(n) : n \in D} : D \in SUBSET S}
Graphs == {<<Plain(d), Plain(e), Plain(c)>> : d, e \in DepsOver(0 .. 2), c \in {{}, {Index(0), Index(1)}}}
OddDeps == {{Index(-1)}, {Index(3), Index(0)}, {<<"true", 0>>}, {<<"other", 0>>, Index(0)}}
Oddities == {<<Plain({}), Plain(d)>> : d \in OddDeps} \cup {<<Plain(d)>> : d \in OddDeps}

\* Files of two tasks, and one that is cut.
Filed == {[Plain({}) EXCEPT !.creates = c, !.modifies = m] : c, m \in {{}, {file1}, {file1, file2}}}
Shared == {<<t, u>> : t, u \in Filed} \cup {<<t, Plain({}), t>> : t \in Filed}

\* Keywords of both agents, on small tasks and on large ones.
Hits == {h \in [{claude, codex} -> {0, 1, 3}] : h[claude] # h[codex]}
Worded == {[t EXCEPT !.hits = h] : h \in Hits,
                                   t \in {Plain({}), [Plain({}) EXCEPT !.creates = {file1, file2},
                                                                       !.modifies = {file1}]}}
Answers == [o \in {o1, o2} |->
              IF o = o1 THEN {<<>>} \cup Graphs \cup Oddities \cup Shared
              ELSE {<<t>> : t \in Worded}]

-----------------------------------------------------------------------------
(* Capture *)

\* Two sessions of one agent, and one of each other.
Owner == [s \in {"claude", "open", "codex1", "codex2"} |->
            CASE s = "claude" -> "claude-code" [] s = "open" -> "opencode" [] OTHER -> "codex-cli"]

Says(who, role, shape) == [who |-> who, role |-> role, shape |-> shape, blank |-> FALSE]
Silent(u) == [u EXCEPT !.blank = TRUE]

\* What the files of each agent may hold.
Words == [a \in {"claude-code", "opencode", "codex-cli"} |->
            CASE a = "claude-code" -> {Says("user", "user", "flat"), Silent(Says("user", "user", "flat")),
                                       Says("assistant", "model", "flat"), Says("other", "", "string"),
                                       Says("assistant", "assistant", "null"), Says("user", "user", "parts")}
              [] a = "opencode" -> {Says("user", "user", "flat"), Says("assistant", "agent", "flat"),
                                    Says("user", "", "string")}
              [] OTHER -> {Says("user", "input", "flat"), Silent(Says("user", "user", "parts")),
                           Says("assistant", "agent_message", "nested"),
                           Says("assistant", "assistant", "deep")}]

=============================================================================
