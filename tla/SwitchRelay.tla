----------------------------- MODULE SwitchRelay -----------------------------
(***************************************************************************)
(* `handoff-relay switch`: the way from one coding agent to another on a   *)
(* user's machine.  A switch saves a package, injects a handoff block into *)
(* the instruction file of the target and has the target started: in tmux  *)
(* by opening a window, elsewhere by leaving a command in the marker file  *)
(* ~/.handoff/switch_cmd, which the hook of any shell runs at its prompt.  *)
(* Called through MCP, it returns after the injection.                     *)
(*                                                                         *)
(* Terminals share the marker and the files; nothing is locked, and a file *)
(* is written in two steps, truncation and text.  Every writer writes from *)
(* the beginning: of two that are past the truncation, the second writes   *)
(* over what the first has written, and what is longer stays.  An          *)
(* instruction file is the sequence of its parts: lines of the user and    *)
(* whole handoff blocks, without its header and what is left of a part     *)
(* that has been cut.                                                      *)
(* Packages are numbered; the window that switch p opens has that number.  *)
(* All switches concern one project.  Detection goes by the newest session *)
(* of any project, so it may come out with any agent: a switch to the      *)
(* agent detected is refused and changes nothing.                          *)
(***************************************************************************)
EXTENDS Naturals, FiniteSets, SequencesExt

CONSTANTS Shells,        \* terminals with a shell and its hook
          Layouts,       \* which of them run in tmux
          Agents,
          Brief,         \* the agent whose file is handoff-brief.md
          MaxSwitches, MaxEdits, MaxKills,   \* bounds
          None, Blank, Garbled               \* no value; commands that start nothing

RelayAssumption == /\ IsFiniteSet(Shells) /\ Layouts \subseteq SUBSET Shells
                   /\ Brief \in Agents
                   /\ Shells \cap Nat = {}
                   /\ {MaxSwitches, MaxEdits, MaxKills} \subseteq Nat
                   /\ None \notin Agents
ASSUME RelayAssumption

Packages  == 1 .. MaxSwitches
Windows   == Packages                \* tmux windows that switches open
Terminals == Shells \cup Windows

VARIABLES inTmux,     \* the shells that run in tmux
          at,         \* at[t]: what terminal t is at
          running,    \* running[t]: the agent in it
          sw,         \* sw[t]: the switch command running in it
          seen,       \* seen[t]: the command that its hook has read
          marker,     \* the marker file: an inode and a command, or None
          inodes,     \* marker files created so far
          text,       \* text[a]: the instruction file of agent a
          files,      \* the agents whose instruction file exists
          packages,   \* packages saved so far
          edits,      \* lines the user has added
          kills,      \* switches interrupted
          torn,       \* history: files left without a handoff, by a switch that died
                      \*   over them or has created them anew
          mixed,      \* history: files in which a switch has written over a handoff
          atRisk,     \* history: lines added or held while a file was rewritten
          superseded, \* history: packages whose block another injection wiped out
          booted      \* history: the agents started by a switch, and what they found

relay == <<marker, inodes, text, files, packages>>
user == <<inTmux, edits, kills, torn, atRisk>>
history == <<superseded, mixed, booted>>
UsesTmux(t) == t \in inTmux \cup Windows
vars == <<inTmux, at, running, sw, seen, relay, user, history>>

\* Parts of an instruction file
Line(n)  == [kind |-> "line", id |-> n]
Block(p) == [kind |-> "block", id |-> p]
Ids(s, kind) == {s[i].id : i \in {j \in DOMAIN s : s[j].kind = kind}}

\* _remove_handoff_block: takes out the first block.
\* Faulty variants: what follows the block goes too; an earlier block stays.
FirstBlock(s) == SelectInSeq(s, LAMBDA part : part.kind = "block")
WithoutRest(s) == IF FirstBlock(s) = 0 THEN s ELSE SubSeq(s, 1, FirstBlock(s) - 1)
WithBlock(s) == s
WithoutBlock(s) == IF FirstBlock(s) = 0 THEN s ELSE RemoveAt(s, FirstBlock(s))

NoSwitch == [at |-> "none", target |-> None, pkg |-> 0, copy |-> <<>>, inode |-> 0]

Init == /\ inTmux \in Layouts
        /\ at = [t \in Terminals |-> IF t \in Shells THEN "idle" ELSE "off"]
        /\ running = [t \in Terminals |-> None]
        /\ sw = [t \in Terminals |-> NoSwitch]
        /\ seen = [t \in Terminals |-> Blank]
        /\ marker = None /\ inodes = 0
        /\ text = [a \in Agents |-> <<>>] /\ files \in SUBSET (Agents \ {Brief})
        /\ packages = 0 /\ edits = 0 /\ kills = 0
        /\ torn = {} /\ atRisk = {} /\ superseded = {} /\ mixed = {} /\ booted = {}

-----------------------------------------------------------------------------
(* The switch command: service.switch, and what the command line adds.     *)

Step(t, from, to) == /\ sw[t].at = from
                     /\ sw' = [sw EXCEPT ![t].at = to]

\* The command ends; a shell that ran it shows its prompt.
Ends(t) == /\ sw' = [sw EXCEPT ![t] = NoSwitch]
           /\ at' = [at EXCEPT ![t] = IF @ = "busy" THEN "prompt" ELSE @]

\* What the files lose when switches die before they have written them again.
Dies(killed) == LET half == {t \in killed : sw[t].at = "truncated"}
                IN  /\ torn' = torn \cup {sw[t].target : t \in half}
                    /\ atRisk' = atRisk \cup UNION {Ids(sw[t].copy, "line") : t \in half}

\* Some other agent is detected as the source, and its package is saved.
Begin(t, a) ==
    /\ at[t] \in {"agent", "idle"} /\ sw[t].at = "none"
    /\ packages < MaxSwitches
    /\ packages' = packages + 1
    /\ sw' = [sw EXCEPT ![t] = [NoSwitch EXCEPT !.at = "saved", !.target = a,
                                                !.pkg = packages + 1]]
    /\ at' = [at EXCEPT ![t] = IF @ = "idle" THEN "busy" ELSE @]
    /\ UNCHANGED <<running, seen, marker, inodes, text, files, user, history>>

\* A file that does not exist is created with a header, which is written as any text is:
\* whatever has come into the file since the check goes ...
Miss(t) == /\ sw[t].target \notin files \cup {Brief}
           /\ Step(t, "saved", "absent")
           /\ UNCHANGED <<at, running, seen, relay, user, history>>

CreateOpen(t) ==
    LET a == sw[t].target
    IN  /\ Step(t, "absent", "creating")
        /\ text' = [text EXCEPT ![a] = <<>>] /\ files' = files \cup {a}
        /\ superseded' = superseded \cup Ids(text[a], "block")
        /\ torn' = torn \cup {a}
        /\ UNCHANGED <<at, running, seen, marker, inodes, packages,
                       inTmux, edits, kills, atRisk, mixed, booted>>

\* ... and the header goes over the beginning of what has come since then.  It is shorter
\* than a block, so that it reaches one at most, and cuts what is before it.
UnderHeader(old) ==
    {SubSeq(old, k, Len(old)) :
       k \in 1 .. (IF FirstBlock(old) = 0 THEN Len(old) ELSE FirstBlock(old)) + 1}
CreateWrite(t) ==
    LET a == sw[t].target
    IN  /\ Step(t, "creating", "made")
        /\ \E rest \in UnderHeader(text[a]) :
             /\ text' = [text EXCEPT ![a] = rest]
             /\ superseded' = superseded \cup (Ids(text[a], "block") \ Ids(rest, "block"))
             /\ torn' = IF Ids(rest, "block") = {} THEN torn \cup {a} ELSE torn
        /\ UNCHANGED <<at, running, seen, marker, inodes, files, packages,
                       inTmux, edits, kills, atRisk, mixed, booted>>

Rewriting(a) == {t \in Terminals : sw[t].at = "truncated" /\ sw[t].target = a}

\* read_text and the removal of the earlier block; the brief is not read.
ReadDoc(t) ==
    LET a == sw[t].target
    IN  /\ sw[t].at = "made" \/ (sw[t].at = "saved" /\ a \in files \cup {Brief})
        /\ sw' = [sw EXCEPT ![t].at = "read",
                            ![t].copy = IF a = Brief THEN <<>> ELSE WithoutBlock(text[a])]
        /\ atRisk' = atRisk \cup UNION {Ids(sw[u].copy, "line") : u \in Rewriting(a)}
        /\ UNCHANGED <<at, running, seen, relay, inTmux, edits, kills, torn, history>>

\* write_text opens the file, which truncates it ...
TruncateDoc(t) ==
    LET a == sw[t].target
    IN  /\ Step(t, "read", "truncated")
        /\ text' = [text EXCEPT ![a] = <<>>] /\ files' = files \cup {a}
        /\ superseded' = superseded \cup Ids(text[a], "block")
        /\ UNCHANGED <<at, running, seen, marker, inodes, packages, user, mixed, booted>>

\* ... and writes what was read, with the new block at the end.
\* Faulty variant: a block is removed from the new text, which is the new one.
NewTextStripped(t) == WithoutBlock(Append(sw[t].copy, Block(sw[t].pkg)))
NewText(t) == Append(sw[t].copy, Block(sw[t].pkg))

\* What is there already may be longer than the new text if it has a line, or one line
\* or block more often, that the new text has not; blocks are of one length.
SamePart(x, y) == x = y \/ (x.kind = "block" /\ y.kind = "block")
Often(x, s) == Cardinality({i \in DOMAIN s : SamePart(x, s[i])})
MayBeLonger(old, new) == \E i \in DOMAIN old : Often(old[i], old) > Often(old[i], new)

\* Then the rest of it stays, from some part on that has not been reached.
Written(new, old) == {new} \cup (IF MayBeLonger(old, new)
                                 THEN {new \o SubSeq(old, k, Len(old)) : k \in 2 .. Len(old)}
                                 ELSE {})
WriteDoc(t) ==
    LET a == sw[t].target
    IN  /\ Step(t, "truncated", "injected")
        /\ \E new \in Written(NewText(t), text[a]) :
             /\ text' = [text EXCEPT ![a] = new]
             /\ superseded' = superseded \cup (Ids(text[a], "block") \ Ids(new, "block"))
        /\ torn' = torn \ {a}
        /\ mixed' = IF Ids(text[a], "block") = {} THEN mixed ELSE mixed \cup {a}
        /\ UNCHANGED <<at, running, seen, marker, inodes, files, packages,
                       inTmux, edits, kills, atRisk, booted>>

\* The MCP tool answers with the launch command and leaves the rest to the user.
McpReturns(t) == /\ sw[t].at = "injected" /\ at[t] = "agent"
                 /\ Ends(t)
                 /\ UNCHANGED <<running, seen, relay, user, history>>

\* write_switch_marker, in its two steps.  Whoever removes the file in between
\* takes the inode away; two writers of one inode write over each other.
MarkerOpen(t) ==
    LET n == IF marker = None THEN inodes + 1 ELSE marker.inode
    IN  /\ ~UsesTmux(t) /\ sw[t].at = "injected"
        /\ marker' = [inode |-> n, cmd |-> Blank]
        /\ inodes' = IF marker = None THEN n ELSE inodes
        /\ sw' = [sw EXCEPT ![t].at = "marking", ![t].inode = n]
        /\ UNCHANGED <<at, running, seen, text, files, packages, user, history>>
Command(t) == [pkg |-> sw[t].pkg, target |-> sw[t].target, by |-> t]
MarkerPut(t) ==
    /\ sw[t].at = "marking"
    /\ IF marker = None \/ marker.inode # sw[t].inode
         THEN UNCHANGED marker
         ELSE \E cmd \in {Command(t)} \cup (IF marker.cmd = Blank THEN {} ELSE {Garbled}) :
                marker' = [marker EXCEPT !.cmd = cmd]
    /\ Ends(t)
    /\ UNCHANGED <<running, seen, inodes, text, files, packages, user, history>>

\* What an agent started for package p finds in its instruction file.
Found(p, a, by, t) == [pkg |-> p, target |-> a, by |-> by, term |-> t,
                       blocks |-> Ids(text[a], "block"),
                       broken |-> Rewriting(a) # {} \/ a \in torn]

\* _tmux_switch: kill the window that has the target's name (tmux names a window
\* after what runs in it, and does not act on a name that two windows have) ...
Named(a) == {w \in Terminals : UsesTmux(w) /\ at[w] = "agent" /\ running[w] = a}
Victims(t) == LET ws == Named(sw[t].target) IN IF Cardinality(ws) = 1 THEN ws ELSE {}
\* Faulty variant: a switch that ran in the window goes on without it.
StopOrphans(t) == sw' = [sw EXCEPT ![t].at = "killed"]
StopSwitches(t) == sw' = [w \in Terminals |->
                            IF w \in Victims(t) THEN NoSwitch
                            ELSE IF w = t THEN [sw[t] EXCEPT !.at = "killed"]
                            ELSE sw[w]]
TmuxKill(t) ==
    /\ UsesTmux(t) /\ sw[t].at = "injected"
    /\ at' = [w \in Terminals |-> IF w \in Victims(t) THEN "off" ELSE at[w]]
    /\ running' = [w \in Terminals |-> IF w \in Victims(t) THEN None ELSE running[w]]
    /\ StopSwitches(t)
    /\ Dies(Victims(t))
    /\ UNCHANGED <<seen, relay, inTmux, edits, kills, history>>

\* ... and open a new one with the agent in it.
TmuxOpen(t) ==
    LET p == sw[t].pkg
        a == sw[t].target
    IN  /\ sw[t].at = "killed"
        /\ at' = [at EXCEPT ![p] = "agent", ![t] = IF @ = "busy" THEN "prompt" ELSE @]
        /\ running' = [running EXCEPT ![p] = a]
        /\ sw' = [sw EXCEPT ![t] = NoSwitch]
        /\ booted' = booted \cup {Found(p, a, t, p)}
        /\ UNCHANGED <<seen, relay, user, superseded, mixed>>

-----------------------------------------------------------------------------
(* The shell hook, at every prompt                                         *)

HookTest(t) == /\ at[t] = "prompt"
               /\ at' = [at EXCEPT ![t] = IF marker = None THEN "idle" ELSE "tested"]
               /\ UNCHANGED <<running, sw, seen, relay, user, history>>

HookRead(t) == /\ at[t] = "tested"
               /\ seen' = [seen EXCEPT ![t] = IF marker = None THEN Blank ELSE marker.cmd]
               /\ at' = [at EXCEPT ![t] = "read"]
               /\ UNCHANGED <<running, sw, relay, user, history>>

\* rm -f removes whatever is there, then the command is evaluated.
Evaluate(t) ==
    LET cmd == seen[t]
        starts == cmd \notin {Blank, Garbled}
    IN  /\ at[t] = "read"
        /\ at' = [at EXCEPT ![t] = IF starts THEN "agent" ELSE "idle"]
        /\ running' = [running EXCEPT ![t] = IF starts THEN cmd.target ELSE None]
        /\ booted' = IF starts THEN booted \cup {Found(cmd.pkg, cmd.target, cmd.by, t)}
                               ELSE booted
        /\ seen' = [seen EXCEPT ![t] = Blank]
        /\ UNCHANGED <<sw, inodes, text, files, packages, user, superseded, mixed>>
\* Faulty variant: the marker goes only if there is something to run.
HookKeepsBlank(t) == Evaluate(t) /\ marker' = IF seen[t] = Blank THEN marker ELSE None
HookRuns(t) == Evaluate(t) /\ marker' = None

-----------------------------------------------------------------------------
(* The user                                                                *)

\* The agent is left: back to the shell, or the window closes with it.
Exit(t) == /\ at[t] = "agent" /\ sw[t].at = "none"
           /\ at' = [at EXCEPT ![t] = IF t \in Shells THEN "prompt" ELSE "off"]
           /\ running' = [running EXCEPT ![t] = None]
           /\ UNCHANGED <<sw, seen, relay, user, history>>

\* Any command that comes back to the prompt.
Enter(t) == /\ at[t] = "idle"
            /\ at' = [at EXCEPT ![t] = "prompt"]
            /\ UNCHANGED <<running, sw, seen, relay, user, history>>

LaunchByHand(t, a) == /\ at[t] = "idle"
                      /\ at' = [at EXCEPT ![t] = "agent"]
                      /\ running' = [running EXCEPT ![t] = a]
                      /\ UNCHANGED <<sw, seen, relay, user, history>>

\* The user adds a line to an instruction file, or begins one.
Edit(a) ==
    LET open == \E t \in Terminals : /\ sw[t].at \in {"absent", "creating", "read", "truncated"}
                                     /\ sw[t].target = a
    IN  /\ a # Brief /\ edits < MaxEdits
        /\ edits' = edits + 1
        /\ text' = [text EXCEPT ![a] = Append(@, Line(edits + 1))] /\ files' = files \cup {a}
        /\ atRisk' = IF open THEN atRisk \cup {edits + 1} ELSE atRisk
        /\ UNCHANGED <<at, running, sw, seen, marker, inodes, packages,
                       inTmux, kills, torn, history>>

\* Ctrl-C between any two steps of a switch.
Interrupt(t) ==
    /\ sw[t].at # "none" /\ kills < MaxKills
    /\ kills' = kills + 1
    /\ Dies({t})
    /\ Ends(t)
    /\ UNCHANGED <<running, seen, relay, inTmux, edits, history>>

-----------------------------------------------------------------------------
SwitchStep(t) == \/ Miss(t) \/ CreateOpen(t) \/ CreateWrite(t)
                 \/ ReadDoc(t) \/ TruncateDoc(t) \/ WriteDoc(t)
                 \/ MarkerOpen(t) \/ MarkerPut(t) \/ TmuxKill(t) \/ TmuxOpen(t)
HookStep(t) == HookTest(t) \/ HookRead(t) \/ HookRuns(t)

Next == \/ \E t \in Terminals : \/ SwitchStep(t) \/ McpReturns(t) \/ HookStep(t)
                                \/ Exit(t) \/ Enter(t) \/ Interrupt(t)
                                \/ \E a \in Agents : Begin(t, a) \/ LaunchByHand(t, a)
        \/ \E a \in Agents : Edit(a)

Spec == Init /\ [][Next]_vars

\* The processes go on, and the user comes back to the prompt of each shell.
FairSpec == /\ Spec
            /\ \A t \in Terminals : /\ WF_vars(SwitchStep(t)) /\ WF_vars(HookStep(t))
                                    /\ WF_vars(Exit(t)) /\ WF_vars(Enter(t))

-----------------------------------------------------------------------------
Commands == [pkg : Packages, target : Agents, by : Terminals] \cup {Blank, Garbled}
Parts == [kind : {"line"}, id : 1 .. MaxEdits] \cup [kind : {"block"}, id : Packages]

TypeOK ==
    /\ inTmux \in Layouts
    /\ at \in [Terminals -> {"off", "idle", "prompt", "tested", "read", "busy", "agent"}]
    /\ running \in [Terminals -> Agents \cup {None}]
    /\ \A t \in Terminals : running[t] # None <=> at[t] = "agent"
    /\ \A t \in Terminals :
         /\ sw[t].at \in {"none", "saved", "absent", "creating", "made", "read", "truncated",
                          "injected", "marking", "killed"}
         /\ sw[t].target \in Agents \cup {None} /\ sw[t].pkg \in 0 .. packages
         /\ sw[t].copy \in Seq(Parts) /\ sw[t].inode \in 0 .. inodes
         /\ sw[t].at # "none" => at[t] \in {"busy", "agent"}
    /\ seen \in [Terminals -> Commands]
    /\ marker = None \/ marker \in [inode : 1 .. inodes, cmd : Commands]
    /\ inodes \in 0 .. MaxSwitches
    /\ text \in [Agents -> Seq(Parts)] /\ files \subseteq Agents /\ mixed \subseteq Agents
    /\ packages \in 0 .. MaxSwitches /\ edits \in 0 .. MaxEdits /\ kills \in 0 .. MaxKills
    /\ torn \subseteq Agents /\ atRisk \subseteq 1 .. edits /\ superseded \subseteq Packages

\* However switches to one agent interleave and whatever the user adds below a block, the
\* instruction file carries one handoff at most, as long as no switch has written over
\* the finished handoff of another one (claude_code.py and codex.py remove the earlier
\* block before they append theirs, and write what they have read before).
OneHandoffPerFile == \A a \in Agents \ mixed : Cardinality(Ids(text[a], "block")) <= 1

\* An agent started by a switch finds that switch's handoff in its file, unless another
\* switch has replaced it; and it finds some handoff, unless the file is being rewritten
\* that very moment, or a switch has died over it or has taken it for missing and has
\* not written it yet.
BootsWithContext ==
    \A b \in booted : /\ b.pkg \in b.blocks \/ b.pkg \in superseded
                      /\ b.blocks # {} \/ b.broken

\* A line that the user has added to CLAUDE.md or AGENTS.md stays, unless it was added
\* while a switch held the text or was about to create the file, or a second switch or an
\* interrupt met the file between its truncation and its writing.
UserTextKept ==
    \A e \in (1 .. edits) \ atRisk :
       \E a \in Agents : \/ e \in Ids(text[a], "line")
                         \/ \E t \in Rewriting(a) : e \in Ids(sw[t].copy, "line")

\* A marker does not stay for ever, however it was written: some prompt takes it.
MarkerIsTaken == marker # None ~> marker = None

\* The switch command's words: "1. Exit the current agent", "2. Your shell will
\* automatically exec" the target (cli.py:318-319), so the agent starts in the
\* shell where the switch was made.
LaunchInOwnShell == \A b \in booted : b.term \in Shells => b.term = b.by
=============================================================================
