-------------------------- MODULE SwitchRelayProofs --------------------------
(***************************************************************************)
(* Proofs about SwitchRelay, for every set of shells and agents, every     *)
(* number of switches, edits and interrupts.                               *)
(*                                                                         *)
(* IInv is the inductive invariant.  It follows the two things a switch    *)
(* must not lose: Landed says of every package that is, or may yet be,     *)
(* launched that its block has reached the file of its agent; AtHome says  *)
(* where each line of the user is while switches hold copies of the text.  *)
(***************************************************************************)
EXTENDS SwitchRelay, FiniteSetTheorems, SequenceTheorems, WellFoundedInduction, TLAPS

-----------------------------------------------------------------------------
(* The inductive invariant *)

Stages == {"none", "saved", "absent", "creating", "made", "read", "truncated", "injected",
           "marking", "killed"}
Switches == [at : Stages, target : Agents \cup {None}, pkg : 0 .. MaxSwitches,
             copy : Seq(Parts), inode : Nat]

\* An agent runs where one is, and a switch where something else does not.
TerminalsOK ==
    /\ inTmux \in Layouts
    /\ at \in [Terminals -> {"off", "idle", "prompt", "tested", "read", "busy", "agent"}]
    /\ running \in [Terminals -> Agents \cup {None}]
    /\ \A t \in Terminals : running[t] # None <=> at[t] = "agent"

\* A switch under way has a target and a package.
SwitchesOK ==
    /\ sw \in [Terminals -> Switches]
    /\ \A t \in Terminals : sw[t].pkg <= packages /\ sw[t].inode <= inodes
    /\ \A t \in Terminals : sw[t].at # "none" =>
          at[t] \in {"busy", "agent"} /\ sw[t].target \in Agents /\ sw[t].pkg \in Packages

RelayOK == /\ seen \in [Terminals -> Commands]
           /\ marker # None => /\ marker \in [inode : Nat, cmd : Commands]
                               /\ marker.inode \in 1 .. inodes
           /\ inodes \in Nat /\ packages \in 0 .. MaxSwitches
           /\ text \in [Agents -> Seq(Parts)] /\ files \subseteq Agents

UserOK == /\ edits \in 0 .. MaxEdits /\ kills \in 0 .. MaxKills
          /\ torn \subseteq Agents /\ mixed \subseteq Agents
          /\ atRisk \subseteq 1 .. edits /\ superseded \subseteq Packages
          /\ \A t \in Terminals : Ids(sw[t].copy, "line") \subseteq 1 .. edits
          /\ \A a \in Agents : Ids(text[a], "line") \subseteq 1 .. edits

Types == TerminalsOK /\ SwitchesOK /\ RelayOK /\ UserOK

\* Each package may still create one marker file.
Unmarked == {t \in Terminals : sw[t].at \in {"saved", "absent", "creating", "made", "read",
                                             "truncated", "injected"}}
Markers == inodes + Cardinality(Unmarked) <= packages

\* Files have a block at most and copies none, unless a switch has written over a block.
AtMostOne(s) == \A i, j \in DOMAIN s : s[i].kind = "block" /\ s[j].kind = "block" => i = j
Blocks == /\ \A a \in Agents \ mixed : AtMostOne(text[a])
          /\ \A t \in Terminals : sw[t].target \notin mixed => Ids(sw[t].copy, "block") = {}

\* The block of package p has been in the file of a, and some block is there now,
\* unless a switch is writing it or has died over it.
Reached(p, a) == /\ p \in Ids(text[a], "block") \/ p \in superseded
                 /\ Ids(text[a], "block") # {} \/ Rewriting(a) # {} \/ a \in torn
Launches(cmd) == cmd \notin {Blank, Garbled} => Reached(cmd.pkg, cmd.target)
Landed == /\ \A t \in Terminals : sw[t].at \in {"injected", "marking", "killed"} =>
                                      Reached(sw[t].pkg, sw[t].target)
          /\ \A t \in Terminals : Launches(seen[t])
          /\ marker # None => Launches(marker.cmd)

\* Every line is in its file or about to be written to it, and is in each copy
\* that has been read from there; and nobody takes that file for missing.
AtHome(e, a) == /\ a # Brief /\ a \in files
                /\ \A t \in Terminals : sw[t].at \in {"absent", "creating"} => sw[t].target # a
                /\ e \in Ids(text[a], "line") \/ Rewriting(a) # {}
                /\ \A t \in Terminals : sw[t].at \in {"read", "truncated"} /\ sw[t].target = a =>
                                           e \in Ids(sw[t].copy, "line")
Lines == \A e \in (1 .. edits) \ atRisk : \E a \in Agents : AtHome(e, a)

IInv == Types /\ Markers /\ Blocks /\ Landed /\ Lines /\ BootsWithContext

-----------------------------------------------------------------------------
(* Lemmas on the parts of an instruction file *)

LEMMA IdsOfEmpty == ASSUME NEW k PROVE Ids(<<>>, k) = {}
  BY DEF Ids

LEMMA IdsOfAppend ==
    ASSUME NEW s \in Seq(Parts), NEW e \in Parts, NEW k
    PROVE  /\ Append(s, e) \in Seq(Parts)
           /\ Ids(Append(s, e), k) = Ids(s, k) \cup (IF e.kind = k THEN {e.id} ELSE {})
  <1>1. /\ Append(s, e) \in Seq(Parts) /\ Len(s) \in Nat
        /\ DOMAIN s = 1 .. Len(s) /\ DOMAIN Append(s, e) = 1 .. Len(s) + 1
        /\ \A i \in 1 .. Len(s) : Append(s, e)[i] = s[i]
        /\ Append(s, e)[Len(s) + 1] = e
    BY AppendProperties, LenProperties
  <1> DEFINE new == Append(s, e)
             n == Len(s)
  <1> HIDE DEF new, n
  <1>2. /\ n \in Nat /\ DOMAIN s = 1 .. n /\ DOMAIN new = 1 .. n + 1
        /\ \A i \in 1 .. n : new[i] = s[i]
        /\ new[n + 1] = e
    BY <1>1 DEF new, n
  <1>3. \A x \in Ids(new, k) : x \in Ids(s, k) \cup (IF e.kind = k THEN {e.id} ELSE {})
    BY <1>2 DEF Ids
  <1>4. \A x \in Ids(s, k) \cup (IF e.kind = k THEN {e.id} ELSE {}) : x \in Ids(new, k)
    BY <1>2 DEF Ids
  <1> QED  BY <1>1, <1>3, <1>4 DEF new

\* The parts of what is written over the beginning of something else.
LEMMA IdsOfJoin ==
    ASSUME NEW s \in Seq(Parts), NEW v \in Seq(Parts), NEW k
    PROVE  /\ s \o v \in Seq(Parts)
           /\ Ids(s \o v, k) = Ids(s, k) \cup Ids(v, k)
  <1> DEFINE new == s \o v
             n == Len(s)
             m == Len(v)
  <1>1. /\ new \in Seq(Parts) /\ n \in Nat /\ m \in Nat
        /\ DOMAIN s = 1 .. n /\ DOMAIN v = 1 .. m /\ DOMAIN new = 1 .. n + m
        /\ \A i \in 1 .. n + m : new[i] = IF i <= n THEN s[i] ELSE v[i - n]
    BY ConcatProperties, LenProperties
  <1> HIDE DEF new, n, m
  <1>2. \A x \in Ids(new, k) : x \in Ids(s, k) \cup Ids(v, k)
    <2>1. \A i \in 1 .. n + m : i <= n => i \in 1 .. n  BY <1>1
    <2>2. \A i \in 1 .. n + m : ~(i <= n) => i - n \in 1 .. m  BY <1>1
    <2> QED  BY <1>1, <2>1, <2>2 DEF Ids
  <1>3. \A x \in Ids(s, k) : x \in Ids(new, k)
    BY <1>1 DEF Ids
  <1>4. \A x \in Ids(v, k) : x \in Ids(new, k)
    <2>1. \A j \in 1 .. m : n + j \in 1 .. n + m /\ ~(n + j <= n) /\ (n + j) - n = j
      BY <1>1
    <2>2. \A j \in 1 .. m : new[n + j] = v[j]  BY <1>1, <2>1
    <2> SUFFICES ASSUME NEW j \in 1 .. m, v[j].kind = k PROVE v[j].id \in Ids(new, k)
      BY <1>1 DEF Ids
    <2>3. n + j \in DOMAIN new /\ new[n + j] = v[j]  BY <1>1, <2>1, <2>2
    <2> QED  BY <2>3 DEF Ids
  <1> QED  BY <1>1, <1>2, <1>3, <1>4 DEF new

\* What stays when the beginning has been written over.
LEMMA RestOfText ==
    ASSUME NEW s \in Seq(Parts), NEW i \in 1 .. Len(s) + 1
    PROVE  LET rest == SubSeq(s, i, Len(s))
           IN  /\ rest \in Seq(Parts)
               /\ \A k : Ids(rest, k) \subseteq Ids(s, k)
               /\ AtMostOne(s) => AtMostOne(rest)
  <1> DEFINE n == Len(s)
             rest == SubSeq(s, i, n)
  <1>1. n \in Nat /\ DOMAIN s = 1 .. n  BY LenProperties
  <1>2. /\ rest \in Seq(Parts) /\ Len(rest) = n - i + 1
        /\ \A j \in 1 .. n - i + 1 : rest[j] = s[i + j - 1]
    <2>1. n \in i - 1 .. n  BY <1>1
    <2> QED  BY <2>1, SubSeqProperties
  <1> HIDE DEF n, rest
  <1>3. DOMAIN rest = 1 .. n - i + 1  BY <1>2, LenProperties
  <1>4. i \in 1 .. n + 1  BY DEF n
  <1>5. \A j \in DOMAIN rest : i + j - 1 \in DOMAIN s /\ rest[j] = s[i + j - 1]
    BY <1>1, <1>2, <1>3, <1>4
  <1>6. \A k : Ids(rest, k) \subseteq Ids(s, k)
    BY <1>5 DEF Ids
  <1>7. ASSUME AtMostOne(s) PROVE AtMostOne(rest)
    <2> SUFFICES ASSUME NEW j \in DOMAIN rest, NEW k \in DOMAIN rest,
                        rest[j].kind = "block", rest[k].kind = "block"
                 PROVE  j = k
      BY DEF AtMostOne
    <2>1. i + j - 1 = i + k - 1  BY <1>5, <1>7 DEF AtMostOne
    <2> QED  BY <1>1, <1>3, <1>4, <2>1
  <1> QED  BY <1>2, <1>6, <1>7 DEF n, rest

\* Joining keeps one block at most, if what is behind has none.
LEMMA JoinKeepsOne ==
    ASSUME NEW s \in Seq(Parts), NEW v \in Seq(Parts), AtMostOne(s), Ids(v, "block") = {}
    PROVE  AtMostOne(s \o v)
  <1> DEFINE new == s \o v
             n == Len(s)
             m == Len(v)
  <1>1. /\ new \in Seq(Parts) /\ n \in Nat /\ m \in Nat
        /\ DOMAIN s = 1 .. n /\ DOMAIN v = 1 .. m /\ DOMAIN new = 1 .. n + m
        /\ \A i \in 1 .. n + m : new[i] = IF i <= n THEN s[i] ELSE v[i - n]
    BY ConcatProperties, LenProperties
  <1> HIDE DEF new, n, m
  <1>2. \A j \in 1 .. m : v[j].kind # "block"  BY <1>1 DEF Ids
  <1>3. \A i \in DOMAIN new : new[i].kind = "block" => i \in DOMAIN s /\ new[i] = s[i]
    <2> SUFFICES ASSUME NEW i \in 1 .. n + m, new[i].kind = "block"
                 PROVE  i \in 1 .. n /\ new[i] = s[i]
      BY <1>1
    <2>1. ~(i <= n) => i - n \in 1 .. m /\ new[i] = v[i - n]  BY <1>1
    <2>2. i <= n  BY <1>2, <2>1
    <2> QED  BY <1>1, <2>2
  <1>4. AtMostOne(new)  BY <1>3 DEF AtMostOne
  <1> QED  BY <1>4 DEF new

\* Appending a line, or the only block, keeps one block at most.
LEMMA AppendKeepsOne ==
    ASSUME NEW s \in Seq(Parts), NEW e \in Parts,
           \/ AtMostOne(s) /\ e.kind = "line"
           \/ Ids(s, "block") = {}
    PROVE  AtMostOne(Append(s, e))
  <1>1. /\ Len(s) \in Nat
        /\ DOMAIN s = 1 .. Len(s) /\ DOMAIN Append(s, e) = 1 .. Len(s) + 1
        /\ \A i \in 1 .. Len(s) : Append(s, e)[i] = s[i]
        /\ Append(s, e)[Len(s) + 1] = e
    BY AppendProperties, LenProperties
  <1>2. CASE AtMostOne(s) /\ e.kind = "line"
    BY <1>1, <1>2 DEF AtMostOne
  <1>3. CASE Ids(s, "block") = {}
    <2>1. \A i \in DOMAIN s : s[i].kind # "block"  BY <1>3 DEF Ids
    <2> QED  BY <1>1, <2>1 DEF AtMostOne
  <1> QED  BY <1>2, <1>3

LEMMA OneBlockId ==
    ASSUME NEW s, AtMostOne(s)
    PROVE  Cardinality(Ids(s, "block")) <= 1
  <1>1. CASE Ids(s, "block") = {}
    BY <1>1, FS_EmptySet
  <1>2. CASE Ids(s, "block") # {}
    <2>1. PICK x \in Ids(s, "block") : TRUE  BY <1>2
    <2>2. Ids(s, "block") = {x}  BY <2>1 DEF Ids, AtMostOne
    <2>3. Cardinality({x}) = 1  BY FS_Singleton
    <2> QED  BY <2>2, <2>3
  <1> QED  BY <1>1, <1>2

\* A set of numbers has a least one.
LEMMA LeastIndex ==
    ASSUME NEW T \in SUBSET Nat, T # {}
    PROVE  \E x \in T : \A y \in T : x <= y
  <1> DEFINE R == {ss \in Nat \X Nat : ss[1] < ss[2]}
  <1>1. IsWellFoundedOn(R, Nat)
    BY NatLessThanWellFounded DEF OpToRel
  <1>2. \A x, y \in Nat : y < x => <<y, x>> \in R  OBVIOUS
  <1> HIDE DEF R
  <1>3. PICK x \in T : \A y \in T : <<y, x>> \notin R  BY <1>1, WFMin
  <1>4. \A y \in T : ~(y < x)  BY <1>2, <1>3
  <1> QED  BY <1>4

\* Where FirstBlock is.
LEMMA FirstBlockIs ==
    ASSUME NEW s \in Seq(Parts)
    PROVE  \/ FirstBlock(s) = 0 /\ \A i \in DOMAIN s : s[i].kind # "block"
           \/ FirstBlock(s) \in DOMAIN s /\ s[FirstBlock(s)].kind = "block"
  <1> DEFINE I == {i \in 1 .. Len(s) : s[i].kind = "block"}
  <1>0. DOMAIN s = 1 .. Len(s) /\ Len(s) \in Nat  BY LenProperties
  <1>1. FirstBlock(s) = IF I # {} THEN Min(I) ELSE 0
    BY DEF FirstBlock, SelectInSeq
  <1>2. CASE I = {}
    BY <1>0, <1>1, <1>2
  <1>3. CASE I # {}
    <2>1. I \in SUBSET Nat  BY <1>0
    <2> HIDE DEF I
    <2>2. \E x \in I : \A y \in I : x <= y  BY <1>3, <2>1, LeastIndex
    <2>3. Min(I) \in I  BY <2>2 DEF Min
    <2> QED  BY <1>0, <1>1, <1>3, <2>3 DEF I
  <1> QED  BY <1>2, <1>3

\* Taking out the first block leaves the lines and, if it was the only one, no block.
LEMMA WithoutBlockKeepsLines ==
    ASSUME NEW s \in Seq(Parts)
    PROVE  /\ WithoutBlock(s) \in Seq(Parts)
           /\ AtMostOne(s) => Ids(WithoutBlock(s), "block") = {}
           /\ Ids(WithoutBlock(s), "line") = Ids(s, "line")
  <1> DEFINE b == FirstBlock(s)
             n == Len(s)
             new == WithoutBlock(s)
  <1>0. DOMAIN s = 1 .. n /\ n \in Nat /\ \A i \in DOMAIN s : s[i] \in Parts
    BY LenProperties, ElementOfSeq
  <1>1. CASE b = 0 /\ \A i \in DOMAIN s : s[i].kind # "block"
    <2>1. WithoutBlock(s) = s  BY <1>1 DEF WithoutBlock
    <2>2. Ids(s, "block") = {}  BY <1>1 DEF Ids
    <2> QED  BY <2>1, <2>2
  <1>2. CASE b \in DOMAIN s /\ s[b].kind = "block"
    <2> DEFINE u == SubSeq(s, 1, b - 1)
               v == SubSeq(s, b + 1, n)
    <2>1. b \in 1 .. n  BY <1>0, <1>2
    <2>2. new = u \o v
      <3>1. b # 0  BY <1>0, <2>1
      <3> QED  BY <3>1 DEF WithoutBlock, RemoveAt
    <2>3. /\ u \in Seq(Parts) /\ Len(u) = b - 1
          /\ \A i \in 1 .. b - 1 : u[i] = s[i]
      BY <1>0, <2>1, SubSeqProperties
    <2>4. /\ v \in Seq(Parts) /\ Len(v) = n - b
          /\ \A i \in 1 .. n - b : v[i] = s[b + i]
      <3>1. b + 1 \in 1 .. n + 1 /\ n \in (b + 1) - 1 .. n  BY <1>0, <2>1
      <3>2. /\ v \in Seq(Parts) /\ Len(v) = n - (b + 1) + 1
            /\ \A i \in 1 .. n - (b + 1) + 1 : v[i] = s[(b + 1) + i - 1]
        BY <3>1, SubSeqProperties
      <3> HIDE DEF b, n, v
      <3>3. b \in Nat /\ n \in Nat  BY <1>0, <2>1
      <3> QED  BY <3>2, <3>3
    <2> HIDE DEF b, n, u, v
    <2>5. /\ new \in Seq(Parts) /\ Len(new) = n - 1
          /\ \A i \in 1 .. n - 1 : new[i] = IF i < b THEN s[i] ELSE s[i + 1]
      BY <1>0, <2>1, <2>2, <2>3, <2>4, ConcatProperties
    <2>6. DOMAIN new = 1 .. n - 1  BY <2>5, LenProperties
    <2> HIDE DEF new
    <2>8. \A i \in DOMAIN new : \E j \in DOMAIN s : j # b /\ new[i] = s[j]
      BY <1>0, <2>1, <2>5, <2>6
    <2>9. \A j \in DOMAIN s : j # b => \E i \in DOMAIN new : new[i] = s[j]
      <3> SUFFICES ASSUME NEW j \in 1 .. n, j # b PROVE \E i \in 1 .. n - 1 : new[i] = s[j]
        BY <1>0, <2>6
      <3>1. CASE j < b  BY <1>0, <2>1, <2>5, <3>1
      <3>2. CASE j > b
        <4>1. j - 1 \in 1 .. n - 1 /\ ~(j - 1 < b) /\ (j - 1) + 1 = j  BY <1>0, <2>1, <3>2
        <4> QED  BY <2>5, <4>1
      <3> QED  BY <1>0, <2>1, <3>1, <3>2
    <2>10. ASSUME AtMostOne(s) PROVE Ids(new, "block") = {}
      <3>1. \A i \in DOMAIN s : s[i].kind = "block" => i = b  BY <1>2, <2>10 DEF AtMostOne
      <3> QED  BY <2>8, <3>1 DEF Ids
    <2>11. \A x \in Ids(new, "line") : x \in Ids(s, "line")  BY <2>8 DEF Ids
    <2>12. \A x \in Ids(s, "line") : x \in Ids(new, "line")
      <3>1. s[b].kind # "line"  BY <1>2
      <3> QED  BY <2>9, <3>1 DEF Ids
    <2> QED  BY <2>5, <2>10, <2>11, <2>12 DEF new
  <1> QED  BY <1>1, <1>2, FirstBlockIs

-----------------------------------------------------------------------------
(* The invariant holds in the beginning *)

LEMMA Bounds == MaxSwitches \in Nat /\ MaxEdits \in Nat /\ MaxKills \in Nat
  <1>1. {MaxSwitches, MaxEdits, MaxKills} \subseteq Nat
    BY RelayAssumption DEF RelayAssumption
  <1> QED  BY <1>1

LEMMA TerminalsFinite == IsFiniteSet(Terminals)
  <1>1. IsFiniteSet(1 .. MaxSwitches)  BY Bounds, FS_Interval
  <1> QED  BY <1>1, FS_Union, RelayAssumption DEF RelayAssumption, Terminals, Windows, Packages

LEMMA UnmarkedFinite == IsFiniteSet(Unmarked) /\ Cardinality(Unmarked) \in Nat
  BY TerminalsFinite, FS_Subset, FS_CardinalityType DEF Unmarked

LEMMA EmptyCopy == <<>> \in Seq(Parts) /\ NoSwitch \in Switches
  BY Bounds DEF NoSwitch, Switches, Stages

LEMMA LineIsPart == ASSUME NEW n \in 1 .. MaxEdits
                    PROVE  Line(n) \in Parts /\ Line(n).kind = "line" /\ Line(n).id = n
  BY DEF Line, Parts

LEMMA BlockIsPart == ASSUME NEW p \in Packages
                     PROVE  Block(p) \in Parts /\ Block(p).kind = "block" /\ Block(p).id = p
  BY DEF Block, Parts

LEMMA InitInv == Init => IInv
  <1> SUFFICES ASSUME Init PROVE IInv  OBVIOUS
  <1> USE DEF Init
  <1>1. Types
    <2>1. NoSwitch \in Switches /\ NoSwitch.at = "none" /\ NoSwitch.copy = <<>>
          /\ NoSwitch.pkg = 0 /\ NoSwitch.target = None /\ NoSwitch.inode = 0
      BY EmptyCopy DEF NoSwitch
    <2>2. Shells \cap Windows = {}
      BY Bounds, RelayAssumption DEF RelayAssumption, Windows, Packages
    <2>3. TerminalsOK  BY <2>2, RelayAssumption DEF RelayAssumption, TerminalsOK, Terminals
    <2>4. SwitchesOK  BY <2>1, Bounds DEF SwitchesOK
    <2>5. RelayOK  BY EmptyCopy, Bounds DEF RelayOK, Commands
    <2>6. UserOK  BY <2>1, Bounds, IdsOfEmpty DEF UserOK
    <2> QED  BY <2>3, <2>4, <2>5, <2>6 DEF Types
  <1>2. Markers
    <2>1. Unmarked = {}  BY DEF Unmarked, NoSwitch
    <2> QED  BY <2>1, FS_EmptySet DEF Markers
  <1>3. Blocks
    BY IdsOfEmpty DEF Blocks, AtMostOne, NoSwitch
  <1>4. Landed
    BY DEF Landed, Launches, NoSwitch
  <1>5. Lines /\ BootsWithContext
    BY DEF Lines, BootsWithContext
  <1> QED  BY <1>1, <1>2, <1>3, <1>4, <1>5 DEF IInv

-----------------------------------------------------------------------------
(* Every step keeps it: the steps of a switch *)

\* The commands that start something have a package and an agent.
LEMMA CommandFields == ASSUME NEW cmd \in Commands, cmd \notin {Blank, Garbled}
                       PROVE  cmd.pkg \in Packages /\ cmd.target \in Agents
  BY DEF Commands

\* What has landed stays so while text, switches and history say so.
LEMMA LandedStays ==
    ASSUME Types, Landed,
           \A p \in Packages, a \in Agents : Reached(p, a) => Reached(p, a)',
           \A t \in Terminals : sw'[t].at \in {"injected", "marking", "killed"} =>
                \/ /\ sw[t].at \in {"injected", "marking", "killed"}
                   /\ sw'[t].pkg = sw[t].pkg /\ sw'[t].target = sw[t].target
                \/ Reached(sw[t].pkg, sw[t].target)',
           \A t \in Terminals : seen'[t] \in {Blank, seen[t]} \/ Launches(seen[t])',
           marker' # None => \/ marker # None /\ marker'.cmd \in {Blank, Garbled, marker.cmd}
                             \/ Launches(marker.cmd)'
    PROVE  Landed'
  <1>1. ASSUME NEW t \in Terminals, sw'[t].at \in {"injected", "marking", "killed"},
               sw[t].at \in {"injected", "marking", "killed"},
               sw'[t].pkg = sw[t].pkg, sw'[t].target = sw[t].target
        PROVE  Reached(sw[t].pkg, sw[t].target)'
    <2>1. /\ sw[t].pkg \in Packages /\ sw[t].target \in Agents
          /\ Reached(sw[t].pkg, sw[t].target)
      BY <1>1 DEF Landed, Types, SwitchesOK
    <2> QED  BY <1>1, <2>1 DEF Reached
  <1>2. \A t \in Terminals : Launches(seen[t])'
    <2> SUFFICES ASSUME NEW t \in Terminals, seen'[t] \notin {Blank, Garbled},
                        seen'[t] = seen[t]
                 PROVE  Reached(seen[t].pkg, seen[t].target)'
      BY DEF Launches
    <2>1. seen[t] \in Commands /\ Launches(seen[t])
      BY DEF Landed, Types, RelayOK
    <2>2. /\ seen[t].pkg \in Packages /\ seen[t].target \in Agents
          /\ Reached(seen[t].pkg, seen[t].target)
      BY <2>1, CommandFields DEF Launches
    <2> QED  BY <2>1, <2>2 DEF Reached
  <1>3. ASSUME marker' # None PROVE Launches(marker.cmd)'
    <2> SUFFICES ASSUME marker'.cmd \notin {Blank, Garbled}, marker # None,
                        marker'.cmd = marker.cmd
                 PROVE  Reached(marker.cmd.pkg, marker.cmd.target)'
      BY <1>3 DEF Launches
    <2>1. marker.cmd \in Commands /\ Launches(marker.cmd)
      BY DEF Landed, Types, RelayOK
    <2>2. /\ marker.cmd.pkg \in Packages /\ marker.cmd.target \in Agents
          /\ Reached(marker.cmd.pkg, marker.cmd.target)
      BY <2>1, CommandFields DEF Launches
    <2> QED  BY <2>1, <2>2 DEF Reached
  <1>4. \A t \in Terminals : sw'[t].at \in {"injected", "marking", "killed"} =>
                                Reached(sw[t].pkg, sw[t].target)'
    BY <1>1
  <1> QED  BY <1>2, <1>3, <1>4 DEF Landed

\* What an agent finds that is started for a package whose block has landed.
LEMMA FoundHasContext ==
    ASSUME NEW p, NEW a, NEW by, NEW t, Reached(p, a)
    PROVE  LET b == Found(p, a, by, t)
           IN  /\ b.pkg \in b.blocks \/ b.pkg \in superseded
               /\ b.blocks # {} \/ b.broken
  BY DEF Reached, Found

\* What is left when some switches have stopped, or gone on to open their window.
LEMMA OthersStop ==
    ASSUME IInv, sw' \in [Terminals -> Switches],
           \A u \in Terminals :
              \/ sw'[u] = sw[u]
              \/ sw'[u] = NoSwitch
              \/ /\ sw[u].at = "injected" /\ sw'[u].at = "killed"
                 /\ sw'[u].copy = sw[u].copy /\ sw'[u].target = sw[u].target,
           \A u \in Terminals : sw[u].at = "truncated" /\ sw'[u] # sw[u] =>
              sw[u].target \in torn' /\ Ids(sw[u].copy, "line") \subseteq atRisk',
           torn \subseteq torn', atRisk \subseteq atRisk',
           UNCHANGED <<inodes, text, files, packages, edits, superseded, mixed>>
    PROVE  /\ Markers' /\ Blocks' /\ Lines'
           /\ \A p \in Packages, a \in Agents : Reached(p, a) => Reached(p, a)'
  <1> USE DEF IInv
  <1>0. NoSwitch.at = "none" /\ NoSwitch.copy = <<>> /\ NoSwitch.target = None /\ sw \in [Terminals -> Switches]
    BY DEF NoSwitch, Types, SwitchesOK
  <1>1. Markers'
    <2>1. Unmarked' \subseteq Unmarked  BY <1>0 DEF Unmarked
    <2>2. Cardinality(Unmarked') <= Cardinality(Unmarked) /\ Cardinality(Unmarked') \in Nat
      BY <2>1, UnmarkedFinite, FS_Subset, FS_CardinalityType
    <2>3. inodes \in Nat /\ packages \in Nat  BY DEF Types, RelayOK
    <2> QED  BY <2>2, <2>3, UnmarkedFinite DEF Markers
  <1>2. Blocks'
    <2>1. \A u \in Terminals : \/ sw'[u].copy = <<>>
                               \/ sw'[u].copy = sw[u].copy /\ sw'[u].target = sw[u].target
      BY <1>0
    <2> QED  BY <2>1, IdsOfEmpty DEF Blocks
  <1>3. \A a \in Agents : Rewriting(a) \ Rewriting(a)' # {} => a \in torn'
    BY <1>0 DEF Rewriting
  <1>4. \A a \in Agents : Rewriting(a)' \subseteq Rewriting(a)
    BY <1>0 DEF Rewriting
  <1>5. Lines'
    <2> SUFFICES ASSUME NEW e \in (1 .. edits) \ atRisk', NEW a \in Agents, AtHome(e, a)
                 PROVE  AtHome(e, a)'
      BY DEF Lines
    <2>1. e \in Ids(text'[a], "line") \/ Rewriting(a)' # {}
      <3>1. CASE Rewriting(a) = {}  BY <3>1 DEF AtHome
      <3>2. CASE Rewriting(a) # {}
        <4>1. PICK u \in Rewriting(a) : TRUE  BY <3>2
        <4>2. e \in Ids(sw[u].copy, "line")  BY <4>1 DEF AtHome, Rewriting
        <4>3. sw'[u] = sw[u]  BY <4>1, <4>2 DEF Rewriting
        <4> QED  BY <4>1, <4>3 DEF Rewriting
      <3> QED  BY <3>1, <3>2
    <2> QED  BY <1>0, <2>1 DEF AtHome
  <1>6. ASSUME NEW p \in Packages, NEW a \in Agents, Reached(p, a) PROVE Reached(p, a)'
    BY <1>3, <1>4, <1>6 DEF Reached
  <1> QED  BY <1>1, <1>2, <1>5, <1>6

LEMMA BeginInv == ASSUME IInv, NEW t \in Terminals, NEW a \in Agents, Begin(t, a)
                  PROVE  IInv'
  <1> USE DEF IInv, Begin, relay, user, history
  <1> DEFINE new == [NoSwitch EXCEPT !.at = "saved", !.target = a, !.pkg = packages + 1]
  <1>1. /\ new \in Switches /\ new.at = "saved" /\ new.target = a /\ new.pkg = packages + 1
        /\ new.copy = <<>> /\ new.inode = 0
    <2>1. packages + 1 \in 0 .. MaxSwitches  BY Bounds DEF Types, RelayOK
    <2> QED  BY <2>1, EmptyCopy DEF NoSwitch, Switches, Stages
  <1>2. /\ sw' = [sw EXCEPT ![t] = new] /\ sw \in [Terminals -> Switches]
        /\ packages' \in Packages /\ packages \in Nat /\ inodes \in Nat
    BY Bounds DEF Types, SwitchesOK, RelayOK, Packages
  <1> HIDE DEF new
  <1>3. Types'
    <2>1. TerminalsOK'  BY DEF Types, TerminalsOK
    <2>2. SwitchesOK'
      <3>1. \A u \in Terminals : sw[u].pkg \in Nat /\ sw[u].inode \in Nat
        BY Bounds DEF Types, SwitchesOK, Switches
      <3>2. sw' \in [Terminals -> Switches]  BY <1>1, <1>2
      <3>3. \A u \in Terminals : sw'[u].pkg <= packages' /\ sw'[u].inode <= inodes'
        <4>1. packages' = packages + 1 /\ inodes' = inodes  OBVIOUS
        <4>2. sw'[t] = new /\ \A u \in Terminals \ {t} : sw'[u] = sw[u]  BY <1>2
        <4>3. \A u \in Terminals : sw[u].pkg <= packages /\ sw[u].inode <= inodes
          BY DEF Types, SwitchesOK
        <4> HIDE DEF IInv, Begin
        <4> QED  BY <1>1, <1>2, <3>1, <4>1, <4>2, <4>3
      <3>4. \A u \in Terminals : sw'[u].at # "none" => at'[u] \in {"busy", "agent"}
        BY <1>2 DEF Types, SwitchesOK, TerminalsOK
      <3> QED  BY <1>1, <1>2, <3>2, <3>3, <3>4 DEF Types, SwitchesOK
    <2>3. RelayOK'  BY <1>2, Bounds DEF Types, RelayOK, Packages
    <2>4. UserOK'  BY <1>1, <1>2, IdsOfEmpty DEF Types, UserOK
    <2> QED  BY <2>1, <2>2, <2>3, <2>4 DEF Types
  <1>4. Markers'
    <2>1. Unmarked' = Unmarked \cup {t}  BY <1>1, <1>2 DEF Unmarked
    <2>2. Cardinality(Unmarked') \in {Cardinality(Unmarked), Cardinality(Unmarked) + 1}
      BY <2>1, UnmarkedFinite, FS_AddElement
    <2> QED  BY <1>2, <2>2, UnmarkedFinite DEF Markers
  <1>5. Blocks'
    BY <1>1, <1>2, IdsOfEmpty DEF Blocks
  <1>6. \A b \in Agents : Rewriting(b)' = Rewriting(b)
    BY <1>1, <1>2 DEF Rewriting
  <1>7. Landed'
    <2>1. \A p \in Packages, b \in Agents : Reached(p, b) => Reached(p, b)'
      BY <1>6 DEF Reached
    <2> QED  BY <1>1, <1>2, <2>1, LandedStays
  <1>8. Lines'
    BY <1>1, <1>2, <1>6 DEF Lines, AtHome
  <1>9. BootsWithContext'  BY DEF BootsWithContext
  <1> QED  BY <1>3, <1>4, <1>5, <1>7, <1>8, <1>9

\* A step of the switch in t that moves it from one stage to another one: what the
\* switch is replaced by, and what the others keep.
LEMMA MovesOn ==
    ASSUME Types, NEW t \in Terminals, NEW to \in Stages,
           sw' = [sw EXCEPT ![t].at = to]
    PROVE  /\ sw' \in [Terminals -> Switches]
           /\ sw'[t].at = to /\ sw'[t].target = sw[t].target /\ sw'[t].pkg = sw[t].pkg
           /\ sw'[t].copy = sw[t].copy /\ sw'[t].inode = sw[t].inode
           /\ \A u \in Terminals \ {t} : sw'[u] = sw[u]
  BY DEF Types, SwitchesOK, Switches

LEMMA BlocksArePackages == ASSUME NEW s \in Seq(Parts) PROVE Ids(s, "block") \subseteq Packages
  <1>1. \A i \in DOMAIN s : s[i] \in Parts  BY ElementOfSeq
  <1> QED  BY <1>1 DEF Ids, Parts

LEMMA MissInv == ASSUME IInv, NEW t \in Terminals, Miss(t)
                 PROVE  IInv'
  <1> USE DEF IInv, Miss, Step, relay, user, history
  <1> DEFINE a == sw[t].target
  <1>1. a \in Agents /\ a \notin files /\ sw[t].pkg \in Packages /\ at[t] \in {"busy", "agent"}
    BY DEF Types, SwitchesOK
  <1>2. /\ sw' \in [Terminals -> Switches]
        /\ sw'[t].at = "absent" /\ sw'[t].target = a /\ sw'[t].pkg = sw[t].pkg
        /\ sw'[t].copy = sw[t].copy /\ sw'[t].inode = sw[t].inode
        /\ \A u \in Terminals \ {t} : sw'[u] = sw[u]
    BY MovesOn DEF Stages
  <1>3. \A b \in Agents : Rewriting(b)' = Rewriting(b)
    BY <1>2 DEF Rewriting
  <1>4. Types'
    <2>1. TerminalsOK'  BY DEF Types, TerminalsOK
    <2>2. SwitchesOK'  BY <1>1, <1>2 DEF Types, SwitchesOK
    <2>3. RelayOK'  BY DEF Types, RelayOK
    <2>4. UserOK'  BY <1>2 DEF Types, UserOK
    <2> QED  BY <2>1, <2>2, <2>3, <2>4 DEF Types
  <1>5. Markers'
    <2>1. Unmarked' = Unmarked  BY <1>1, <1>2 DEF Unmarked
    <2> QED  BY <2>1 DEF Markers
  <1>6. Blocks'  BY <1>2 DEF Blocks
  <1>7. Landed'
    <2>1. \A p \in Packages, b \in Agents : Reached(p, b) => Reached(p, b)'
      BY <1>3 DEF Reached
    <2> QED  BY <1>2, <2>1, LandedStays
  \* No line is at home in a file that is missing.
  <1>8. Lines'
    <2> SUFFICES ASSUME NEW e \in (1 .. edits) \ atRisk, NEW b \in Agents, AtHome(e, b)
                 PROVE  AtHome(e, b)'
      BY DEF Lines
    <2>1. b # a  BY <1>1 DEF AtHome
    <2> QED  BY <1>2, <1>3, <2>1 DEF AtHome
  <1>9. BootsWithContext'  BY DEF BootsWithContext
  <1> QED  BY <1>4, <1>5, <1>6, <1>7, <1>8, <1>9

\* A switch that creates a file leaves in it the rest of what was there, or nothing: no
\* block is lost unrecorded, and no line that was at home there.
LEMMA Recreates ==
    ASSUME IInv, NEW t \in Terminals, NEW a, a = sw[t].target,
           NEW rest \in Seq(Parts), NEW to \in Stages,
           \/ sw[t].at = "absent" /\ to = "creating"
           \/ sw[t].at = "creating" /\ to = "made",
           sw' = [sw EXCEPT ![t].at = to],
           text' = [text EXCEPT ![a] = rest],
           \A k : Ids(rest, k) \subseteq Ids(text[a], k),
           AtMostOne(text[a]) => AtMostOne(rest),
           superseded' = superseded \cup (Ids(text[a], "block") \ Ids(rest, "block")),
           torn \subseteq torn', torn' \subseteq torn \cup {a},
           Ids(rest, "block") = {} => a \in torn',
           files \subseteq files', files' \subseteq files \cup {a},
           UNCHANGED <<at, running, seen, marker, inodes, packages,
                       inTmux, edits, kills, atRisk, mixed, booted>>
    PROVE  IInv'
  <1> USE DEF IInv
  <1>1. /\ a \in Agents /\ sw[t].pkg \in Packages /\ at[t] \in {"busy", "agent"}
        /\ text \in [Agents -> Seq(Parts)]
    BY DEF Types, SwitchesOK, RelayOK
  <1>2. /\ sw' \in [Terminals -> Switches]
        /\ sw'[t].at = to /\ sw'[t].target = a /\ sw'[t].pkg = sw[t].pkg
        /\ sw'[t].copy = sw[t].copy /\ sw'[t].inode = sw[t].inode
        /\ \A u \in Terminals \ {t} : sw'[u] = sw[u]
    BY MovesOn
  <1>3. text'[a] = rest /\ \A b \in Agents \ {a} : text'[b] = text[b]
    BY <1>1
  <1>4. \A b \in Agents : Rewriting(b)' = Rewriting(b)
    BY <1>2 DEF Rewriting
  <1>5. Types'
    <2>1. TerminalsOK'  BY DEF Types, TerminalsOK
    <2>2. SwitchesOK'  BY <1>1, <1>2 DEF Types, SwitchesOK
    <2>3. RelayOK'  BY <1>1, <1>3 DEF Types, RelayOK
    <2>4. UserOK'
      <3>1. superseded' \subseteq Packages
        <4>1. Ids(text[a], "block") \subseteq Packages  BY <1>1, BlocksArePackages
        <4> QED  BY <4>1 DEF Types, UserOK
      <3>2. \A b \in Agents : Ids(text'[b], "line") \subseteq 1 .. edits
        BY <1>1, <1>3 DEF Types, UserOK
      <3> QED  BY <1>1, <1>2, <3>1, <3>2 DEF Types, UserOK
    <2> QED  BY <2>1, <2>2, <2>3, <2>4 DEF Types
  <1>6. Markers'
    <2>1. Unmarked' = Unmarked  BY <1>1, <1>2 DEF Unmarked
    <2> QED  BY <2>1 DEF Markers
  <1>7. Blocks'  BY <1>2, <1>3 DEF Blocks
  <1>8. Landed'
    <2>1. \A p \in Packages, b \in Agents : Reached(p, b) => Reached(p, b)'
      BY <1>3, <1>4 DEF Reached
    <2> QED  BY <1>2, <2>1, LandedStays
  <1>9. Lines'
    <2> SUFFICES ASSUME NEW e \in (1 .. edits) \ atRisk, NEW b \in Agents, AtHome(e, b)
                 PROVE  AtHome(e, b)'
      BY DEF Lines
    <2>1. b # a  BY DEF AtHome
    <2> QED  BY <1>2, <1>3, <1>4, <2>1 DEF AtHome
  <1>10. BootsWithContext'  BY DEF BootsWithContext
  <1> QED  BY <1>5, <1>6, <1>7, <1>8, <1>9, <1>10

LEMMA CreateOpenInv == ASSUME IInv, NEW t \in Terminals, CreateOpen(t)
                       PROVE  IInv'
  <1> DEFINE a == sw[t].target
  <1>1. Ids(text[a], "block") \ Ids(<<>>, "block") = Ids(text[a], "block")
    BY IdsOfEmpty
  <1>2. <<>> \in Seq(Parts) /\ AtMostOne(<<>>) /\ \A k : Ids(<<>>, k) = {}
    BY EmptyCopy, IdsOfEmpty DEF AtMostOne
  <1> QED  BY <1>1, <1>2, Recreates DEF CreateOpen, Step, Stages

LEMMA CreateWriteInv == ASSUME IInv, NEW t \in Terminals, CreateWrite(t)
                        PROVE  IInv'
  <1> DEFINE a == sw[t].target
             old == text[a]
  <1>1. old \in Seq(Parts)  BY DEF IInv, Types, SwitchesOK, RelayOK, CreateWrite, Step
  <1>2. PICK rest \in UnderHeader(old) :
           /\ text' = [text EXCEPT ![a] = rest]
           /\ superseded' = superseded \cup (Ids(old, "block") \ Ids(rest, "block"))
           /\ torn' = IF Ids(rest, "block") = {} THEN torn \cup {a} ELSE torn
    BY DEF CreateWrite
  <1>3. PICK k \in 1 .. (IF FirstBlock(old) = 0 THEN Len(old) ELSE FirstBlock(old)) + 1 :
           rest = SubSeq(old, k, Len(old))
    BY <1>2 DEF UnderHeader
  <1>4. k \in 1 .. Len(old) + 1
    <2>1. Len(old) \in Nat /\ DOMAIN old = 1 .. Len(old)  BY <1>1, LenProperties
    <2>2. FirstBlock(old) = 0 \/ FirstBlock(old) \in DOMAIN old  BY <1>1, FirstBlockIs
    <2> HIDE DEF old
    <2> QED  BY <2>1, <2>2
  <1>5. /\ rest \in Seq(Parts) /\ \A x : Ids(rest, x) \subseteq Ids(old, x)
        /\ AtMostOne(old) => AtMostOne(rest)
    BY <1>1, <1>3, <1>4, RestOfText
  <1> QED  BY <1>2, <1>5, Recreates DEF CreateWrite, Step, Stages

LEMMA ReadDocInv == ASSUME IInv, NEW t \in Terminals, ReadDoc(t)
                    PROVE  IInv'
  <1> USE DEF IInv, ReadDoc, relay, history
  <1> DEFINE a == sw[t].target
             copy == IF a = Brief THEN <<>> ELSE WithoutBlock(text[a])
  <1>1. /\ sw \in [Terminals -> Switches] /\ a \in Agents /\ at[t] \in {"busy", "agent"}
        /\ sw[t].pkg \in Packages
    BY DEF Types, SwitchesOK
  <1>2. /\ copy \in Seq(Parts)
        /\ a \notin mixed => Ids(copy, "block") = {}
        /\ Ids(copy, "line") = IF a = Brief THEN {} ELSE Ids(text[a], "line")
    BY <1>1, EmptyCopy, IdsOfEmpty, WithoutBlockKeepsLines DEF Types, RelayOK, Blocks
  <1> HIDE DEF copy
  <1>3. /\ sw' \in [Terminals -> Switches]
        /\ sw'[t].at = "read" /\ sw'[t].target = a /\ sw'[t].pkg = sw[t].pkg
        /\ sw'[t].copy = copy /\ sw'[t].inode = sw[t].inode
        /\ \A u \in Terminals \ {t} : sw'[u] = sw[u]
    <2>1. sw' = [sw EXCEPT ![t].at = "read", ![t].copy = copy]  BY DEF copy
    <2> HIDE DEF IInv, ReadDoc
    <2>2. sw[t] \in Switches /\ "read" \in Stages  BY <1>1 DEF Stages
    <2>3. [sw[t] EXCEPT !.at = "read", !.copy = copy] \in Switches
      BY <1>2, <2>2 DEF Switches
    <2>4. sw' = [sw EXCEPT ![t] = [sw[t] EXCEPT !.at = "read", !.copy = copy]]
      BY <1>1, <2>1 DEF Switches
    <2> QED  BY <1>1, <2>2, <2>3, <2>4 DEF Switches
  <1>4. \A b \in Agents : Rewriting(b)' = Rewriting(b)
    BY <1>1, <1>3 DEF Rewriting
  <1>5. \A b \in Agents : \A u \in Rewriting(b) : Ids(sw[u].copy, "line") \subseteq 1 .. edits
    BY DEF Types, UserOK, Rewriting
  <1>6. Types'
    <2>1. TerminalsOK'  BY DEF Types, TerminalsOK, user
    <2>2. SwitchesOK'  BY <1>1, <1>3 DEF Types, SwitchesOK
    <2>3. RelayOK'  BY DEF Types, RelayOK
    <2>4. UserOK'  BY <1>1, <1>2, <1>3, <1>5 DEF Types, UserOK
    <2> QED  BY <2>1, <2>2, <2>3, <2>4 DEF Types
  <1>7. Markers'
    <2>1. Unmarked' = Unmarked  BY <1>1, <1>3 DEF Unmarked
    <2> QED  BY <2>1 DEF Markers
  <1>8. Blocks'  BY <1>2, <1>3 DEF Blocks
  <1>9. Landed'
    <2>1. \A p \in Packages, b \in Agents : Reached(p, b) => Reached(p, b)'
      BY <1>4 DEF Reached
    <2> QED  BY <1>3, <2>1, LandedStays
  <1>10. Lines'
    <2> SUFFICES ASSUME NEW e \in (1 .. edits) \ atRisk', NEW b \in Agents, AtHome(e, b)
                 PROVE  AtHome(e, b)'
      BY DEF Lines
    <2>1. b = a => e \in Ids(text[a], "line")
      <3>1. ASSUME b = a, e \notin Ids(text[a], "line") PROVE FALSE
        <4>1. PICK u \in Rewriting(a) : TRUE  BY <3>1 DEF AtHome
        <4>2. e \in Ids(sw[u].copy, "line")  BY <3>1, <4>1 DEF AtHome, Rewriting
        <4> QED  BY <4>1, <4>2
      <3> QED  BY <3>1
    <2> QED  BY <1>2, <1>3, <1>4, <2>1 DEF AtHome
  <1>11. BootsWithContext'  BY DEF BootsWithContext
  <1> QED  BY <1>6, <1>7, <1>8, <1>9, <1>10, <1>11

LEMMA TruncateDocInv == ASSUME IInv, NEW t \in Terminals, TruncateDoc(t)
                        PROVE  IInv'
  <1> USE DEF IInv, TruncateDoc, Step
  <1> DEFINE a == sw[t].target
  <1>1. /\ a \in Agents /\ sw[t].pkg \in Packages /\ at[t] \in {"busy", "agent"}
        /\ text \in [Agents -> Seq(Parts)]
    BY DEF Types, SwitchesOK, RelayOK
  <1>2. /\ sw' \in [Terminals -> Switches]
        /\ sw'[t].at = "truncated" /\ sw'[t].target = a /\ sw'[t].pkg = sw[t].pkg
        /\ sw'[t].copy = sw[t].copy /\ sw'[t].inode = sw[t].inode
        /\ \A u \in Terminals \ {t} : sw'[u] = sw[u]
    BY MovesOn DEF Stages
  <1>3. /\ text' = [text EXCEPT ![a] = <<>>] /\ text'[a] = <<>>
        /\ \A b \in Agents \ {a} : text'[b] = text[b]
    BY <1>1
  <1>4. /\ \A b \in Agents : Rewriting(b) \subseteq Rewriting(b)'
        /\ t \in Rewriting(a)'
    BY <1>2 DEF Rewriting
  <1>5. Types'
    <2>1. TerminalsOK'  BY DEF Types, TerminalsOK, user
    <2>2. SwitchesOK'  BY <1>1, <1>2 DEF Types, SwitchesOK
    <2>3. RelayOK'  BY <1>1, <1>3, EmptyCopy DEF Types, RelayOK
    <2>4. UserOK'
      <3>1. superseded' \subseteq Packages
        <4>1. Ids(text[a], "block") \subseteq Packages  BY <1>1, BlocksArePackages
        <4> QED  BY <4>1 DEF Types, UserOK
      <3> QED  BY <1>2, <1>3, <3>1, IdsOfEmpty DEF Types, UserOK, user
    <2> QED  BY <2>1, <2>2, <2>3, <2>4 DEF Types
  <1>6. Markers'
    <2>1. Unmarked' = Unmarked  BY <1>1, <1>2 DEF Unmarked
    <2> QED  BY <2>1 DEF Markers
  <1>7. Blocks'  BY <1>2, <1>3 DEF Blocks, AtMostOne
  <1>8. Landed'
    <2>1. \A p \in Packages, b \in Agents : Reached(p, b) => Reached(p, b)'
      BY <1>3, <1>4 DEF Reached, user
    <2> QED  BY <1>2, <2>1, LandedStays
  <1>9. Lines'
    <2> SUFFICES ASSUME NEW e \in (1 .. edits) \ atRisk, NEW b \in Agents, AtHome(e, b)
                 PROVE  AtHome(e, b)'
      BY DEF Lines, user
    <2>1. e \in Ids(text'[b], "line") \/ Rewriting(b)' # {}
      BY <1>3, <1>4 DEF AtHome
    <2> QED  BY <1>2, <2>1 DEF AtHome
  <1>10. BootsWithContext'  BY DEF BootsWithContext
  <1> QED  BY <1>5, <1>6, <1>7, <1>8, <1>9, <1>10

LEMMA WriteDocInv == ASSUME IInv, NEW t \in Terminals, WriteDoc(t)
                     PROVE  IInv'
  <1> USE DEF IInv, WriteDoc, Step
  <1> DEFINE a == sw[t].target
             p == sw[t].pkg
             mine == NewText(t)
             new == text'[a]
  <1>1. /\ a \in Agents /\ p \in Packages /\ at[t] \in {"busy", "agent"}
        /\ text \in [Agents -> Seq(Parts)] /\ sw[t].copy \in Seq(Parts)
        /\ a \notin mixed => Ids(sw[t].copy, "block") = {}
    BY DEF Types, SwitchesOK, Switches, RelayOK, Blocks
  <1>2. /\ sw' \in [Terminals -> Switches]
        /\ sw'[t].at = "injected" /\ sw'[t].target = a /\ sw'[t].pkg = p
        /\ sw'[t].copy = sw[t].copy /\ sw'[t].inode = sw[t].inode
        /\ \A u \in Terminals \ {t} : sw'[u] = sw[u]
    BY MovesOn DEF Stages
  <1>3. /\ mine \in Seq(Parts)
        /\ a \notin mixed => AtMostOne(mine)
        /\ p \in Ids(mine, "block")
        /\ Ids(sw[t].copy, "line") \subseteq Ids(mine, "line")
        /\ Ids(mine, "line") \subseteq Ids(sw[t].copy, "line")
    <2> HIDE DEF IInv, WriteDoc
    <2> DEFINE c == sw[t].copy
    <2>1. Block(p) \in Parts /\ Block(p).kind = "block" /\ Block(p).id = p
      BY <1>1, BlockIsPart
    <2> HIDE DEF p, c
    <2>2. c \in Seq(Parts)  BY <1>1 DEF c
    <2>3. /\ Append(c, Block(p)) \in Seq(Parts)
          /\ \A k : Ids(Append(c, Block(p)), k)
                      = Ids(c, k) \cup (IF Block(p).kind = k THEN {Block(p).id} ELSE {})
      BY <2>1, <2>2, IdsOfAppend
    <2>4. p \in Ids(Append(c, Block(p)), "block")  BY <2>1, <2>3
    <2>5. Ids(Append(c, Block(p)), "line") = Ids(c, "line")  BY <2>1, <2>3
    <2>6. a \notin mixed => AtMostOne(Append(c, Block(p)))
      BY <1>1, <2>1, <2>2, AppendKeepsOne DEF c
    <2> QED  BY <2>3, <2>4, <2>5, <2>6 DEF NewText, p, c
  <1> HIDE DEF mine
  <1>4. PICK written \in Written(mine, text[a]) :
           /\ text' = [text EXCEPT ![a] = written]
           /\ superseded' = superseded \cup (Ids(text[a], "block") \ Ids(written, "block"))
    BY DEF mine
  <1>5. /\ new = written
        /\ \A b \in Agents \ {a} : text'[b] = text[b]
    BY <1>1, <1>4
  <1> HIDE DEF new
  \* What is in the file is the new text, and what stays behind it of the old one.
  <1>6. /\ new \in Seq(Parts)
        /\ \A k : Ids(mine, k) \subseteq Ids(new, k)
        /\ \A k : Ids(new, k) \subseteq Ids(mine, k) \cup Ids(text[a], k)
        /\ a \notin mixed /\ Ids(text[a], "block") = {} => AtMostOne(new)
    <2> DEFINE old == text[a]
    <2>1. old \in Seq(Parts) /\ Len(old) \in Nat  BY <1>1, LenProperties
    <2>2. new = mine \/ \E k \in 2 .. Len(old) : new = mine \o SubSeq(old, k, Len(old))
      BY <1>4, <1>5 DEF Written
    <2> HIDE DEF old, IInv, WriteDoc
    <2>3. CASE new = mine  BY <1>3, <2>3
    <2>4. CASE \E k \in 2 .. Len(old) : new = mine \o SubSeq(old, k, Len(old))
      <3>1. PICK k \in 2 .. Len(old) : new = mine \o SubSeq(old, k, Len(old))  BY <2>4
      <3> DEFINE rest == SubSeq(old, k, Len(old))
      <3>2. k \in 1 .. Len(old) + 1  BY <2>1
      <3>3. rest \in Seq(Parts) /\ \A x : Ids(rest, x) \subseteq Ids(old, x)
        BY <2>1, <3>2, RestOfText
      <3> HIDE DEF rest
      <3>4. /\ mine \o rest \in Seq(Parts)
            /\ \A x : Ids(mine \o rest, x) = Ids(mine, x) \cup Ids(rest, x)
        BY <1>3, <3>3, IdsOfJoin
      <3>5. a \notin mixed /\ Ids(old, "block") = {} => AtMostOne(mine \o rest)
        <4>1. Ids(old, "block") = {} => Ids(rest, "block") = {}  BY <3>3
        <4> QED  BY <1>3, <3>3, <4>1, JoinKeepsOne
      <3>6. new = mine \o rest  BY <3>1 DEF rest
      <3> QED  BY <3>3, <3>4, <3>5, <3>6 DEF old
    <2> QED  BY <2>2, <2>3, <2>4
  <1>7. superseded' = superseded \cup (Ids(text[a], "block") \ Ids(new, "block"))
    BY <1>4, <1>5
  <1>8. \A b \in Agents \ {a} : Rewriting(b)' = Rewriting(b)
    BY <1>2 DEF Rewriting
  <1>9. Types'
    <2>1. TerminalsOK'  BY DEF Types, TerminalsOK
    <2>2. SwitchesOK'  BY <1>1, <1>2 DEF Types, SwitchesOK
    <2>3. RelayOK'  BY <1>4, <1>5, <1>6 DEF Types, RelayOK
    <2>4. UserOK'
      <3>1. superseded' \subseteq Packages  BY <1>1, <1>7, BlocksArePackages DEF Types, UserOK
      <3>2. \A b \in Agents : Ids(text'[b], "line") \subseteq 1 .. edits
        <4>1. Ids(new, "line") \subseteq 1 .. edits
          BY <1>1, <1>3, <1>6 DEF Types, UserOK
        <4> QED  BY <1>5, <4>1 DEF Types, UserOK, new
      <3>3. mixed' \subseteq Agents /\ torn' \subseteq Agents  BY <1>1 DEF Types, UserOK
      <3> QED  BY <1>2, <3>1, <3>2, <3>3 DEF Types, UserOK
    <2> QED  BY <2>1, <2>2, <2>3, <2>4 DEF Types
  <1>10. Markers'
    <2>1. Unmarked' = Unmarked  BY <1>1, <1>2 DEF Unmarked
    <2> QED  BY <2>1 DEF Markers
  <1>11. Blocks'
    <2>1. mixed \subseteq mixed' /\ (a \notin mixed' => a \notin mixed /\ Ids(text[a], "block") = {})
      OBVIOUS
    <2>2. \A b \in Agents \ mixed' : AtMostOne(text'[b])
      BY <1>5, <1>6, <2>1 DEF Blocks, new
    <2>3. \A u \in Terminals : sw'[u].copy = sw[u].copy /\ sw'[u].target = sw[u].target
      BY <1>2
    <2> QED  BY <2>1, <2>2, <2>3 DEF Blocks
  <1>12. Landed'
    <2>1. ASSUME NEW q \in Packages, NEW b \in Agents, Reached(q, b) PROVE Reached(q, b)'
      <3>1. CASE b = a  BY <1>3, <1>6, <1>7, <2>1, <3>1 DEF Reached, new
      <3>2. CASE b # a
        <4>1. b \in torn => b \in torn'  BY <3>2
        <4> QED  BY <1>5, <1>7, <1>8, <2>1, <3>2, <4>1 DEF Reached
      <3> QED  BY <3>1, <3>2
    <2>2. Reached(p, a)'  BY <1>3, <1>6 DEF Reached, new
    <2> QED  BY <1>2, <2>1, <2>2, LandedStays
  <1>13. Lines'
    <2> SUFFICES ASSUME NEW e \in (1 .. edits) \ atRisk, NEW b \in Agents, AtHome(e, b)
                 PROVE  AtHome(e, b)'
      BY DEF Lines
    <2>1. CASE b = a  BY <1>2, <1>3, <1>6, <2>1 DEF AtHome, new
    <2>2. CASE b # a  BY <1>2, <1>5, <1>8, <2>2 DEF AtHome
    <2> QED  BY <2>1, <2>2
  <1>14. BootsWithContext'
    <2>1. superseded \subseteq superseded'  BY <1>7
    <2> QED  BY <2>1 DEF BootsWithContext
  <1> QED  BY <1>9, <1>10, <1>11, <1>12, <1>13, <1>14

LEMMA McpReturnsInv == ASSUME IInv, NEW t \in Terminals, McpReturns(t)
                       PROVE  IInv'
  <1> USE DEF IInv, McpReturns, Ends, relay, user, history
  <1>1. /\ sw \in [Terminals -> Switches] /\ NoSwitch \in Switches /\ NoSwitch.at = "none"
        /\ NoSwitch.pkg = 0 /\ NoSwitch.inode = 0 /\ NoSwitch.copy = <<>>
    BY EmptyCopy DEF NoSwitch, Types, SwitchesOK
  <1>2. /\ sw' \in [Terminals -> Switches] /\ sw'[t] = NoSwitch
        /\ \A u \in Terminals \ {t} : sw'[u] = sw[u]
    BY <1>1
  <1>3. at' = at  BY DEF Types, TerminalsOK
  <1>4. Types'
    <2>1. TerminalsOK'  BY <1>3 DEF Types, TerminalsOK
    <2>2. RelayOK'  BY DEF Types, RelayOK
    <2>3. SwitchesOK'  BY <1>1, <1>2, <1>3, <2>2 DEF Types, SwitchesOK, RelayOK
    <2>4. UserOK'  BY <1>1, <1>2, IdsOfEmpty DEF Types, UserOK
    <2> QED  BY <2>1, <2>2, <2>3, <2>4 DEF Types
  <1>5. /\ Markers' /\ Blocks' /\ Lines'
        /\ \A p \in Packages, a \in Agents : Reached(p, a) => Reached(p, a)'
    BY <1>2, OthersStop
  <1>6. Landed'  BY <1>1, <1>2, <1>5, LandedStays
  <1>7. BootsWithContext'  BY DEF BootsWithContext
  <1> QED  BY <1>4, <1>5, <1>6, <1>7

LEMMA MarkerOpenInv == ASSUME IInv, NEW t \in Terminals, MarkerOpen(t)
                       PROVE  IInv'
  <1> USE DEF IInv, MarkerOpen, user, history
  <1> DEFINE n == IF marker = None THEN inodes + 1 ELSE marker.inode
  <1>1. /\ sw \in [Terminals -> Switches] /\ at[t] \in {"busy", "agent"}
        /\ sw[t].target \in Agents /\ sw[t].pkg \in Packages
        /\ inodes \in Nat /\ inodes' \in Nat /\ inodes <= inodes'
        /\ n \in 1 .. inodes'
    BY DEF Types, SwitchesOK, RelayOK
  <1>2. inodes' <= inodes + 1  BY <1>1
  <1> HIDE DEF n
  <1>3. /\ sw' \in [Terminals -> Switches]
        /\ sw'[t].at = "marking" /\ sw'[t].target = sw[t].target /\ sw'[t].pkg = sw[t].pkg
        /\ sw'[t].copy = sw[t].copy /\ sw'[t].inode = n
        /\ \A u \in Terminals \ {t} : sw'[u] = sw[u]
    <2>1. sw' = [sw EXCEPT ![t].at = "marking", ![t].inode = n]  BY DEF n
    <2>2. sw[t] \in Switches /\ "marking" \in Stages /\ n \in Nat  BY <1>1 DEF Stages
    <2> HIDE DEF IInv, MarkerOpen
    <2>3. [sw[t] EXCEPT !.at = "marking", !.inode = n] \in Switches
      BY <2>2 DEF Switches
    <2>4. sw' = [sw EXCEPT ![t] = [sw[t] EXCEPT !.at = "marking", !.inode = n]]
      BY <1>1, <2>1 DEF Switches
    <2> QED  BY <1>1, <2>2, <2>3, <2>4 DEF Switches
  <1>4. \A b \in Agents : Rewriting(b)' = Rewriting(b)
    BY <1>1, <1>3 DEF Rewriting
  <1>5. Types'
    <2>1. TerminalsOK'  BY DEF Types, TerminalsOK
    <2>2. SwitchesOK'
      <3>1. \A u \in Terminals : sw[u].inode \in Nat  BY <1>1 DEF Switches
      <3>2. \A u \in Terminals : sw'[u].pkg <= packages' /\ sw'[u].inode <= inodes'
        BY <1>1, <1>3, <3>1 DEF Types, SwitchesOK
      <3> QED  BY <1>1, <1>3, <3>2 DEF Types, SwitchesOK
    <2>3. RelayOK'
      <3>1. /\ marker' \in [inode : Nat, cmd : Commands] /\ marker'.inode \in 1 .. inodes'
        BY <1>1 DEF Commands, n
      <3> QED  BY <1>1, <3>1 DEF Types, RelayOK
    <2>4. UserOK'  BY <1>1, <1>3 DEF Types, UserOK
    <2> QED  BY <2>1, <2>2, <2>3, <2>4 DEF Types
  <1>6. Markers'
    <2>1. Unmarked' = Unmarked \ {t} /\ t \in Unmarked  BY <1>1, <1>3 DEF Unmarked
    <2>2. Cardinality(Unmarked') = Cardinality(Unmarked) - 1
      BY <2>1, UnmarkedFinite, FS_RemoveElement
    <2>3. packages \in Nat /\ packages' = packages  BY DEF Types, RelayOK
    <2> QED  BY <1>1, <1>2, <2>2, <2>3, UnmarkedFinite DEF Markers
  <1>7. Blocks'  BY <1>3 DEF Blocks
  <1>8. Landed'
    <2>1. \A p \in Packages, b \in Agents : Reached(p, b) => Reached(p, b)'
      BY <1>4 DEF Reached
    <2>2. Launches(marker.cmd)'  BY DEF Launches
    <2> QED  BY <1>3, <2>1, <2>2, LandedStays
  <1>9. Lines'
    BY <1>1, <1>3, <1>4 DEF Lines, AtHome
  <1>10. BootsWithContext'  BY DEF BootsWithContext
  <1> QED  BY <1>5, <1>6, <1>7, <1>8, <1>9, <1>10

LEMMA MarkerPutInv == ASSUME IInv, NEW t \in Terminals, MarkerPut(t)
                      PROVE  IInv'
  <1> USE DEF IInv, MarkerPut, Ends, user, history
  <1>1. /\ sw \in [Terminals -> Switches] /\ NoSwitch \in Switches /\ NoSwitch.at = "none"
        /\ NoSwitch.pkg = 0 /\ NoSwitch.inode = 0 /\ NoSwitch.copy = <<>>
        /\ sw[t].pkg \in Packages /\ sw[t].target \in Agents
    BY EmptyCopy DEF NoSwitch, Types, SwitchesOK
  <1>2. /\ sw' \in [Terminals -> Switches] /\ sw'[t] = NoSwitch
        /\ \A u \in Terminals \ {t} : sw'[u] = sw[u]
    BY <1>1
  <1>3. \/ marker' = marker
        \/ /\ marker # None /\ marker'.inode = marker.inode
           /\ marker' \in [inode : Nat, cmd : Commands]
           /\ marker'.cmd \in {Command(t), Garbled}
    <2>1. Command(t) \in Commands /\ Garbled \in Commands  BY <1>1 DEF Command, Commands
    <2>2. marker # None => marker \in [inode : Nat, cmd : Commands]  BY DEF Types, RelayOK
    <2> QED  BY <2>1, <2>2
  <1>4. Types'
    <2>1. TerminalsOK'  BY DEF Types, TerminalsOK
    <2>2. RelayOK'  BY <1>3 DEF Types, RelayOK
    <2>3. SwitchesOK'  BY <1>1, <1>2, <2>2 DEF Types, SwitchesOK, RelayOK, TerminalsOK
    <2>4. UserOK'  BY <1>1, <1>2, IdsOfEmpty DEF Types, UserOK
    <2> QED  BY <2>1, <2>2, <2>3, <2>4 DEF Types
  <1>5. /\ Markers' /\ Blocks' /\ Lines'
        /\ \A p \in Packages, a \in Agents : Reached(p, a) => Reached(p, a)'
    BY <1>2, OthersStop
  <1>6. Landed'
    <2>1. marker'.cmd = Command(t) => Launches(marker.cmd)'
      <3>1. ASSUME marker'.cmd = Command(t) PROVE Reached(marker.cmd.pkg, marker.cmd.target)'
        <4>1. Reached(sw[t].pkg, sw[t].target)  BY DEF Landed
        <4>2. marker'.cmd.pkg = sw[t].pkg /\ marker'.cmd.target = sw[t].target
          BY <3>1 DEF Command
        <4> QED  BY <1>1, <1>5, <4>1, <4>2 DEF Reached
      <3> QED  BY <3>1 DEF Launches
    <2>2. marker' # None => \/ marker # None /\ marker'.cmd \in {Blank, Garbled, marker.cmd}
                            \/ Launches(marker.cmd)'
      BY <1>3, <2>1
    <2> QED  BY <1>1, <1>2, <1>5, <2>2, LandedStays
  <1>7. BootsWithContext'  BY DEF BootsWithContext
  <1> QED  BY <1>4, <1>5, <1>6, <1>7

LEMMA TmuxKillInv == ASSUME IInv, NEW t \in Terminals, TmuxKill(t)
                     PROVE  IInv'
  <1> USE DEF IInv, TmuxKill, StopSwitches, Dies, relay, history
  <1> DEFINE killed == Victims(t)
             half == {u \in killed : sw[u].at = "truncated"}
  <1>1. /\ sw \in [Terminals -> Switches] /\ NoSwitch \in Switches /\ NoSwitch.at = "none"
        /\ NoSwitch.pkg = 0 /\ NoSwitch.inode = 0 /\ NoSwitch.copy = <<>>
    BY EmptyCopy DEF NoSwitch, Types, SwitchesOK
  <1>2. killed \subseteq {w \in Terminals : at[w] = "agent"}
    BY DEF Victims, Named
  <1> HIDE DEF killed
  <1>3. /\ [sw[t] EXCEPT !.at = "killed"] \in Switches
        /\ [sw[t] EXCEPT !.at = "killed"].at = "killed"
        /\ [sw[t] EXCEPT !.at = "killed"].pkg = sw[t].pkg
        /\ [sw[t] EXCEPT !.at = "killed"].target = sw[t].target
        /\ [sw[t] EXCEPT !.at = "killed"].copy = sw[t].copy
        /\ [sw[t] EXCEPT !.at = "killed"].inode = sw[t].inode
    BY <1>1 DEF Switches, Stages
  <1> DEFINE new == [sw[t] EXCEPT !.at = "killed"]
  <1> HIDE DEF new
  <1>4. sw' = [w \in Terminals |-> IF w \in killed THEN NoSwitch ELSE IF w = t THEN new ELSE sw[w]]
    BY DEF new, killed
  <1>5. /\ new \in Switches /\ new.at = "killed" /\ new.pkg = sw[t].pkg
        /\ new.target = sw[t].target /\ new.copy = sw[t].copy /\ new.inode = sw[t].inode
    BY <1>3 DEF new
  <1>6. /\ sw' \in [Terminals -> Switches]
        /\ \A u \in killed : sw'[u] = NoSwitch
        /\ t \notin killed => sw'[t] = new
        /\ \A u \in Terminals \ (killed \cup {t}) : sw'[u] = sw[u]
    BY <1>1, <1>2, <1>4, <1>5
  <1>7. /\ torn' = torn \cup {sw[u].target : u \in half}
        /\ atRisk' = atRisk \cup UNION {Ids(sw[u].copy, "line") : u \in half}
    BY DEF killed
  <1>8. at' = [w \in Terminals |-> IF w \in killed THEN "off" ELSE at[w]]
    BY DEF killed
  <1>9. running' = [w \in Terminals |-> IF w \in killed THEN None ELSE running[w]]
    BY DEF killed
  <1>10. half \subseteq Terminals /\ \A u \in half : sw[u].at = "truncated"  BY <1>2
  <1>11. Types'
    <2>1. TerminalsOK'  BY <1>8, <1>9 DEF Types, TerminalsOK
    <2>2. RelayOK'  BY DEF Types, RelayOK
    <2>3. SwitchesOK'
      <3>1. \A u \in Terminals : sw'[u].pkg <= packages' /\ sw'[u].inode <= inodes'
        BY <1>1, <1>5, <1>6, <2>2 DEF Types, SwitchesOK, RelayOK
      <3>2. \A u \in Terminals : sw'[u].at # "none" =>
              u \notin killed /\ sw[u].at # "none" /\ sw'[u].target = sw[u].target
                              /\ sw'[u].pkg = sw[u].pkg /\ at'[u] = at[u]
        BY <1>1, <1>5, <1>6, <1>8
      <3> QED  BY <1>6, <3>1, <3>2 DEF Types, SwitchesOK
    <2>4. UserOK'
      <3>1. torn' \subseteq Agents  BY <1>7, <1>10 DEF Types, UserOK, SwitchesOK
      <3>2. atRisk' \subseteq 1 .. edits  BY <1>7, <1>10 DEF Types, UserOK
      <3>3. \A u \in Terminals : sw'[u].copy \in {<<>>, sw[u].copy}  BY <1>1, <1>5, <1>6
      <3> QED  BY <3>1, <3>2, <3>3, IdsOfEmpty DEF Types, UserOK
    <2> QED  BY <2>1, <2>2, <2>3, <2>4 DEF Types
  <1>12. /\ \A u \in Terminals : sw[u].at = "truncated" /\ sw'[u] # sw[u] => u \in half
         /\ \A u \in half : /\ sw[u].target \in torn'
                            /\ Ids(sw[u].copy, "line") \subseteq atRisk'
    <2>1. \A u \in Terminals : sw[u].at = "truncated" /\ sw'[u] # sw[u] => u \in half
      BY <1>6
    <2> QED  BY <1>7, <2>1
  <1>13. \A u \in Terminals :
            \/ sw'[u] = sw[u]
            \/ sw'[u] = NoSwitch
            \/ /\ sw[u].at = "injected" /\ sw'[u].at = "killed"
               /\ sw'[u].copy = sw[u].copy /\ sw'[u].target = sw[u].target
    BY <1>5, <1>6
  <1>14. UNCHANGED <<inodes, text, files, packages, edits, superseded, mixed, seen, marker, booted>>
    OBVIOUS
  <1>15. torn \subseteq torn' /\ atRisk \subseteq atRisk'  BY <1>7
  <1>16. /\ Markers' /\ Blocks' /\ Lines'
         /\ \A p \in Packages, a \in Agents : Reached(p, a) => Reached(p, a)'
    <2> HIDE DEF half, IInv, TmuxKill, StopSwitches, Dies
    <2>1. \A u \in Terminals : sw[u].at = "truncated" /\ sw'[u] # sw[u] =>
              sw[u].target \in torn' /\ Ids(sw[u].copy, "line") \subseteq atRisk'
      BY <1>12
    <2> QED  BY <1>6, <1>13, <1>14, <1>15, <2>1, OthersStop
  <1>17. Landed'
    <2>1. \A u \in Terminals : sw'[u].at \in {"injected", "marking", "killed"} =>
             /\ sw[u].at \in {"injected", "marking", "killed"}
             /\ sw'[u].pkg = sw[u].pkg /\ sw'[u].target = sw[u].target
      BY <1>1, <1>5, <1>6
    <2> QED  BY <1>14, <1>16, <2>1, LandedStays
  <1>18. BootsWithContext'  BY <1>14 DEF BootsWithContext
  <1> QED  BY <1>11, <1>16, <1>17, <1>18

LEMMA TmuxOpenInv == ASSUME IInv, NEW t \in Terminals, TmuxOpen(t)
                     PROVE  IInv'
  <1> USE DEF IInv, TmuxOpen, relay, user
  <1> DEFINE p == sw[t].pkg
             a == sw[t].target
  <1>1. /\ sw \in [Terminals -> Switches] /\ NoSwitch \in Switches /\ NoSwitch.at = "none"
        /\ NoSwitch.pkg = 0 /\ NoSwitch.inode = 0 /\ NoSwitch.copy = <<>>
        /\ p \in Packages /\ a \in Agents /\ p \in Terminals
        /\ at[t] \in {"busy", "agent"}
        /\ running \in [Terminals -> Agents \cup {None}] /\ a # None
    BY EmptyCopy, RelayAssumption
       DEF NoSwitch, Types, SwitchesOK, TerminalsOK, Terminals, Windows, RelayAssumption
  <1>2. /\ sw' \in [Terminals -> Switches] /\ sw'[t] = NoSwitch
        /\ \A u \in Terminals \ {t} : sw'[u] = sw[u]
    BY <1>1
  <1>3. /\ at' \in [Terminals -> {"off", "idle", "prompt", "tested", "read", "busy", "agent"}]
        /\ at'[p] = "agent"
        /\ t # p => at'[t] = IF at[t] = "busy" THEN "prompt" ELSE at[t]
        /\ \A u \in Terminals \ {t, p} : at'[u] = at[u]
    BY <1>1 DEF Types, TerminalsOK
  <1>4. /\ running' \in [Terminals -> Agents \cup {None}] /\ running'[p] = a
        /\ \A u \in Terminals \ {p} : running'[u] = running[u]
    BY <1>1
  <1>5. Types'
    <2>1. TerminalsOK'
      <3>1. \A u \in Terminals : running[u] # None <=> at[u] = "agent"
        BY DEF Types, TerminalsOK
      <3>2. running'[p] # None /\ at'[p] = "agent"  BY <1>1, <1>3, <1>4
      <3>3. t # p => (running'[t] # None <=> at'[t] = "agent")  BY <1>1, <1>3, <1>4, <3>1
      <3>4. \A u \in Terminals \ {t, p} : running'[u] # None <=> at'[u] = "agent"
        BY <1>3, <1>4, <3>1
      <3>5. \A u \in Terminals : running'[u] # None <=> at'[u] = "agent"
        BY <3>2, <3>3, <3>4
      <3>6. inTmux' \in Layouts  BY DEF Types, TerminalsOK
      <3> QED  BY <1>3, <1>4, <3>5, <3>6 DEF TerminalsOK
    <2>2. RelayOK'  BY DEF Types, RelayOK
    <2>3. SwitchesOK'
      <3>1. \A u \in Terminals : sw'[u].pkg <= packages' /\ sw'[u].inode <= inodes'
        BY <1>1, <1>2, <2>2 DEF Types, SwitchesOK, RelayOK
      <3>2. \A u \in Terminals : sw'[u].at # "none" => u # t /\ at'[u] \in {at[u], "agent"}
        BY <1>1, <1>2, <1>3
      <3> QED  BY <1>2, <3>1, <3>2 DEF Types, SwitchesOK
    <2>4. UserOK'  BY <1>1, <1>2, IdsOfEmpty DEF Types, UserOK, history
    <2> QED  BY <2>1, <2>2, <2>3, <2>4 DEF Types
  <1>6. /\ Markers' /\ Blocks' /\ Lines'
        /\ \A q \in Packages, b \in Agents : Reached(q, b) => Reached(q, b)'
    BY <1>2, OthersStop
  <1>7. Landed'  BY <1>1, <1>2, <1>6, LandedStays
  <1>8. BootsWithContext'
    <2>1. Reached(p, a)  BY DEF Landed
    <2>2. LET b == Found(p, a, t, p)
          IN  /\ b.pkg \in b.blocks \/ b.pkg \in superseded
              /\ b.blocks # {} \/ b.broken
      BY <2>1, FoundHasContext
    <2> QED  BY <2>2 DEF BootsWithContext
  <1> QED  BY <1>5, <1>6, <1>7, <1>8

LEMMA InterruptInv == ASSUME IInv, NEW t \in Terminals, Interrupt(t)
                      PROVE  IInv'
  <1> USE DEF IInv, Interrupt, Ends, relay, history
  <1>0. /\ torn' = torn \cup IF sw[t].at = "truncated" THEN {sw[t].target} ELSE {}
        /\ atRisk' = atRisk \cup IF sw[t].at = "truncated" THEN Ids(sw[t].copy, "line") ELSE {}
    <2> DEFINE half == {u \in {t} : sw[u].at = "truncated"}
    <2>1. /\ torn' = torn \cup {sw[u].target : u \in half}
          /\ atRisk' = atRisk \cup UNION {Ids(sw[u].copy, "line") : u \in half}
      BY DEF Dies
    <2>2. half = IF sw[t].at = "truncated" THEN {t} ELSE {}  OBVIOUS
    <2> HIDE DEF half, IInv, Interrupt
    <2>3. CASE sw[t].at = "truncated"
      <3>1. half = {t}  BY <2>2, <2>3
      <3>2. {sw[u].target : u \in half} = {sw[t].target}  BY <3>1
      <3>3. UNION {Ids(sw[u].copy, "line") : u \in half} = Ids(sw[t].copy, "line")  BY <3>1
      <3> QED  BY <2>1, <2>3, <3>2, <3>3
    <2>4. CASE sw[t].at # "truncated"
      <3>1. half = {}  BY <2>2, <2>4
      <3> QED  BY <2>1, <2>4, <3>1
    <2> QED  BY <2>3, <2>4
  <1>1. /\ sw \in [Terminals -> Switches] /\ NoSwitch \in Switches /\ NoSwitch.at = "none"
        /\ NoSwitch.pkg = 0 /\ NoSwitch.inode = 0 /\ NoSwitch.copy = <<>>
    BY EmptyCopy DEF NoSwitch, Types, SwitchesOK
  <1>2. /\ sw' \in [Terminals -> Switches] /\ sw'[t] = NoSwitch
        /\ \A u \in Terminals \ {t} : sw'[u] = sw[u]
    BY <1>1
  <1>3. /\ \A x \in torn' : x \in torn \/ (x = sw[t].target /\ sw[t].at = "truncated")
        /\ \A e \in atRisk' : e \in atRisk \/ e \in Ids(sw[t].copy, "line")
    BY <1>0
  <1>4. /\ torn \subseteq torn' /\ atRisk \subseteq atRisk'
        /\ sw[t].at = "truncated" => /\ sw[t].target \in torn'
                                     /\ Ids(sw[t].copy, "line") \subseteq atRisk'
    BY <1>0
  <1>5. Types'
    <2>1. TerminalsOK'  BY DEF Types, TerminalsOK
    <2>2. RelayOK'  BY DEF Types, RelayOK
    <2>3. SwitchesOK'
      <3>1. \A u \in Terminals : sw'[u].pkg <= packages' /\ sw'[u].inode <= inodes'
        BY <1>1, <1>2, <2>2 DEF Types, SwitchesOK, RelayOK
      <3>2. \A u \in Terminals : sw'[u].at # "none" => u # t /\ at'[u] = at[u]
        BY <1>1, <1>2 DEF Types, TerminalsOK
      <3> QED  BY <1>2, <3>1, <3>2 DEF Types, SwitchesOK
    <2>4. UserOK'
      <3>1. torn' \subseteq Agents  BY <1>3 DEF Types, UserOK, SwitchesOK
      <3>2. atRisk' \subseteq 1 .. edits  BY <1>3 DEF Types, UserOK
      <3>3. kills' \in 0 .. MaxKills  BY Bounds DEF Types, UserOK
      <3> QED  BY <1>1, <1>2, <3>1, <3>2, <3>3, IdsOfEmpty DEF Types, UserOK
    <2> QED  BY <2>1, <2>2, <2>3, <2>4 DEF Types
  <1>6. /\ Markers' /\ Blocks' /\ Lines'
        /\ \A p \in Packages, a \in Agents : Reached(p, a) => Reached(p, a)'
    BY <1>2, <1>4, OthersStop
  <1>7. Landed'  BY <1>1, <1>2, <1>6, LandedStays
  <1>8. BootsWithContext'  BY DEF BootsWithContext
  <1> QED  BY <1>5, <1>6, <1>7, <1>8

-----------------------------------------------------------------------------
(* ... the hook, and the user *)

\* The steps that change no switch and no file.
LEMMA ShellInv ==
    ASSUME IInv, NEW t \in Terminals,
           HookTest(t) \/ HookRead(t) \/ HookRuns(t) \/ Exit(t) \/ Enter(t)
                       \/ \E a \in Agents : LaunchByHand(t, a)
    PROVE  IInv'
  <1> USE DEF IInv
  <1>1. /\ sw' = sw /\ text' = text /\ inodes' = inodes /\ packages' = packages
        /\ superseded' = superseded /\ files' = files /\ mixed' = mixed /\ UNCHANGED user
    BY DEF HookTest, HookRead, HookRuns, Evaluate, Exit, Enter, LaunchByHand, relay, history
  <1>2. /\ edits' = edits /\ kills' = kills /\ torn' = torn /\ atRisk' = atRisk /\ inTmux' = inTmux
    BY <1>1 DEF user
  <1>3. \A b \in Agents : Rewriting(b)' = Rewriting(b)  BY <1>1 DEF Rewriting
  <1>4. \A p \in Packages, b \in Agents : Reached(p, b) => Reached(p, b)'
    BY <1>1, <1>2, <1>3 DEF Reached
  <1>5. TerminalsOK' /\ \A u \in Terminals : sw[u].at # "none" => at'[u] \in {"busy", "agent"}
    <2>0. /\ at \in [Terminals -> {"off", "idle", "prompt", "tested", "read", "busy", "agent"}]
          /\ running \in [Terminals -> Agents \cup {None}] /\ inTmux' \in Layouts
          /\ \A u \in Terminals : running[u] # None <=> at[u] = "agent"
          /\ \A u \in Terminals : sw[u].at # "none" => at[u] \in {"busy", "agent"}
          /\ None \notin Agents
      BY <1>2, RelayAssumption DEF Types, TerminalsOK, SwitchesOK, RelayAssumption
    <2> SUFFICES ASSUME NEW x \in {"off", "idle", "prompt", "tested", "read", "busy", "agent"},
                        NEW r \in Agents \cup {None},
                        at' = [at EXCEPT ![t] = x], running' = [running EXCEPT ![t] = r],
                        r # None <=> x = "agent", sw[t].at # "none" => x \in {"busy", "agent"}
                 PROVE  TerminalsOK' /\ \A u \in Terminals : sw[u].at # "none" => at'[u] \in {"busy", "agent"}
      <3>1. ASSUME HookTest(t) PROVE running' = [running EXCEPT ![t] = None]
        BY <2>0, <3>1 DEF HookTest
      <3>2. CASE HookTest(t)  BY <2>0, <3>1, <3>2 DEF HookTest
      <3>3. CASE HookRead(t)
        <4>1. running' = [running EXCEPT ![t] = None]  BY <2>0, <3>3 DEF HookRead
        <4> QED  BY <2>0, <3>3, <4>1 DEF HookRead
      <3>4. CASE HookRuns(t)
        <4>1. seen[t] \in Commands  BY DEF Types, RelayOK
        <4>2. seen[t] \notin {Blank, Garbled} => seen[t].target \in Agents
          BY <4>1, CommandFields
        <4> QED  BY <2>0, <3>4, <4>2 DEF HookRuns, Evaluate
      <3>5. CASE Exit(t)  BY <2>0, <3>5 DEF Exit
      <3>6. CASE Enter(t)
        <4>1. running' = [running EXCEPT ![t] = None]  BY <2>0, <3>6 DEF Enter
        <4> QED  BY <2>0, <3>6, <4>1 DEF Enter
      <3>7. CASE \E a \in Agents : LaunchByHand(t, a)
        BY <2>0, <3>7 DEF LaunchByHand
      <3> QED  BY <3>2, <3>3, <3>4, <3>5, <3>6, <3>7
    <2> QED  BY <2>0 DEF TerminalsOK
  <1>6. /\ seen' \in [Terminals -> Commands]
        /\ \A u \in Terminals : \/ seen'[u] \in {Blank, seen[u]}
                                \/ marker # None /\ seen'[u] = marker.cmd
        /\ marker' \in {marker, None}
    <2>1. /\ seen \in [Terminals -> Commands] /\ Blank \in Commands
          /\ marker # None => marker.cmd \in Commands
      BY DEF Types, RelayOK, Commands
    <2>2. CASE HookRead(t)
      BY <2>1, <2>2 DEF HookRead, relay
    <2>3. CASE HookRuns(t)
      BY <2>1, <2>3 DEF HookRuns, Evaluate
    <2>4. CASE HookTest(t) \/ Exit(t) \/ Enter(t) \/ \E a \in Agents : LaunchByHand(t, a)
      BY <2>1, <2>4 DEF HookTest, Exit, Enter, LaunchByHand, relay
    <2> QED  BY <2>2, <2>3, <2>4
  <1>7. Types'
    <2>1. SwitchesOK'  BY <1>1, <1>5 DEF Types, SwitchesOK
    <2>2. RelayOK'  BY <1>1, <1>6 DEF Types, RelayOK
    <2>3. UserOK'  BY <1>1, <1>2 DEF Types, UserOK
    <2> QED  BY <1>5, <2>1, <2>2, <2>3 DEF Types
  <1>8. Markers' /\ Blocks'
    BY <1>1 DEF Markers, Unmarked, Blocks
  <1>9. Lines'
    BY <1>1, <1>2, <1>3 DEF Lines, AtHome
  <1>10. Landed'
    <2>1. ASSUME NEW u \in Terminals, marker # None, seen'[u] = marker.cmd
          PROVE  Launches(seen[u])'
      <3> SUFFICES ASSUME seen'[u] \notin {Blank, Garbled}
                   PROVE  Reached(seen[u].pkg, seen[u].target)'
        BY DEF Launches
      <3>1. marker.cmd \in Commands /\ Launches(marker.cmd)
        BY <2>1 DEF Landed, Types, RelayOK
      <3>2. /\ marker.cmd.pkg \in Packages /\ marker.cmd.target \in Agents
            /\ Reached(marker.cmd.pkg, marker.cmd.target)
        BY <2>1, <3>1, CommandFields DEF Launches
      <3> QED  BY <1>4, <2>1, <3>2 DEF Reached
    <2>2. \A u \in Terminals : seen'[u] \in {Blank, seen[u]} \/ Launches(seen[u])'
      BY <1>6, <2>1
    <2> QED  BY <1>1, <1>4, <1>6, <2>2, LandedStays
  <1>11. BootsWithContext'
    <2>1. CASE booted' = booted  BY <1>1, <2>1 DEF BootsWithContext
    <2>2. CASE booted' # booted
      <3> DEFINE cmd == seen[t]
      <3>1. /\ HookRuns(t) /\ cmd \notin {Blank, Garbled}
            /\ booted' = booted \cup {Found(cmd.pkg, cmd.target, cmd.by, t)}
        BY <2>2 DEF HookTest, HookRead, HookRuns, Evaluate, Exit, Enter, LaunchByHand, history
      <3>2. Reached(cmd.pkg, cmd.target)  BY <3>1 DEF Landed, Launches
      <3>3. LET b == Found(cmd.pkg, cmd.target, cmd.by, t)
            IN  /\ b.pkg \in b.blocks \/ b.pkg \in superseded
                /\ b.blocks # {} \/ b.broken
        BY <3>2, FoundHasContext
      <3> QED  BY <1>1, <3>1, <3>3 DEF BootsWithContext
    <2> QED  BY <2>1, <2>2
  <1> QED  BY <1>7, <1>8, <1>9, <1>10, <1>11

LEMMA EditInv == ASSUME IInv, NEW a \in Agents, Edit(a)
                 PROVE  IInv'
  <1> USE DEF IInv, Edit, history
  <1> DEFINE n == edits + 1
             old == text[a]
             new == Append(text[a], Line(n))
  <1>1. /\ old \in Seq(Parts) /\ (a \notin mixed => AtMostOne(old)) /\ n \in 1 .. MaxEdits /\ edits \in Nat
        /\ text \in [Agents -> Seq(Parts)]
    BY Bounds DEF Types, RelayOK, UserOK, Blocks
  <1>2. Line(n) \in Parts /\ Line(n).kind = "line" /\ Line(n).id = n
    BY <1>1, LineIsPart
  <1>3. /\ new \in Seq(Parts) /\ (a \notin mixed => AtMostOne(new))
        /\ Ids(new, "block") = Ids(old, "block")
        /\ Ids(new, "line") = Ids(old, "line") \cup {n}
    <2> HIDE DEF n, old, IInv, Edit
    <2>1. new = Append(old, Line(n))  BY DEF old
    <2>2. Append(old, Line(n)) \in Seq(Parts)  BY <1>1, <1>2, IdsOfAppend
    <2>3. \A k : Ids(Append(old, Line(n)), k)
                   = Ids(old, k) \cup (IF Line(n).kind = k THEN {Line(n).id} ELSE {})
      BY <1>1, <1>2, IdsOfAppend
    <2>4. a \notin mixed => AtMostOne(Append(old, Line(n)))  BY <1>1, <1>2, AppendKeepsOne
    <2>5. Ids(Append(old, Line(n)), "block") = Ids(old, "block")  BY <1>2, <2>3
    <2>6. Ids(Append(old, Line(n)), "line") = Ids(old, "line") \cup {n}  BY <1>2, <2>3
    <2> QED  BY <2>1, <2>2, <2>4, <2>5, <2>6
  <1> HIDE DEF new
  <1>4. /\ text' = [text EXCEPT ![a] = new] /\ text'[a] = new
        /\ \A b \in Agents \ {a} : text'[b] = text[b]
        /\ edits' = n /\ sw' = sw /\ a # Brief /\ files' = files \cup {a} /\ mixed' = mixed
    BY <1>1 DEF new
  <1>5. \A b \in Agents : Rewriting(b)' = Rewriting(b)  BY <1>4 DEF Rewriting
  <1>6. \A b \in Agents : Ids(text'[b], "block") = Ids(text[b], "block")
    BY <1>3, <1>4
  <1>7. Types'
    <2>1. TerminalsOK'  BY DEF Types, TerminalsOK
    <2>2. SwitchesOK'  BY DEF Types, SwitchesOK
    <2>3. RelayOK'  BY <1>3, <1>4 DEF Types, RelayOK
    <2>4. UserOK'
      <3>1. 1 .. edits \subseteq 1 .. edits' /\ n \in 1 .. edits'  BY <1>1, <1>4
      <3>2. atRisk' \subseteq 1 .. edits'  BY <3>1 DEF Types, UserOK
      <3>3. \A b \in Agents : Ids(text'[b], "line") \subseteq 1 .. edits'
        BY <1>3, <1>4, <3>1 DEF Types, UserOK
      <3>4. \A u \in Terminals : Ids(sw'[u].copy, "line") \subseteq 1 .. edits'
        BY <1>4, <3>1 DEF Types, UserOK
      <3> QED  BY <1>1, <1>4, <3>2, <3>3, <3>4 DEF Types, UserOK
    <2> QED  BY <2>1, <2>2, <2>3, <2>4 DEF Types
  <1>8. Markers' /\ Blocks'
    BY <1>3, <1>4 DEF Markers, Unmarked, Blocks
  <1>9. Landed'
    <2>1. \A p \in Packages, b \in Agents : Reached(p, b) => Reached(p, b)'
      BY <1>5, <1>6 DEF Reached
    <2> QED  BY <1>4, <2>1, LandedStays
  <1>10. Lines'
    <2> SUFFICES ASSUME NEW e \in (1 .. edits') \ atRisk' PROVE \E b \in Agents : AtHome(e, b)'
      BY DEF Lines
    <2>1. CASE e = n
      <3>1. \A t \in Terminals : ~ /\ sw[t].at \in {"absent", "creating", "read", "truncated"}
                                    /\ sw[t].target = a
        BY <2>1
      <3>2. AtHome(e, a)'  BY <1>3, <1>4, <2>1, <3>1 DEF AtHome
      <3> QED  BY <3>2
    <2>2. CASE e # n
      <3>1. e \in (1 .. edits) \ atRisk  BY <1>1, <1>4, <2>2
      <3>2. PICK b \in Agents : AtHome(e, b)  BY <3>1 DEF Lines
      <3>3. AtHome(e, b)'
        <4>1. Ids(text[b], "line") \subseteq Ids(text'[b], "line")  BY <1>3, <1>4
        <4> QED  BY <1>4, <1>5, <3>2, <4>1 DEF AtHome
      <3> QED  BY <3>3
    <2> QED  BY <2>1, <2>2
  <1>11. BootsWithContext'  BY DEF BootsWithContext
  <1> QED  BY <1>7, <1>8, <1>9, <1>10, <1>11

-----------------------------------------------------------------------------
(* Theorems *)

\* IInv holds in every reachable state, whatever the shells, the agents and the bounds.
THEOREM Invariance == Spec => []IInv
  <1>1. ASSUME IInv, [Next]_vars PROVE IInv'
    <2>1. ASSUME NEW t \in Terminals, SwitchStep(t) PROVE IInv'
      BY <1>1, <2>1, MissInv, CreateOpenInv, CreateWriteInv, ReadDocInv, TruncateDocInv,
         WriteDocInv, MarkerOpenInv, MarkerPutInv, TmuxKillInv, TmuxOpenInv DEF SwitchStep
    <2>2. ASSUME NEW t \in Terminals,
                 \/ HookStep(t) \/ Exit(t) \/ Enter(t)
                 \/ \E a \in Agents : LaunchByHand(t, a)
          PROVE  IInv'
      BY <1>1, <2>2, ShellInv DEF HookStep
    <2>3. CASE UNCHANGED vars
      <3>1. /\ TerminalsOK' /\ SwitchesOK' /\ RelayOK' /\ UserOK'
        BY <1>1, <2>3 DEF IInv, Types, TerminalsOK, SwitchesOK, RelayOK, UserOK,
                          vars, relay, user, history
      <3>2. \A a : Rewriting(a)' = Rewriting(a)
        BY <2>3 DEF Rewriting, vars
      <3>3. Markers' /\ Blocks' /\ Lines'
        BY <1>1, <2>3, <3>2 DEF IInv, Markers, Unmarked, Blocks, Lines, AtHome,
                                vars, relay, user, history
      <3>4. Landed'
        BY <1>1, <2>3, <3>2 DEF IInv, Landed, Launches, Reached, vars, relay, user, history
      <3>5. BootsWithContext'
        BY <1>1, <2>3 DEF IInv, BootsWithContext, vars, history
      <3> QED  BY <3>1, <3>3, <3>4, <3>5 DEF IInv, Types
    <2> QED
      BY <1>1, <2>1, <2>2, <2>3, BeginInv, McpReturnsInv, InterruptInv, EditInv DEF Next
  <1> QED  BY InitInv, <1>1, PTL DEF Spec

\* The variables of the relay keep their types; an agent runs exactly where one is.
THEOREM TypeCorrect == Spec => []TypeOK
  <1>1. IInv => TypeOK
    <2> SUFFICES ASSUME IInv PROVE TypeOK  OBVIOUS
    <2> USE DEF IInv, Types
    <2>1. inodes \in 0 .. MaxSwitches
      <3>1. inodes \in Nat /\ packages \in 0 .. MaxSwitches  BY DEF RelayOK
      <3> QED  BY <3>1, UnmarkedFinite, Bounds DEF Markers
    <2>2. \A t \in Terminals :
            /\ sw[t].at \in Stages
            /\ sw[t].target \in Agents \cup {None} /\ sw[t].pkg \in 0 .. packages
            /\ sw[t].copy \in Seq(Parts) /\ sw[t].inode \in 0 .. inodes
            /\ sw[t].at # "none" => at[t] \in {"busy", "agent"}
      <3>1. \A t \in Terminals : sw[t] \in Switches  BY DEF SwitchesOK
      <3>2. packages \in Nat /\ inodes \in Nat  BY DEF RelayOK
      <3> QED  BY <3>1, <3>2, Bounds DEF SwitchesOK, Switches
    <2>3. marker = None \/ marker \in [inode : 1 .. inodes, cmd : Commands]
      BY DEF RelayOK
    <2> QED  BY <2>1, <2>2, <2>3 DEF TypeOK, TerminalsOK, RelayOK, UserOK, Stages
  <1> QED  BY <1>1, Invariance, PTL

\* An instruction file carries one handoff at most (the block before is removed by the
\* switch that appends one), as long as no switch has written over another's handoff.
THEOREM OneHandoff == Spec => []OneHandoffPerFile
  <1>1. IInv => OneHandoffPerFile
    BY OneBlockId DEF IInv, Blocks, OneHandoffPerFile
  <1> QED  BY <1>1, Invariance, PTL

\* An agent that a switch starts finds the handoff of that switch, or that one has been
\* replaced; and it finds some handoff, unless the file is being rewritten, or a switch
\* has died over it or has created it anew.
THEOREM AgentsFindTheirHandoff == Spec => []BootsWithContext
  <1>1. IInv => BootsWithContext  BY DEF IInv
  <1> QED  BY <1>1, Invariance, PTL

\* What the user adds to an instruction file outlives every switch, unless it is added
\* while a switch holds the text or takes the file for missing, or two switches, or a
\* switch and an interrupt, meet over the file.
THEOREM LinesOutliveSwitches == Spec => []UserTextKept
  <1>1. IInv => UserTextKept
    <2> SUFFICES ASSUME IInv, NEW e \in (1 .. edits) \ atRisk
                 PROVE  \E a \in Agents : \/ e \in Ids(text[a], "line")
                                          \/ \E t \in Rewriting(a) : e \in Ids(sw[t].copy, "line")
      BY DEF UserTextKept
    <2>1. PICK a \in Agents : AtHome(e, a)  BY DEF IInv, Lines
    <2> QED  BY <2>1 DEF AtHome, Rewriting
  <1> QED  BY <1>1, Invariance, PTL
=============================================================================
