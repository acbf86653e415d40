------------------------------- MODULE MCTools -------------------------------
(***************************************************************************)
(* The tools of an agent, each for itself: the tools of an MCP server      *)
(* (McpConnections), the output of a command (CommandOutput), the edits of *)
(* a file (FileEdits) and the search of a workspace (FileSearch); and the  *)
(* skills that are installed (SkillInstall). They share no state; part     *)
(* says which of them a behaviour is about. The part "samples" makes one   *)
(* edit of one of many files, and stops.                                   *)
(***************************************************************************)
EXTENDS McpConnections, Sequences, TLC

CONSTANTS
  MaxLines, MaxBytes, Undecided, MaxLength, MaxChunk,
  Thread, MaxInline, MaxTurn,
  MaxHits, Limit, ScanFactor, MaxChanges,
  Slot, MaxRequests

VARIABLES
  part,
  raw, undecoded, decided, tail, atBoundary, decoded, completed, openLine, finished, temp, filed,
  rawChunks, offset, pages,
  file, turn, record, call, holder, shown, meanwhile,
  there, hits, tool, target, backend, limit, stage, queue, found, matches, changes, past,
  draft, skills, disk, config, saved, host, job, started, installs

Strings(S, lo, hi) == UNION {[1..k -> S] : k \in lo..hi}
Edit(old, new) == [old |-> old, new |-> new]

\* What the file holds, and what agents want to make of it.
Text == {<<"q", "r", "n", "p">>, <<"p">>}
Edits == {<<Edit(<<"p">>, <<"q">>)>>, <<Edit(<<"n">>, <<>>), Edit(<<"q">>, <<"p">>)>>}

\* One edit of any text, and two edits at once.
Plain == {"p", "q", "s", "n"}
Sample ==
  (Strings(Plain \cup {"r"}, 1, 3) \X {<<Edit(o, <<"p">>)>> : o \in Strings(Plain, 0, 2)})
  \cup (Strings(Plain, 4, 4) \X {<<Edit(o, <<"p">>)>> : o \in Strings(Plain, 1, 3)})
  \cup (Strings(Plain, 1, 3) \X {<<Edit(o, <<"p">>), Edit(u, <<>>)>> : o, u \in Strings(Plain, 1, 2)})

\* A workspace of two files in a directory, one beside it, and an empty directory.
Top == 1
Dir == {3}
File == {2, 4, 5}
Parent == 2 :> 1 @@ 3 :> 1 @@ 4 :> 3 @@ 5 :> 3
Named == {4, 5}

\* Uploads of two files each: scripts, scripts of one name, a package, and a package with
\* a directory of the name of its root. The first two, and the last two, get one id.
Draft == {"tool", "twins", "package", "nested"}
Uploads ==
  "tool" :> <<<<"run.py">>, <<"a.py">>>> @@ "twins" :> <<<<"x", "run.py">>, <<"y", "run.py">>>> @@
  "package" :> <<<<"pkg", "SKILL.md">>, <<"pkg", "lib.py">>>> @@
  "nested" :> <<<<"pkg", "SKILL.md">>, <<"pkg", "pkg", "x.py">>>>
AskedMode == [d \in Draft |-> "scripts"]
IdOf == [d \in Draft |-> IF d \in {"tool", "twins"} THEN "run" ELSE "pkg"]

Asks(op, d, owner, body) == [op |-> op, draft |-> d, owner |-> owner, body |-> body]
Request ==
  {Asks("install", "tool", "ann", "good"), Asks("install", "package", "bob", "good"),
   Asks("install", "tool", "none", "bad"), Asks("install", "nested", "none", "good"),
   Asks("install", "twins", "none", "none"), Asks("config", "none", "none", "none")}
  \cup {Asks(op, "twins", "none", "none") : op \in {"analyze", "generate"}}

Output == INSTANCE CommandOutput WITH open <- openLine
Editing == INSTANCE FileEdits
Search == INSTANCE FileSearch
Skills == INSTANCE SkillInstall WITH current <- config, past <- installs

outputVars == <<raw, undecoded, decided, tail, atBoundary, decoded, completed, openLine, finished, temp,
                filed, rawChunks, offset, pages>>
editVars == <<file, turn, record, call, holder, shown, meanwhile>>
searchVars == <<there, hits, tool, target, backend, limit, stage, queue, found, matches, changes, past>>
skillVars == <<draft, skills, disk, config, saved, host, job, started, installs>>
vars == <<part, mcpVars, outputVars, editVars, searchVars, skillVars>>

Part == {"mcp", "output", "edits", "search", "skills"}

\* A part that is not looked at starts in one state only.
Init ==
  /\ part \in Part \cup {"samples"}
  /\ McpInit /\ Output!Init
  /\ IF part = "edits" THEN Editing!Init
     ELSE IF part = "samples" THEN \E s \in Sample : Editing!InitEditing(s[1], s[2])
     ELSE Editing!InitWith(<<>>)
  /\ Search!Init
  /\ part # "search" => there = {Top} /\ \A f \in File : hits[f] = 0
  /\ Skills!Init
  /\ part # "skills" => ~disk.rough /\ config = {}

StepOf(p) ==
  /\ part = p /\ part' = part
  /\ IF p = "mcp" THEN McpNext ELSE UNCHANGED mcpVars
  /\ IF p = "output" THEN Output!Next ELSE UNCHANGED outputVars
  /\ IF p = "edits" THEN Editing!Next ELSE UNCHANGED editVars
  /\ IF p = "search" THEN Search!Next ELSE UNCHANGED searchVars
  /\ IF p = "skills" THEN Skills!Next ELSE UNCHANGED skillVars

StoreSample ==
  /\ part = "samples" /\ part' = part
  /\ \E t \in Thread : Editing!Store(t)
  /\ UNCHANGED <<mcpVars, outputVars, searchVars, skillVars>>

Next == StoreSample \/ \E p \in Part : StepOf(p)

Spec == Init /\ [][Next]_vars
-----------------------------------------------------------------------------
\* Edits do what they were told to as FileEdits says.
EditsDoAsTold == Editing!EditsDoAsTold

\* A long output is shown, kept and read as CommandOutput says; ls, find and grep tell what
\* is in the workspace as FileSearch says.
AnswersAreTrue ==
  /\ part = "output" => Output!OutputIsTold
  /\ part = "search" => Search!AnswersTellTheWorkspace

\* Drafts and skills are what requests were told, as SkillInstall says.
SkillsAreAsTold == part = "skills" => Skills!SkillsAreAsTold
=============================================================================
