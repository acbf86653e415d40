------------------------------ MODULE FileSearch ------------------------------
(***************************************************************************)
(* The tools ls, find and grep on a workspace that changes while they look *)
(* at it. find and grep ask fd or ripgrep, where it is installed, and walk *)
(* through the directories themselves where it is not: breadth first, and  *)
(* no further than ScanFactor times the limit of the answer. An answer as  *)
(* long as its limit is called truncated.                                  *)
(*                                                                         *)
(* A path is a number, which gives the order of the names. StaysOnTop is a *)
(* way to get the next definition wrong.                                   *)
(***************************************************************************)
EXTENDS Naturals, Sequences, SequencesExt, FiniteSets, FiniteSetsExt, Functions

CONSTANTS
  Top,                 \* the workspace
  Dir, File,           \* the directories and files that may be in it
  Parent,              \* the directory of each of them
  Named,               \* the files whose names match the pattern of find, or the glob of grep
  MaxHits,             \* bound: lines of a file that match
  Limit,               \* limits that are asked for
  ScanFactor,          \* 8 in the code
  MaxChanges           \* bound: changes of the workspace

VARIABLES
  there,               \* the paths that exist
  hits,                \* how many lines of each file match the pattern
  tool, target, backend, limit,
  stage,               \* "idle", "walking", "looking", "done", "failed"
  queue,               \* collectPaths: directories to be read
  found,               \* what is still to be looked at: paths, or lines that ripgrep printed
  matches,             \* the answer: pairs of a path and a line, 0 when the path is meant
  changes,
  past                 \* history: what has matched, what always has, and what went wrong

searchVars == <<there, hits, tool, target, backend, limit, stage, queue, found, matches, changes, past>>

Node == {Top} \cup Dir \cup File

-----------------------------------------------------------------------------
Above[p \in Node] == IF p = Top THEN {Top} ELSE {p} \cup Above[Parent[p]]
InOrder(paths) == SetToSortSeq(paths, <)
Entries(dir) == InOrder({p \in there \ {Top} : Parent[p] = dir})

\* All that an answer could tell, were it given now.
Lines(f) == {<<f, n>> : n \in 1..hits[f]}
Matching(what, where) ==
  LET files == {f \in File \cap there \cap Named : where \in Above[f]} IN
  CASE what = "ls"   -> {<<p, 0>> : p \in ToSet(Entries(where))}
    [] what = "find" -> {<<f, 0>> : f \in files}
    [] what = "grep" -> UNION {Lines(f) : f \in files}

NoPast == [seen |-> {}, kept |-> {}, gone |-> FALSE, cut |-> FALSE, refused |-> FALSE]

Init ==
  /\ there \in {s \in SUBSET Node : Top \in s /\ \A p \in s \ {Top} : Parent[p] \in s}
  /\ hits \in [File -> 0..MaxHits]
  /\ tool = "none" /\ target = Top /\ backend = "none" /\ limit = 0
  /\ stage = "idle" /\ queue = <<>> /\ found = <<>> /\ matches = <<>>
  /\ changes = 0 /\ past = NoPast

Begin(what, where, max) ==
  /\ stage = "idle" /\ where \in there
  /\ tool' = what /\ target' = where /\ limit' = max /\ matches' = <<>>
  /\ past' = [NoPast EXCEPT !.seen = Matching(what, where), !.kept = Matching(what, where)]
  /\ UNCHANGED <<there, hits, changes>>

First(s, n) == SubSeq(s, 1, Min({n, Len(s)}))

List(where, max) ==
  /\ Begin("ls", where, max)
  /\ backend' = "none" /\ stage' = "looking" /\ queue' = <<>>
  /\ found' = [i \in DOMAIN First(Entries(where), max) |-> <<Entries(where)[i], 0>>]

\* Without a program: collectPaths.
Scan(what, where, max) ==
  /\ what \in {"find", "grep"} /\ Begin(what, where, max)
  /\ backend' = "scan" /\ stage' = "walking" /\ queue' = <<where>> /\ found' = <<>>

\* A program prints what matches: files in any order, the lines of a file in theirs. fd
\* stops at the limit. One that fails prints nothing, and is not asked why.
Orders(s) == {o \in [1..Cardinality(s) -> s] : IsInjective(o)}
LinesOf(files) == FlattenSeq([i \in DOMAIN files |-> [n \in 1..hits[files[i]] |-> <<files[i], n>>]])
Ask(program, what, where, max) ==
  /\ what \in {"find", "grep"} /\ (program = "fd" => what = "find")
  /\ stage = "idle" /\ where \in there
  /\ tool' = what /\ target' = where /\ limit' = max /\ matches' = <<>>
  /\ backend' = program /\ stage' = "looking" /\ queue' = <<>>
  /\ \E refused \in BOOLEAN :
       /\ past' = [seen |-> Matching(what, where), kept |-> Matching(what, where), gone |-> FALSE,
                   cut |-> FALSE, refused |-> refused]
       /\ \E o \in Orders({m[1] : m \in Matching(what, where)}) :
            found' = IF refused THEN <<>>
                     ELSE IF what = "grep" THEN LinesOf(o)
                     ELSE First([i \in DOMAIN o |-> <<o[i], 0>>], IF program = "fd" THEN max ELSE Len(o))
  /\ UNCHANGED <<there, hits, changes>>

Cap == ScanFactor * limit

\* The entries of a directory are taken up to the cap.
StaysOnTop(acc, p) == [acc EXCEPT !.found = IF p \in Dir THEN @ ELSE Append(@, <<p, 0>>)]
Take(acc, p) ==
  IF Len(acc.found) >= Cap THEN acc
  ELSE IF p \in Dir THEN [acc EXCEPT !.queue = Append(@, p)]
  ELSE [acc EXCEPT !.found = Append(@, <<p, 0>>)]

Fail == stage' = "failed" /\ queue' = <<>> /\ found' = <<>> /\ matches' = <<>>

Walk ==
  /\ stage = "walking" /\ queue # <<>> /\ Len(found) < Cap
  /\ IF Head(queue) \in there
     THEN LET taken == FoldLeft(Take, [queue |-> Tail(queue), found |-> found], Entries(Head(queue)))
          IN queue' = taken.queue /\ found' = taken.found /\ UNCHANGED <<stage, matches>>
     ELSE Fail
  /\ UNCHANGED <<there, hits, tool, target, backend, limit, changes, past>>

WalkEnds ==
  /\ stage = "walking" /\ (queue = <<>> \/ Len(found) >= Cap)
  /\ stage' = "looking" /\ past' = [past EXCEPT !.cut = Len(found) >= Cap]
  /\ UNCHANGED <<there, hits, tool, target, backend, limit, queue, found, matches, changes>>

\* find looks at names only.
AnswerFind ==
  /\ stage = "looking" /\ tool = "find" /\ stage' = "done"
  /\ matches' = First(SelectSeq(found, LAMBDA m : m[1] \in Named), limit)
  /\ UNCHANGED <<there, hits, tool, target, backend, limit, queue, found, changes, past>>

\* ls asks for the kind of each entry, grep reads each file, and for each line of ripgrep
\* the file of that line.
Found(m) ==
  IF backend = "scan" THEN [n \in 1..hits[m[1]] |-> <<m[1], n>>] ELSE <<m>>
Look ==
  /\ stage = "looking" /\ tool # "find" /\ found # <<>> /\ Len(matches) < limit
  /\ LET m == Head(found) IN
     IF tool = "grep" /\ m[1] \notin Named THEN found' = Tail(found) /\ UNCHANGED <<stage, queue, matches>>
     ELSE IF m[1] \notin there THEN Fail
     ELSE /\ matches' = First(matches \o Found(m), limit) /\ found' = Tail(found)
          /\ UNCHANGED <<stage, queue>>
  /\ UNCHANGED <<there, hits, tool, target, backend, limit, changes, past>>

Answer ==
  /\ stage = "looking" /\ tool # "find" /\ (found = <<>> \/ Len(matches) >= limit)
  /\ stage' = "done"
  /\ UNCHANGED <<there, hits, tool, target, backend, limit, queue, found, matches, changes, past>>

\* Others make files and directories, remove them with all that is in them, and write.
Change ==
  /\ stage \in {"walking", "looking"} /\ changes < MaxChanges /\ changes' = changes + 1
  /\ UNCHANGED <<tool, target, backend, limit, stage, queue, found, matches>>
  /\ \/ \E p \in Node \ there : Parent[p] \in there /\ there' = there \cup {p} /\ hits' = hits
     \/ \E p \in there \ {Top} : there' = {q \in there : p \notin Above[q]} /\ hits' = hits
     \/ \E f \in there \cap File, n \in 0..MaxHits : hits' = [hits EXCEPT ![f] = n] /\ there' = there
  /\ past' = [past EXCEPT !.seen = @ \cup Matching(tool, target)', !.kept = @ \cap Matching(tool, target)',
                          !.gone = @ \/ ~(there \subseteq there')]

Next ==
  \/ \E where \in {Top} \cup Dir, max \in Limit :
       \/ List(where, max)
       \/ \E what \in {"find", "grep"} :
            Scan(what, where, max) \/ \E program \in {"fd", "rg"} : Ask(program, what, where, max)
  \/ Walk \/ WalkEnds \/ AnswerFind \/ Look \/ Answer \/ Change
-----------------------------------------------------------------------------
\* truncated, and match_limit_reached
Truncated == Len(matches) >= limit

\* An answer tells nothing that was not so at some time of the call, nothing twice, and no
\* more than was asked for.
AnswerIsTrue ==
  stage = "done" => ToSet(matches) \subseteq past.seen /\ IsInjective(matches) /\ Len(matches) <= limit

\* What was there all the time is in the answer, or the answer tells that something may be
\* missing; but a walk that was cut off, and a program that failed, are not told of
\* (builtin-search-tools.ts:165, builtin-tool-utils.ts:439).
AnswerIsComplete ==
  stage = "done" /\ ~Truncated /\ ~past.cut /\ ~past.refused => past.kept \subseteq ToSet(matches)

\* A call fails only because something was removed while it looked.
FailsByRemovalOnly == stage = "failed" => past.gone

AnswersTellTheWorkspace == AnswerIsTrue /\ AnswerIsComplete /\ FailsByRemovalOnly
=============================================================================
