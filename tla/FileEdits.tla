------------------------------- MODULE FileEdits -------------------------------
(***************************************************************************)
(* A file that the agents of several threads read, edit and write through  *)
(* the local tool host, and that shells change, too. An edit names texts   *)
(* to be replaced; the host lets it pass only if the thread has read them  *)
(* in this turn, asks for approval, and applies it to what the file holds  *)
(* then.                                                                   *)
(*                                                                         *)
(* A text is a sequence of characters: "n" is the line feed, "r" the       *)
(* carriage return, "s" a space, "p" a plain quote, and "q" a typographic  *)
(* one. The file is named by its path in the workspace, or by a path       *)
(* outside of it of which only the last part is kept.                      *)
(*                                                                         *)
(* NeverTwice is a way to get the next definition wrong.                   *)
(***************************************************************************)
EXTENDS TextLines, Integers, FiniteSets, FiniteSetsExt

CONSTANTS
  Thread,
  Text,        \* what the file may hold to begin with, and what is written to it
  Edits,       \* the edits agents make: sequences of records [old, new]
  MaxInline,   \* maxInlineBytes of the output budget
  MaxTurn      \* bound: turns of a thread

VARIABLES
  file,
  turn,        \* the turn each thread is in
  record,      \* the read tracker's record of the file, for each thread
  call,        \* the call each thread makes
  holder,      \* who has its turn in the file's mutation queue
  shown,       \* history: the edits of which a read has shown each thread the old texts, in its turn
  meanwhile    \* history: the file was changed by a shell while it was being edited

editVars == <<file, turn, record, call, holder, shown, meanwhile>>

None == "none"
Path == {"inside", "outside"}
-----------------------------------------------------------------------------
normalizeToLF(text) ==
  FlattenSeq([i \in DOMAIN text |->
    CASE text[i] = "r" -> <<"n">>
      [] text[i] = "n" /\ i > 1 /\ text[IF i > 1 THEN i - 1 ELSE 1] = "r" -> <<>>
      [] OTHER -> <<text[i]>>])

IndexOf(text, w) ==
  LET at == {i \in 0..(Len(text) - Len(w)) : SubSeq(text, i + 1, i + Len(w)) = w}
  IN IF at = {} THEN -1 ELSE Min(at)

\* The ending of the first line, if it is "\r\n" or "\n".
detectLineEnding(text) ==
  LET crlf == IndexOf(text, <<"r", "n">>) IN
  IF crlf # -1 /\ crlf < IndexOf(text, <<"n">>) THEN <<"r", "n">> ELSE <<"n">>
restoreLineEndings(text, ending) ==
  FlattenSeq([i \in DOMAIN text |-> IF text[i] = "n" THEN ending ELSE <<text[i]>>])

\* Without the spaces at the end of each line, and with plain quotes.
TrimEnd(line) ==
  SubSeq(line, 1, Max({0} \cup {i \in DOMAIN line : line[i] # "s"}))
TrimLines(ls) == JoinLines([i \in DOMAIN ls |-> TrimEnd(ls[i])])
PlainQuotes(text) == [i \in DOMAIN text |-> IF text[i] = "q" THEN "p" ELSE text[i]]
normalizeForFuzzyMatch(text) == PlainQuotes(TrimLines(SplitLines(text)))

\* Where a text is found, as it is or else in its normal form; at = -1 if it is not.
FoundAt(at, length, fuzzy) == [at |-> at, length |-> length, fuzzy |-> fuzzy /\ at # -1]
FindFuzzy(content, old) == FoundAt(IndexOf(content, old), Len(old), TRUE)
fuzzyFindText(content, old) ==
  IF IndexOf(content, old) # -1 THEN FoundAt(IndexOf(content, old), Len(old), FALSE)
  ELSE FindFuzzy(normalizeForFuzzyMatch(content), normalizeForFuzzyMatch(old))

\* split(w).length - 1: occurrences are counted one after the other; the empty text
\* stands between any two characters.
SplitCount(text, w) ==
  IF w = <<>> THEN Len(text) - 1
  ELSE FoldLeft(LAMBDA acc, i : IF i >= acc.from /\ SubSeq(text, i, i + Len(w) - 1) = w
                                THEN [from |-> i + Len(w), count |-> acc.count + 1] ELSE acc,
                [from |-> 1, count |-> 0], [i \in 1..(Len(text) - Len(w) + 1) |-> i]).count
NeverTwice(content, old) == 1
countOccurrences(content, old) ==
  SplitCount(normalizeForFuzzyMatch(content), normalizeForFuzzyMatch(old))

Normalized(es) == [i \in DOMAIN es |-> [old |-> normalizeToLF(es[i].old), new |-> normalizeToLF(es[i].new)]]

BaseContent(content, es) ==
  IF \E i \in DOMAIN es : fuzzyFindText(content, es[i].old).fuzzy
  THEN normalizeForFuzzyMatch(content) ELSE content

Placed(base, es) == [i \in DOMAIN es |-> fuzzyFindText(base, es[i].old) @@ [new |-> es[i].new]]
InOrder(found) == SortSeq(found, LAMBDA x, y : x.at < y.at)

\* From the last to the first, so that the places before stay where they are.
Spliced(base, found) ==
  FoldRight(LAMBDA e, c : SubSeq(c, 1, e.at) \o e.new \o SubSeq(c, e.at + e.length + 1, Len(c)), found, base)

\* The new content, and whether the edits can be made at all.
Refused == [done |-> FALSE, content |-> <<>>]
Made(base, es, found, content) ==
  IF /\ \A i \in DOMAIN es : es[i].old # <<>> /\ countOccurrences(base, es[i].old) <= 1
     /\ \A i \in DOMAIN es : found[i].at # -1
     /\ \A i \in 2..Len(es) : found[i - 1].at + found[i - 1].length <= found[i].at
     /\ content # base
  THEN [done |-> TRUE, content |-> content]
  ELSE Refused
MakeAt(base, es, found) == Made(base, es, found, Spliced(base, found))
Make(base, es) == MakeAt(base, es, InOrder(Placed(base, es)))
Apply(content, es) == Make(BaseContent(content, es), es)
applyEditsToNormalizedContent(content, edits) == Apply(content, Normalized(edits))

\* What the tool `edit` makes of a file.
Edited(source, edits) ==
  [applyEditsToNormalizedContent(normalizeToLF(source), edits)
     EXCEPT !.content = restoreLineEndings(@, detectLineEnding(source))]
-----------------------------------------------------------------------------
Idle == [at |-> "idle", tool |-> None, edits |-> <<>>, text |-> <<>>]
NoRecord == [turn |-> 0, content |-> <<>>]

InitWith(text) ==
  /\ file = text /\ call = [t \in Thread |-> Idle] /\ holder = None
  /\ turn = [t \in Thread |-> 1] /\ record = [t \in Thread |-> NoRecord]
  /\ shown = [t \in Thread |-> {}] /\ meanwhile = FALSE

\* An edit of a text is about to be made.
InitEditing(text, edits) ==
  LET t == CHOOSE t \in Thread : TRUE
      editing == [Idle EXCEPT !.at = "editing", !.tool = "edit", !.edits = edits, !.text = text] IN
  /\ file = text /\ call = [u \in Thread |-> IF u = t THEN editing ELSE Idle] /\ holder = t
  /\ turn = [u \in Thread |-> 1] /\ record = [u \in Thread |-> NoRecord]
  /\ shown = [u \in Thread |-> {}] /\ meanwhile = FALSE

Init == \E text \in Text : InitWith(text)

To(t, where) == call' = [call EXCEPT ![t].at = where]
End(t) == call' = [call EXCEPT ![t] = Idle]

NewTurn(t) ==
  /\ call[t] = Idle /\ turn[t] < MaxTurn
  /\ turn' = [turn EXCEPT ![t] = @ + 1] /\ shown' = [shown EXCEPT ![t] = {}]
  /\ UNCHANGED <<file, record, call, holder, meanwhile>>

\* The tool `read`: any lines of the file. Reading needs no approval.
Page(from, to) == JoinLines(SubSeq(SplitLines(normalizeToLF(file)), from, to))
ReadFile(t) ==
  /\ call[t] = Idle
  /\ \E from \in DOMAIN SplitLines(normalizeToLF(file)) :
       \E to \in from..Len(SplitLines(normalizeToLF(file))) :
         call' = [call EXCEPT ![t] = [Idle EXCEPT !.at = "observing", !.tool = "read",
                                                   !.text = Page(from, to)]]
  /\ UNCHANGED <<file, turn, record, holder, shown, meanwhile>>

Includes(content, text) == IndexOf(content, text) # -1
IsBlank(text) == \A i \in DOMAIN text : text[i] \in {"s", "n", "r"}
AllIn(content, edits) == \A i \in DOMAIN edits : IsBlank(edits[i].old) \/ Includes(content, edits[i].old)

\* applyOutputBudget, then observeToolResult: a result that is put into a file of its own
\* has no path, and leaves no record.
ObserveToolResult(t) ==
  /\ call[t].at = "observing"
  /\ record' = IF Len(call[t].text) > MaxInline THEN record
               ELSE [record EXCEPT ![t] = [turn |-> turn[t], content |-> call[t].text]]
  /\ shown' = [shown EXCEPT ![t] = @ \cup {edits \in Edits : AllIn(call[t].text, edits)}]
  /\ End(t)
  /\ UNCHANGED <<file, turn, holder, meanwhile>>

\* The record is found by the path as it was given; read has resolved it.
WasRead(t, path, edits) ==
  /\ path = "inside" /\ record[t].turn = turn[t]
  /\ AllIn(record[t].content, edits)

ValidateBeforeTool(t, path, edits) ==
  /\ call[t] = Idle /\ WasRead(t, path, edits)
  /\ call' = [call EXCEPT ![t] = [Idle EXCEPT !.at = "asking", !.tool = "edit", !.edits = edits]]
  /\ UNCHANGED <<file, turn, record, holder, shown, meanwhile>>

\* The tool `write` is not one of those the read tracker knows.
BeginWrite(t, text) ==
  /\ call[t] = Idle
  /\ call' = [call EXCEPT ![t] = [Idle EXCEPT !.at = "asking", !.tool = "write", !.text = text]]
  /\ UNCHANGED <<file, turn, record, holder, shown, meanwhile>>

\* The approval is given, or not needed; or it is denied, or the turn aborted.
Approved(t) ==
  /\ call[t].at = "asking" /\ (To(t, "queued") \/ End(t))
  /\ UNCHANGED <<file, turn, record, holder, shown, meanwhile>>

\* In the mutation queue: edit reads the file and writes what it makes of it, write
\* writes.
Open(t) ==
  /\ call[t].at = "queued" /\ holder = None /\ holder' = t
  /\ call' = [call EXCEPT ![t].at = "editing", ![t].text = IF call[t].tool = "edit" THEN file ELSE @]
  /\ meanwhile' = FALSE
  /\ UNCHANGED <<file, turn, record, shown>>

Store(t) ==
  /\ call[t].at = "editing" /\ holder' = None
  /\ \E result \in {Edited(call[t].text, call[t].edits)} :
       file' = IF call[t].tool = "write" THEN call[t].text
               ELSE IF result.done THEN result.content ELSE file
  /\ End(t)
  /\ UNCHANGED <<turn, record, shown, meanwhile>>

\* A shell writes the file, whoever is editing it.
Shell ==
  /\ \E text \in Text : file' = text
  /\ meanwhile' = (holder # None)
  /\ UNCHANGED <<turn, record, call, holder, shown>>

\* clearReadTracker when the thread is compacted; all records go with a new tool host.
Clear(t) ==
  /\ record[t] # NoRecord /\ record' = [record EXCEPT ![t] = NoRecord]
  /\ UNCHANGED <<file, turn, call, holder, shown, meanwhile>>

Next ==
  \/ \E t \in Thread :
       \/ NewTurn(t) \/ ReadFile(t) \/ ObserveToolResult(t) \/ Approved(t) \/ Open(t) \/ Store(t) \/ Clear(t)
       \/ \E path \in Path, edits \in Edits : ValidateBeforeTool(t, path, edits)
       \/ \E text \in Text : BeginWrite(t, text)
  \/ Shell
-----------------------------------------------------------------------------
\* The text with each range that begins at cut[i] + 1 replaced.
Replaced(base, cut, length, es) ==
  FlattenSeq([p \in DOMAIN base |->
    IF \E i \in DOMAIN es : p = cut[i] + 1
    THEN es[CHOOSE i \in DOMAIN es : p = cut[i] + 1].new
    ELSE IF \E i \in DOMAIN es : p \in (cut[i] + 2)..(cut[i] + length[i]) THEN <<>>
    ELSE <<base[p]>>])

Overlaps(w) == \E k \in 1..(Len(w) - 1) : SubSeq(w, 1, k) = SubSeq(w, Len(w) - k + 1, Len(w))
Places(text, w) == {i \in 0..(Len(text) - Len(w)) : SubSeq(text, i + 1, i + Len(w)) = w}

\* An old text of spaces has an empty normal form, which stands before the first character;
\* in a file of which two characters or less are left it counts as found once.
MatchesNothing(text, es) ==
  Len(normalizeForFuzzyMatch(text)) <= 2 /\ \E i \in DOMAIN es : normalizeForFuzzyMatch(es[i].old) = <<>>

Forms(old) == {old, normalizeForFuzzyMatch(old)}
IsCut(es, cut, length) ==
  \A i, j \in DOMAIN es : i # j => cut[i] + length[i] <= cut[j] \/ cut[j] + length[j] <= cut[i]
HasOnePlace(base, sought) == Cardinality(Places(base, sought)) <= 1 \/ Overlaps(sought)
IsReplacement(base, es, content) ==
  /\ \E w \in [DOMAIN es -> UNION {Forms(es[i].old) : i \in DOMAIN es}] :
       \E cut \in [DOMAIN es -> 0..Len(base)] :
         /\ \A i \in DOMAIN es : w[i] \in Forms(es[i].old) /\ cut[i] \in Places(base, w[i])
         /\ IsCut(es, cut, [i \in DOMAIN es |-> Len(w[i])])
         /\ content = Replaced(base, cut, [i \in DOMAIN es |-> Len(w[i])], es)
  /\ \A i \in DOMAIN es : HasOnePlace(normalizeForFuzzyMatch(base), normalizeForFuzzyMatch(es[i].old))
Base(text, es) ==
  IF \A i \in DOMAIN es : Includes(text, es[i].old) THEN text ELSE normalizeForFuzzyMatch(text)

\* When every old text is in the file as it is given, each stands at one place, and the
\* file is changed there and nowhere else, but for line endings. Otherwise it is the file's
\* normal form of which this is true. Two edits never overlap. (Places of an old text that
\* overlap count as one.)
IsExact(text, es, content) == MatchesNothing(text, es) \/ IsReplacement(Base(text, es), es, content)
EditIsExact(source, edits, content) ==
  IsExact(normalizeToLF(source), Normalized(edits), normalizeToLF(content))

\* An edit replaces texts that its thread was shown in the turn it is in, wherever a read,
\* an edit or a write of another thread came in between.
EditsAreInformed ==
  \A t \in Thread :
    call[t].at \in {"asking", "queued"} /\ call[t].tool = "edit" => call[t].edits \in shown[t]

\* Edits of one call may be given in any order.
OrderIsIrrelevant ==
  \A t \in Thread :
    call[t].at = "editing" /\ call[t].tool = "edit" /\ ~MatchesNothing(call[t].text, call[t].edits) =>
      Edited(call[t].text, call[t].edits) = Edited(call[t].text, Reverse(call[t].edits))

\* An edit is exact, and what it is made of is what the file holds then: no edit or write
\* of another is undone by it, but what a shell wrote may be.
EditsAreExact ==
  \A t \in Thread :
    call[t].at = "editing" /\ call[t].tool = "edit" /\ call'[t].at = "idle" =>
      /\ call[t].text = file \/ meanwhile
      /\ file' # file /\ ~meanwhile => EditIsExact(file, call[t].edits, file')

\* Edits do what they were told to, and only that.
EditsDoAsTold == [][EditsAreInformed /\ OrderIsIrrelevant /\ EditsAreExact]_editVars
=============================================================================
