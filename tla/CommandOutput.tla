----------------------------- MODULE CommandOutput -----------------------------
(***************************************************************************)
(* What a model is told of a long output. The output of a command arrives  *)
(* in chunks; the accumulator keeps its last bytes, counts the rest, and   *)
(* writes all of it to a temporary file once it is over the limits. The    *)
(* snapshot of it is the end of the output, and the tool `read` then shows *)
(* the file page after page, each page telling where the next one begins.  *)
(*                                                                         *)
(* A text is a sequence of bytes: "n" is the line feed, "x" any other one, *)
(* a character of its own. The first Undecided bytes are held back until   *)
(* the encoding is known, which is UTF-8 here.                             *)
(*                                                                         *)
(* PassesOver is a way to get the next definition wrong.                   *)
(***************************************************************************)
EXTENDS TextLines, FiniteSetsExt

CONSTANTS
  MaxLines, MaxBytes, \* DEFAULT_MAX_LINES, DEFAULT_MAX_BYTES
  Undecided,          \* 32 in the code
  MaxLength, MaxChunk \* bounds: bytes of output, bytes of a chunk

VARIABLES
  raw,                \* all that was appended: totalRawBytes is its length
  undecoded, decided, \* decodeBuffer, and whether there is a decoder
  tail, atBoundary,   \* tailText, tailStartsAtLineBoundary
  decoded,            \* totalDecodedBytes
  completed, open,    \* completedLines, hasOpenLine
  finished,
  temp, filed,        \* the temporary file and what was written to it
  rawChunks,
  offset, pages       \* what the reader was told to read next, and what it has read

outputVars == <<raw, undecoded, decided, tail, atBoundary, decoded, completed, open, finished,
                temp, filed, rawChunks, offset, pages>>

Byte == {"x", "n"}
Chunk == UNION {[1..k -> Byte] : k \in 1..MaxChunk}
-----------------------------------------------------------------------------
splitLinesForCounting(text) ==
  LET ls == SplitLines(text) IN IF Last(ls) = <<>> THEN Front(ls) ELSE ls

LastBytes(text, n) == SubSeq(text, 1 + IF Len(text) > n THEN Len(text) - n ELSE 0, Len(text))

Fits(text) == Len(splitLinesForCounting(text)) <= MaxLines /\ Len(text) <= MaxBytes

\* How many lines are kept: as many as fit, one after the other.
Kept(Part(_), ls) ==
  Max({k \in 0..Min({Len(ls), MaxLines}) : Len(JoinLines(Part(k))) <= MaxBytes})

Truncation(content, by, shown) ==
  [content |-> content, by |-> by, shown |-> shown, firstLineExceedsLimit |-> FALSE]
Untruncated(text) == Truncation(text, "none", Len(splitLinesForCounting(text)))

truncateHead(text) ==
  LET ls == splitLinesForCounting(text)
      First(k) == SubSeq(ls, 1, k)
      k == Kept(First, ls)
  IN IF Fits(text) THEN Untruncated(text)
     ELSE IF Len(ls[1]) > MaxBytes
       THEN [Truncation(<<>>, "bytes", 0) EXCEPT !.firstLineExceedsLimit = TRUE]
     ELSE Truncation(JoinLines(First(k)), IF k = Min({Len(ls), MaxLines}) THEN "lines" ELSE "bytes", k)

truncateTail(text) ==
  LET ls == splitLinesForCounting(text)
      LastOnes(k) == SubSeq(ls, Len(ls) - k + 1, Len(ls))
      k == Kept(LastOnes, ls)
  IN IF Fits(text) THEN Untruncated(text)
     ELSE IF k = 0 THEN Truncation(LastBytes(Last(ls), MaxBytes), "bytes", 1)
     ELSE Truncation(JoinLines(LastOnes(k)), IF k = Min({Len(ls), MaxLines}) THEN "lines" ELSE "bytes", k)
-----------------------------------------------------------------------------
maxRollingBytes == 2 * MaxBytes

Init ==
  /\ raw = <<>> /\ undecoded = <<>> /\ decided = FALSE
  /\ tail = <<>> /\ atBoundary = TRUE
  /\ decoded = 0 /\ completed = 0 /\ open = FALSE /\ finished = FALSE
  /\ temp = "none" /\ filed = <<>> /\ rawChunks = <<>>
  /\ offset = 1 /\ pages = <<>>

\* trimTail: the end of the text is kept, wherever a line begins.
Trimmed(text) == LastBytes(text, maxRollingBytes)
BoundaryAfter(text) ==
  IF Len(text) <= maxRollingBytes THEN atBoundary
  ELSE text[Len(text) - maxRollingBytes] = "n"

CountLines(text) ==
  /\ completed' = completed + Len(SelectSeq(text, LAMBDA c : c = "n"))
  /\ open' = IF text = <<>> THEN open ELSE Last(text) # "n"

appendDecodedText(text) ==
  LET long == tail \o text
      cut == Len(long) > 2 * maxRollingBytes
  IN /\ decoded' = decoded + Len(text)
     /\ tail' = IF cut THEN Trimmed(long) ELSE long
     /\ atBoundary' = IF cut THEN BoundaryAfter(long) ELSE atBoundary
     /\ CountLines(text)

\* appendDecodedBytes: nothing is decoded before the encoding has been chosen.
appendDecodedBytes(data, final) ==
  LET buffered == IF decided THEN data ELSE undecoded \o data
      decides == decided \/ final \/ Len(buffered) >= Undecided
  IN /\ decided' = decides
     /\ undecoded' = IF decides THEN <<>> ELSE buffered
     /\ appendDecodedText(IF decides THEN buffered ELSE <<>>)

totalLines == completed + IF open THEN 1 ELSE 0

\* shouldUseTempFile, after what was just appended
ShouldUseTempFile ==
  Len(raw') > MaxBytes \/ decoded' > MaxBytes \/ completed' + (IF open' THEN 1 ELSE 0) > MaxLines

ensureTempFile ==
  IF temp = "none" THEN temp' = "open" /\ filed' = rawChunks /\ rawChunks' = <<>>
  ELSE UNCHANGED <<temp, filed, rawChunks>>

\* append: the chunks that came before the file was there are written first.
append(data) ==
  /\ ~finished /\ Len(raw) + Len(data) <= MaxLength
  /\ raw' = raw \o data
  /\ appendDecodedBytes(data, FALSE)
  /\ IF temp = "open" \/ ShouldUseTempFile
     THEN temp' = "open" /\ filed' = filed \o rawChunks \o data /\ rawChunks' = <<>>
     ELSE rawChunks' = rawChunks \o data /\ UNCHANGED <<temp, filed>>
  /\ UNCHANGED <<finished, offset, pages>>

finish ==
  /\ ~finished /\ finished' = TRUE
  /\ appendDecodedBytes(<<>>, TRUE)
  /\ UNCHANGED raw
  /\ IF ShouldUseTempFile THEN ensureTempFile ELSE UNCHANGED <<temp, filed, rawChunks>>
  /\ UNCHANGED <<offset, pages>>

\* getSnapshotText: a line of which the beginning is lost is left out, if another follows.
SnapshotText ==
  LET text == tail \o undecoded
  IN IF atBoundary \/ SplitLines(text)[1] = text THEN text ELSE JoinLines(Tail(SplitLines(text)))

IsTruncated == totalLines > MaxLines \/ decoded > MaxBytes

\* snapshot with persistIfTruncated, as all callers take it: while the command runs, for
\* an update, and when it is over.
Snapshot == truncateTail(SnapshotText).content
Persist ==
  /\ IsTruncated /\ ensureTempFile
  /\ UNCHANGED <<raw, undecoded, decided, tail, atBoundary, decoded, completed, open, finished,
                 offset, pages>>

closeTempFile ==
  /\ finished /\ temp = "open" /\ temp' = "closed"
  /\ UNCHANGED <<raw, undecoded, decided, tail, atBoundary, decoded, completed, open, finished,
                 filed, rawChunks, offset, pages>>
-----------------------------------------------------------------------------
\* The tool `read`, called with the offset the call before it has told: 0 stands for none.
Selected(text, from, limit) ==
  LET ls == SplitLines(text) IN JoinLines(SubSeq(ls, from, Min({Len(ls), from + limit - 1})))

PassesOver(text, from, limit) ==
  LET page == truncateHead(Selected(text, from, limit))
  IN IF page.firstLineExceedsLimit THEN 0
     ELSE IF page.by # "none" \/ from - 1 + limit < Len(SplitLines(text)) THEN from + limit
     ELSE 0
NextOffset(text, from, limit) ==
  LET page == truncateHead(Selected(text, from, limit))
  IN IF page.firstLineExceedsLimit THEN 0
     ELSE IF page.by # "none" THEN Max({from, from + page.shown - 1}) + 1
     ELSE IF from - 1 + limit < Len(SplitLines(text)) THEN from + limit
     ELSE 0

Read(limit) ==
  /\ temp = "closed" /\ offset > 0
  /\ pages' = Append(pages, truncateHead(Selected(filed, offset, limit)).content)
  /\ offset' = NextOffset(filed, offset, limit)
  /\ UNCHANGED <<raw, undecoded, decided, tail, atBoundary, decoded, completed, open, finished,
                 temp, filed, rawChunks>>

Next ==
  \/ \E data \in Chunk : append(data)
  \/ finish \/ Persist \/ closeTempFile
  \/ \E limit \in 1..(MaxLines + 1) : Read(limit)
-----------------------------------------------------------------------------
\* The snapshot is the end of the output, as truncateTail would cut it out of the whole (but
\* for a line feed at its end). Only if the output ends with a complete line that is longer
\* than what the accumulator holds, nothing is left to show (output-accumulator.ts:275).
LastLine(text) == Last(splitLinesForCounting(text))
SnapshotShowsTheEnd ==
  \/ \E end \in {<<>>, <<"n">>} : Snapshot = truncateTail(raw).content \o end
  \/ /\ Last(raw) = "n" /\ Len(LastLine(raw)) >= maxRollingBytes
     /\ Snapshot = <<>>

\* The totals told with it are those of the output, once it has been decoded, and where
\* something is missing there is a file, which has everything.
TotalsAreTrue ==
  decided => totalLines = Len(splitLinesForCounting(raw)) /\ decoded = Len(raw)
FileHasEverything ==
  /\ temp # "none" => filed = raw
  /\ finished /\ IsTruncated => temp # "none"

\* Pages that are read one after the other, with any limits, are the beginning of the
\* file; when no next page is told they are the whole file, or the next line is too long
\* to be shown, of which the page tells.
PagesAreTheFile ==
  pages # <<>> =>
    IF offset > 0 THEN IsStrictPrefix(JoinLines(pages), filed)
    ELSE \/ JoinLines(pages) = filed
         \/ /\ Last(pages) = <<>> /\ IsPrefix(JoinLines(pages), filed)
            /\ Len(SplitLines(filed)[Len(SplitLines(JoinLines(pages)))]) > MaxBytes

\* A model is told the end of an output, what is missing, and where and how to read it.
OutputIsTold == SnapshotShowsTheEnd /\ TotalsAreTrue /\ FileHasEverything /\ PagesAreTheFile
=============================================================================
