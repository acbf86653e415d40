--------------------------- MODULE SessionHistory ---------------------------
(***************************************************************************)
(* How the items of a thread become the prompts of its turns: the file of  *)
(* items (file-session-store.ts), its repair (model-history-repair.ts,     *)
(* history-healing.ts), the prompt builder and the compactor that replace  *)
(* old items by a summary, the messages the model client makes of a        *)
(* prompt, and the two requests that write the file beside the turns:      *)
(* POST compact and an interrupt that discards. Nothing keeps a turn or a  *)
(* request from writing between the read and the write of another.         *)
(*                                                                         *)
(* An item has a kind, a turn and an id; calls and their results share the *)
(* id. Token counts are a choice, and so is how much text has room: of the *)
(* items it replaces a summary tells what it covers, leaves out what it    *)
(* omits for want of lines or room, and loses what an earlier summary told *)
(* when that is clipped (forgets).                                         *)
(*                                                                         *)
(* EffectiveAfter is a way to get the next definition wrong.               *)
(***************************************************************************)
EXTENDS Naturals, Sequences, FiniteSets, SequencesExt

CONSTANTS
  Turn,
  CallId,
  CallsOf,   \* bound: the ids a turn uses, each for one call
  Keeps,     \* the numbers of recent items a compaction may keep
  MaxLines, FirstLines, LastLines, \* of a summary: 20, and the 4 and 14 that stay of more
  Fits,      \* the numbers of lines that may fit its budget
  Begin,     \* the files a run may find
  MaxAsides  \* bound: steers, interrupts, compactions

VARIABLES
  file,      \* the items as loadItems gives them: one per id
  phase,     \* where each turn is
  loaded,    \* what the build of a turn has read, and what was stored then
  prompt,    \* the history each turn sends to the model
  called,    \* the ids each turn has used
  stored,    \* history: keys of the user's messages and the answered calls
  overtaken, \* history: keys of what a write did not know of, or discarded
  aborted,
  turns,     \* the turns of the thread record, in their order
  aside,     \* the request in progress beside the turns
  asides

vars == <<file, phase, loaded, prompt, called, stored, overtaken, aborted, turns, aside,
          asides>>

Item(kind, turn, id) ==
  [kind |-> kind, turn |-> turn, id |-> id, covers |-> {}, omits |-> {}, forgets |-> {}]
Key(item) == <<item.turn, item.id>>
\* The items at the places in S, in their order.
At(items, S) ==
  LET places == SelectSeq([i \in DOMAIN items |-> i], LAMBDA i : i \in S)
  IN [k \in DOMAIN places |-> items[places[k]]]
-----------------------------------------------------------------------------
(***************************************************************************)
(* Repair: of each run of calls the calls that have a result stay, with    *)
(* their first results; only bridge items may come between.               *)
(***************************************************************************)
\* The end of the run of calls at i, and of the results and bridges after it.
CallsEnd(items, i) == Min({j \in i..(Len(items) + 1) : j > Len(items) \/ items[j].kind # "call"})

IsBridge(items, from, j, turn) ==
  \/ items[j].kind \in {"reasoning", "approval"}
  \/ /\ items[j].kind = "text" /\ items[j].turn = turn
     /\ \A r \in from..(j - 1) : items[r].kind # "result"

ResultsEnd(items, i) ==
  LET from == CallsEnd(items, i)
  IN Min({j \in from..(Len(items) + 1) :
            j > Len(items) \/ ~(items[j].kind = "result" \/ IsBridge(items, from, j, items[i].turn))})

Results(items, i) ==
  LET from == CallsEnd(items, i)
      ids == {items[j].id : j \in i..(from - 1)}
  IN {j \in from..(ResultsEnd(items, i) - 1) :
        /\ items[j].kind = "result" /\ items[j].id \in ids
        /\ \A r \in from..(j - 1) : items[r].kind = "result" => items[r].id # items[j].id}

Kept(items, i) ==
  LET answered == {items[j].id : j \in Results(items, i)}
  IN Results(items, i) \cup
       {j \in i..(CallsEnd(items, i) - 1) :
          items[j].id \in answered /\ \A r \in i..(j - 1) : items[r].id # items[j].id}

Repair(items) ==
  LET runs == {i \in DOMAIN items : items[i].kind = "call" /\ (i = 1 \/ items[i - 1].kind # "call")}
  IN At(items, {i \in DOMAIN items : items[i].kind \notin {"call", "result"}}
                 \cup UNION {Kept(items, i) : i \in runs})

EffectiveAfter(items) ==
  LET last == SelectLastInSeq(items, LAMBDA x : x.kind = "summary")
  IN SubSeq(items, last + 1, Len(items))

Effective(items) ==
  LET last == SelectLastInSeq(items, LAMBDA x : x.kind = "summary")
  IN IF last = 0 THEN items ELSE SubSeq(items, last, Len(items))

\* What a build makes of the items it has read.
History(items) == Repair(Effective(Repair(items)))

\* What a compaction tells of a history, and the summary that replaces it.
Trimmed(items) ==
  SubSeq(items, 1, SelectLastInSeq(items, LAMBDA x : x.kind # "call"))
\* Reasoning has no line; of too many lines the first and the last stay.
SummaryLines(items) ==
  LET lines == SelectSeq(items, LAMBDA x : x.kind # "reasoning")
  IN IF Len(lines) <= MaxLines THEN lines
     ELSE SubSeq(lines, 1, FirstLines) \o SubSeq(lines, Len(lines) - LastLines + 1, Len(lines))

\* appendTaskResumptionState: the last message of the user and the last thing done are always told.
Resumption(items) ==
  {items[i] : i \in {SelectLastInSeq(items, LAMBDA x : x.kind = "user"),
                     SelectLastInSeq(items, LAMBDA x : x.kind \in {"text", "call", "result"})} \ {0}}

\* A line of an earlier summary has room for some of what that one told: older says whether.
Summary(turn, items, fits, older) ==
  LET history == Trimmed(items)
      lines == SummaryLines(history)
      told == {lines[i] : i \in DOMAIN lines \cap 1..fits} \cup Resumption(history)
      before == UNION {x.covers : x \in Range(history)}
      covers == {Key(x) : x \in told}
                  \cup (IF older THEN UNION {x.covers : x \in told} ELSE {})
      forgets == (before \cup UNION {x.forgets : x \in Range(history)}) \ covers
      rest == {Key(x) : x \in Range(history)} \cup UNION {x.omits : x \in Range(history)}
  IN [kind |-> "summary", turn |-> turn, id |-> "summary",
      covers |-> covers, omits |-> rest \ (covers \cup forgets), forgets |-> forgets]
-----------------------------------------------------------------------------
(***************************************************************************)
(* The client makes messages of the items. A run of calls whose results   *)
(* are complete becomes one message, with the texts around it, and its     *)
(* results; a text before such a run is part of that message.             *)
(***************************************************************************)
Complete(items, i) ==
  /\ items[i].kind = "call"
  /\ {items[j].id : j \in i..(CallsEnd(items, i) - 1)} \subseteq {items[j].id : j \in Results(items, i)}

IsBlock(items, i) ==
  /\ Complete(items, i)
  /\ \A j \in 1..(i - 1) : Complete(items, j) => CallsEnd(items, j) # CallsEnd(items, i)

PreBridge(item, turn) == item.turn = turn /\ item.kind \in {"reasoning", "text", "approval"}

\* The next item that is no bridge is a call of the same turn.
BeforeCall(items, i) ==
  LET next == Min({j \in (i + 1)..(Len(items) + 1) : j > Len(items) \/ ~PreBridge(items[j], items[i].turn)})
  IN /\ items[i].kind = "text" /\ next <= Len(items)
     /\ items[next].kind = "call" /\ items[next].turn = items[i].turn

BlockTexts(items, i) ==
  {j \in 1..(i - 1) : items[j].kind = "text" /\ \A k \in j..(i - 1) : PreBridge(items[k], items[i].turn)}
    \cup {j \in i..(ResultsEnd(items, i) - 1) : items[j].kind = "text"}

Block(items, i) ==
  LET calls == i..(CallsEnd(items, i) - 1)
      results == At(items, Results(items, i))
  IN <<[role |-> "assistant", calls |-> [k \in 1..Cardinality(calls) |-> items[i + k - 1].id],
        tells |-> {items[j] : j \in calls \cup BlockTexts(items, i)}]>>
     \o [k \in DOMAIN results |-> [role |-> "tool", calls |-> <<results[k].id>>, tells |-> {results[k]}]]

MessagesAt(items, i) ==
  CASE IsBlock(items, i) -> Block(items, i)
    [] \/ items[i].kind \in {"call", "result", "reasoning", "approval"}
       \/ BeforeCall(items, i)
       \/ \E j \in 1..(i - 1) : IsBlock(items, j) /\ i < ResultsEnd(items, j) -> <<>>
    [] OTHER -> <<[role |-> items[i].kind, calls |-> <<>>, tells |-> {items[i]}]>>

\* The client repairs the history it is given before it reads it.
Messages(history) ==
  LET items == Repair(history) IN FlattenSeq([i \in DOMAIN items |-> MessagesAt(items, i)])
-----------------------------------------------------------------------------
Open(t) == {c \in CallId : c \in called[t] /\ <<t, c>> \notin stored}
\* What a write of turn t puts at risk: the open calls of the others ...
Others(t) == UNION {{<<u, c>> : c \in Open(u)} : u \in Turn \ {t}}
\* ... and what has been written since it read items.
Missed(items) == {Key(x) : x \in Range(file) \ Range(items)}

NoAside == [does |-> "none", turn |-> "none", items |-> <<>>]

Init ==
  /\ file \in Begin
  /\ phase = [t \in Turn |-> "idle"]
  /\ loaded = [t \in Turn |-> [items |-> <<>>, owed |-> {}]]
  /\ prompt = [t \in Turn |-> <<>>]
  /\ called = [t \in Turn |-> {}]
  /\ stored = {} /\ overtaken = {} /\ aborted = {} /\ turns = <<>>
  /\ aside = NoAside /\ asides = 0

Writes(t, item) == file' = Append(file, item) /\ overtaken' = overtaken \cup Others(t)

\* startTurn, and drainSteering before a step: a message of the user.
Says(t, from, id) ==
  /\ phase[t] = from /\ <<t, id>> \notin stored
  /\ Writes(t, Item("user", t, id))
  /\ stored' = stored \cup {<<t, id>>}
  /\ phase' = [phase EXCEPT ![t] = "ready"]
  /\ UNCHANGED <<loaded, prompt, called, aborted, aside>>
Start(t) == Says(t, "idle", "ask") /\ turns' = Append(turns, t) /\ UNCHANGED asides
Steer(t) == asides < MaxAsides /\ asides' = asides + 1 /\ Says(t, "ready", "steer") /\ UNCHANGED turns

Load(t) ==
  /\ phase[t] = "ready" /\ phase' = [phase EXCEPT ![t] = "loaded"]
  /\ loaded' = [loaded EXCEPT ![t] = [items |-> file, owed |-> stored]]
  /\ UNCHANGED <<file, prompt, called, stored, overtaken, aborted, turns, aside, asides>>

Heal(t) ==
  LET items == loaded[t].items
      healed == Repair(items)
  IN /\ phase[t] = "loaded" /\ phase' = [phase EXCEPT ![t] = "healed"]
     /\ \/ healed = items /\ UNCHANGED <<file, overtaken>>
        \/ /\ healed # items /\ file' = healed
           /\ overtaken' = overtaken \cup Missed(items) \cup Others(t)
     /\ UNCHANGED <<loaded, prompt, called, stored, aborted, turns, aside, asides>>

Ask(t) ==
  /\ phase[t] = "healed" /\ phase' = [phase EXCEPT ![t] = "asking"]
  /\ prompt' = [prompt EXCEPT ![t] = History(loaded[t].items)]
  /\ UNCHANGED <<file, loaded, called, stored, overtaken, aborted, turns, aside, asides>>

\* compactIfNeeded: a summary and the most recent items.
Compact(t, keep) ==
  LET history == Trimmed(History(loaded[t].items))
      kept == IF keep < Len(history) THEN keep ELSE Len(history) - 1
  IN /\ phase[t] = "healed" /\ phase' = [phase EXCEPT ![t] = "asking"]
     /\ asides < MaxAsides /\ asides' = asides + 1
     /\ Len(history) > 1
     /\ \E fits \in Fits, older \in BOOLEAN :
          LET summary == Summary(t, history, fits, older)
          IN /\ file' = Append(file, summary)
             /\ prompt' = [prompt EXCEPT ![t] =
                             <<summary>> \o SubSeq(history, Len(history) - kept + 1, Len(history))]
     /\ overtaken' = overtaken \cup Missed(loaded[t].items) \cup Others(t)
     /\ UNCHANGED <<loaded, called, stored, aborted, turns, aside>>

Forget(t) ==
  /\ prompt' = [prompt EXCEPT ![t] = <<>>]
  /\ loaded' = [loaded EXCEPT ![t] = [items |-> <<>>, owed |-> {}]]

\* The model streams calls; the text of its answer is stored at the end.
StreamCall(t, c) ==
  /\ phase[t] \in {"asking", "streaming"} /\ phase' = [phase EXCEPT ![t] = "streaming"]
  /\ t \notin aborted /\ c \in CallsOf[t] \ called[t]
  /\ Writes(t, Item("call", t, c))
  /\ called' = [called EXCEPT ![t] = @ \cup {c}]
  /\ Forget(t) /\ UNCHANGED <<stored, aborted, turns, aside, asides>>

EndStream(t, says) ==
  /\ phase[t] \in {"asking", "streaming"}
  /\ phase' = [phase EXCEPT ![t] = IF Open(t) = {} THEN "over" ELSE "working"]
  /\ \/ says /\ Writes(t, Item("text", t, "text"))
     \/ ~says /\ UNCHANGED <<file, overtaken>>
  /\ Forget(t) /\ UNCHANGED <<called, stored, aborted, turns, aside, asides>>

\* The tools of a turn that was stopped may still store their results.
Result(t, c) ==
  /\ phase[t] \in {"working", "stopped"} /\ c \in Open(t)
  /\ Writes(t, Item("result", t, c))
  /\ stored' = stored \cup {<<t, c>>}
  /\ phase' = [phase EXCEPT ![t] = IF @ = "working" /\ Open(t) = {c} THEN "ready" ELSE @]
  /\ UNCHANGED <<loaded, prompt, called, aborted, turns, aside, asides>>

Stop(t) ==
  /\ t \in aborted /\ phase[t] \notin {"idle", "stopped", "over"}
  /\ phase' = [phase EXCEPT ![t] = IF @ = "working" THEN "stopped" ELSE "over"]
  /\ Forget(t) /\ UNCHANGED <<file, called, stored, overtaken, aborted, turns, aside, asides>>

\* POST compact, or an interrupt that discards, reads the items ...
BeginCompact ==
  /\ aside.does = "none" /\ asides < MaxAsides /\ asides' = asides + 1
  /\ turns # <<>>
  /\ aside' = [does |-> "compact", turn |-> Last(turns), items |-> file]
  /\ UNCHANGED <<file, phase, loaded, prompt, called, stored, overtaken, aborted, turns>>

\* (an interrupt that discards nothing is one that gets no further).
Interrupt(t) ==
  /\ aside.does = "none" /\ asides < MaxAsides /\ asides' = asides + 1
  /\ phase[t] # "idle" /\ aborted' = aborted \cup {t}
  /\ aside' = [does |-> "discard", turn |-> t, items |-> file]
  /\ UNCHANGED <<file, phase, loaded, prompt, called, stored, overtaken, turns>>

\* ... and writes: compact adds a summary of all items but summaries,
FinishCompact ==
  LET history == Trimmed(SelectSeq(aside.items, LAMBDA x : x.kind # "summary"))
  IN /\ aside.does = "compact" /\ aside' = NoAside
     /\ \/ Len(history) <= 1 /\ UNCHANGED <<file, overtaken>>
        \/ /\ Len(history) > 1
           /\ \E fits \in Fits : file' = Append(file, Summary(aside.turn, history, fits, FALSE))
           /\ overtaken' = overtaken \cup Missed(aside.items) \cup Others("none")
     /\ UNCHANGED <<phase, loaded, prompt, called, stored, aborted, turns, asides>>

\* a discard leaves of the turn what the user said.
FinishDiscard ==
  /\ aside.does = "discard" /\ aside' = NoAside
  /\ file' = SelectSeq(aside.items, LAMBDA x : x.turn # aside.turn \/ x.kind = "user")
  /\ overtaken' = overtaken \cup Missed(aside.items) \cup Others(aside.turn)
                    \cup {<<aside.turn, c>> : c \in called[aside.turn]}
  /\ UNCHANGED <<phase, loaded, prompt, called, stored, aborted, turns, asides>>

Next ==
  \/ \E t \in Turn :
       \/ Start(t) \/ Steer(t) \/ Load(t) \/ Heal(t) \/ Ask(t) \/ Stop(t)
       \/ Interrupt(t)
       \/ \E keep \in Keeps : Compact(t, keep)
       \/ \E c \in CallId : StreamCall(t, c) \/ Result(t, c)
       \/ \E says \in BOOLEAN : EndStream(t, says)
  \/ BeginCompact \/ FinishCompact \/ FinishDiscard

Spec == Init /\ [][Next]_vars
-----------------------------------------------------------------------------
\* Every call of a message is followed by exactly one result of its own, and
\* no result stands elsewhere.
WellFormed(messages) ==
  \A n \in DOMAIN messages :
    LET m == messages[n] IN
    IF m.role = "tool"
    THEN \E k \in 1..(n - 1) : messages[k].role = "assistant" /\ n - k <= Len(messages[k].calls)
    ELSE /\ n + Len(m.calls) <= Len(messages)
         /\ \A i \in DOMAIN m.calls :
              Cardinality({k \in (n + 1)..(n + Len(m.calls)) :
                             messages[k].role = "tool" /\ messages[k].calls = <<m.calls[i]>>}) = 1

\* Whatever the file holds, the prompt made of it is well formed before the
\* client heals its pairs, and leaves nothing of the history out: repair has
\* left no call or result that the client would drop, nor would a text go
\* with one.
PromptIsComplete ==
  LET history == History(file)
      messages == Messages(history)
  IN /\ WellFormed(messages)
     /\ \A x \in Range(history) : x.kind \notin {"reasoning", "approval"} =>
          \E n \in DOMAIN messages : x \in messages[n].tells

\* A turn asks the model with every message of the user and every answered call stored when it
\* read the items, as it is or in a summary, unless a summary had no room for it, or another turn
\* or request wrote without knowing of it or discarded it. The last message of the user is told
\* whatever the room, but for what the clip of an earlier summary loses, as long as no message of
\* the user was overtaken.
PromptTellsTheThread ==
  \A t \in Turn : phase[t] = "asking" =>
    LET messages == Messages(prompt[t])
        items == UNION {messages[n].tells : n \in DOMAIN messages}
        told == UNION {{Key(x)} \cup x.covers \cup x.forgets : x \in items}
        last == SelectLastInSeq(loaded[t].items, LAMBDA x : x.kind = "user")
        lost == {k \in overtaken : k[2] \in {"ask", "steer"}}
    IN /\ WellFormed(messages)
       /\ loaded[t].owed \ overtaken \subseteq told \cup UNION {x.omits : x \in items}
       /\ last # 0 /\ lost = {} => Key(loaded[t].items[last]) \in told
=============================================================================
