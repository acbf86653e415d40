---------------------------- MODULE ModelStream ----------------------------
(***************************************************************************)
(* One request of ModelCompatClient.stream: the posts with their retries,  *)
(* the frames of the answer in each of the three endpoint formats, and the *)
(* tool calls put together from them; and who listens: the classic loop,   *)
(* which takes calls as they are completed, and the normalizer of          *)
(* kernel_v3, which also keeps what it heard of calls not completed.       *)
(*                                                                         *)
(* The provider opens calls in the order of their indexes and sends the    *)
(* arguments of each in Pieces pieces. Its style says how it names a call  *)
(* in chat_completions: by an id with the first piece and by index then,   *)
(* by index only, by id only, or by an id it may send late. A call may     *)
(* come without the name of its tool. In chat_completions a model may also *)
(* write calls into its text, which are looked for there; they are taken   *)
(* to have their arguments in JSON, whose end is seen. The rest of the     *)
(* text, reasoning and usage pass through and are left out.                *)
(*                                                                         *)
(* RenamedByCopy is a way to get the next definition wrong.                *)
(***************************************************************************)
EXTENDS Naturals, SequencesExt

CONSTANTS
  Calls, Pieces, \* bounds: tool calls of an answer, pieces of their arguments
  Inlines,       \* bound: calls the model writes into its text
  MaxPosts,      \* bound: posts of one request
  NoReason

\* The bounds are numbers, and no reason is not one of the reasons.
ASSUME StreamAssumption ==
  /\ Calls \in Nat /\ Pieces \in Nat /\ Inlines \in Nat
  /\ NoReason \notin {"stop", "tool_calls", "length", "error"}

VARIABLES
  format,    \* endpointFormat of the client
  style,     \* how the provider names its calls
  fields,    \* what a provider may refuse in the request body
  nameless,  \* calls that come without the name of a tool
  texts,     \* calls the model may write into its text
  stripped,  \* stripStreamUsage, stripReasoning
  posts,
  streamAt,  \* where stream() is
  aborted,   \* the signal of the request
  sent,      \* pieces the provider has sent of each call, or Unopened
  named,     \* calls whose id it has sent
  stage,     \* of the provider's answer
  block,     \* messages: the call whose block is open
  said,      \* the reason the provider gave
  inText,    \* calls the model has written into its text, numbered from 1
  begun,     \* one more has begun
  pending,   \* pendingArguments, by call id
  byIndex,   \* pendingByIndex
  done,      \* completedToolCalls
  finish,    \* finishReason
  buffer,    \* inlineToolCallState: the call whose beginning is kept, or 0
  completed, \* tool_call_complete chunks
  inlined,   \* those for calls found in the text
  deltas,    \* what the normalizer keeps of calls not completed
  stop,      \* the stop reason of the last completed or error chunk
  broke,     \* history: the stream ended in an error of its own
  failed,    \* history: the provider reported an error, while calls were open or not
  renamed,   \* history: an id came after other pieces of its call
  overlooked \* history: calls in the text came after other calls, two in a frame, or in one piece

requestVars == <<format, style, fields, nameless, texts>>
postVars == <<stripped, posts>>
answerVars == <<sent, named, stage, block, said>>
textVars == <<inText, begun, buffer, inlined, overlooked>>
parserVars == <<pending, byIndex, done, finish>>
listenerVars == <<completed, deltas, stop>>
endVars == <<broke, failed, renamed>>
streamVars == <<requestVars, postVars, streamAt, aborted, answerVars, textVars, parserVars,
                listenerVars, endVars>>

Reason == {"stop", "tool_calls", "length", "error"}
ToolCall == 0 .. Calls - 1
Unopened == Pieces + 1
Opened == {c \in ToolCall : sent[c] # Unopened}
Whole(c) == sent[c] \in {Pieces, Unopened}

\* Ids: the provider's own, and call_N.
Id(c) == <<"id", c>>
CallNumber(n) == <<"call", n>>
Arguments(c, n) == [k \in 1 .. n |-> <<c, k>>]

Nothing == [x \in {} |-> 0]
Without(f, gone) == [x \in DOMAIN f \ gone |-> f[x]]
With(f, x, v) == [y \in DOMAIN f \cup {x} |-> IF y = x THEN v ELSE f[y]]

StreamInit ==
  /\ format \in {"chat_completions", "responses", "messages"}
  /\ style \in IF format = "chat_completions" THEN {"both", "index", "id", "late"} ELSE {"both"}
  /\ fields \in SUBSET (IF format = "chat_completions" THEN {"usage", "reasoning"} ELSE {"reasoning"})
  /\ nameless \in SUBSET ToolCall /\ texts \in IF format = "chat_completions" THEN {0, Inlines} ELSE {0}
  /\ stripped = {} /\ posts = 1 /\ streamAt = "posting" /\ aborted = FALSE
  /\ sent = [c \in ToolCall |-> Unopened] /\ named = {} /\ stage = "calls" /\ block = {} /\ said = NoReason
  /\ inText = 0 /\ begun = FALSE /\ buffer = 0 /\ inlined = <<>> /\ overlooked = FALSE
  /\ pending = Nothing /\ byIndex = Nothing /\ done = {} /\ finish = NoReason
  /\ completed = <<>> /\ deltas = Nothing /\ stop = NoReason
  /\ broke = FALSE /\ failed = "no" /\ renamed = FALSE
-----------------------------------------------------------------------------
\* An error chunk, and the end of stream().
EndInError ==
  /\ streamAt' = "over" /\ stop' = "error" /\ broke' = TRUE
  /\ UNCHANGED <<requestVars, answerVars, textVars, parserVars, completed, deltas, failed, renamed>>

\* fetch throws, also when the signal aborts it.
FetchFails == streamAt = "posting" /\ EndInError /\ UNCHANGED <<postVars, aborted>>

\* An answer in one piece that has an error, or no choices.
NoAnswer ==
  streamAt = "posting" /\ format # "messages" /\ EndInError /\ UNCHANGED <<postVars, aborted>>

RetriesWithoutUsage(why) ==
  /\ "usage" \in fields \ stripped
  /\ why = "usage" \/ (why = "1214" /\ "reasoning" \notin fields \ stripped)

RetriesWithoutReasoning(why) ==
  /\ "reasoning" \in fields \ stripped
  /\ why \in {"reasoning", "1214"}

\* The provider refuses the request with 400 or 422; the body of the next post is built
\* without what it refused.
Refused(why) ==
  /\ streamAt = "posting" /\ posts < MaxPosts
  /\ \/ /\ format # "responses" /\ RetriesWithoutUsage(why)
        /\ stripped' = stripped \cup {"usage"} /\ posts' = posts + 1
        /\ UNCHANGED <<requestVars, streamAt, answerVars, textVars, parserVars, listenerVars, endVars>>
     \/ /\ format # "responses" /\ ~RetriesWithoutUsage(why) /\ RetriesWithoutReasoning(why)
        /\ stripped' = stripped \cup {"reasoning"} /\ posts' = posts + 1
        /\ UNCHANGED <<requestVars, streamAt, answerVars, textVars, parserVars, listenerVars, endVars>>
     \/ /\ format = "responses" \/ ~(RetriesWithoutUsage(why) \/ RetriesWithoutReasoning(why))
        /\ EndInError /\ UNCHANGED postVars
  /\ UNCHANGED aborted

Accepted ==
  /\ streamAt = "posting" /\ streamAt' = "reading"
  /\ UNCHANGED <<requestVars, postVars, aborted, answerVars, textVars, parserVars, listenerVars, endVars>>

\* An answer in one piece of JSON. Its text is not searched for calls, and only in
\* chat_completions does a call need no name; each format has its own reason to stop.
MaterializedStop(told, reason) ==
  CASE format = "chat_completions" -> IF told # {} THEN "tool_calls" ELSE reason
    [] format = "responses" -> IF reason = "stop" /\ told # {} THEN "tool_calls" ELSE reason
    [] format = "messages" ->
         IF reason # NoReason THEN reason ELSE IF told # {} THEN "tool_calls" ELSE "stop"

Materialize(n, reason) ==
  /\ streamAt = "posting" /\ style \in {"both", "id"} /\ streamAt' = "over" /\ stage' = "whole"
  /\ CASE format = "chat_completions" -> reason # NoReason
       [] format = "responses" -> reason \in {"stop", "length", "error"}
       [] format = "messages" -> reason # "error"
  /\ reason = "tool_calls" => n > 0
  /\ sent' = [c \in ToolCall |-> IF c < n THEN Pieces ELSE Unopened] /\ named' = 0 .. n - 1
  /\ LET told == IF format = "chat_completions" THEN named' ELSE named' \ nameless IN
     /\ completed' = SetToSeq({[id |-> Id(c), args |-> Arguments(c, Pieces)] : c \in told})
     /\ stop' = MaterializedStop(told, reason)
  /\ said' = reason /\ inText' = texts /\ overlooked' = (texts # 0)
  /\ UNCHANGED <<requestVars, postVars, aborted, block, begun, buffer, inlined, parserVars, deltas,
                 broke, failed, renamed>>

-----------------------------------------------------------------------------
\* The frames of the answer, and what consumeStreamPayload makes of each.
Reading == streamAt = "reading" /\ UNCHANGED <<requestVars, postVars, streamAt, aborted>>
FrameAt(f, s) == Reading /\ format = f /\ stage = s /\ UNCHANGED broke
Frame(f) == FrameAt(f, "calls") /\ (f = "chat_completions" \/ UNCHANGED textVars)

\* A frame of a call: the provider opens it, unless it is open, and sends n pieces.
Sends(c, n, id) ==
  /\ c = Cardinality(Opened) \/ c \in Opened
  /\ LET before == IF c \in Opened THEN sent[c] ELSE 0 IN
     before + n <= Pieces /\ sent' = [sent EXCEPT ![c] = before + n]
  /\ named' = IF id THEN named \cup {c} ELSE named
  /\ UNCHANGED <<stage, said>>
NewPieces(c) == SubSeq(Arguments(c, Pieces), (IF c \in Opened THEN sent[c] ELSE 0) + 1, sent'[c])

\* The index of a call, unless the provider goes by ids; the name of its tool, or none.
IndexOf(c) == IF style = "id" THEN NoReason ELSE c
NameOf(c) == IF c \in nameless THEN "none" ELSE "tool"

Entry(calls, id, c) ==
  IF id \in DOMAIN calls THEN calls[id]
  ELSE [index |-> IndexOf(c), name |-> NameOf(c), args |-> <<>>]
Adding(calls, id, c, args) ==
  With(calls, id, [Entry(calls, id, c) EXCEPT !.args = @ \o args])

\* A call without a name is not completed.
WithName(calls) == [id \in {k \in DOMAIN calls : calls[k].name # "none"} |-> calls[id]]

\* A tool_call_delta chunk; a tool_call_complete chunk for each of some calls.
Hears(id, args) ==
  /\ deltas' = With(deltas, id, (IF id \in DOMAIN deltas THEN deltas[id] ELSE <<>>) \o args)
  /\ UNCHANGED <<completed, stop>>
Completes(calls) ==
  /\ completed' = completed \o SetToSeq({[id |-> id, args |-> calls[id].args] : id \in DOMAIN calls})
  /\ deltas' = Without(deltas, DOMAIN calls)

\* streamSse keeps "tool_calls" whatever comes after it.
Settled(reason) == IF finish = "tool_calls" THEN finish ELSE reason

\* The id the provider gives each frame of a call, by its style.
GivesId(c, id) ==
  CASE style = "both" -> id = (c \notin Opened)
    [] style = "index" -> ~id
    [] style = "id" -> id
    [] style = "late" -> c \in named => ~id
AtIndex(c) == {id \in DOMAIN pending : style # "id" /\ pending[id].index = c}

\* resolveToolCallDeltaId: an id that comes late renames the call found by index.
RenamedByCopy(c, id) == pending
Renamed(c, id) ==
  IF id /\ AtIndex(c) \ {Id(c)} # {}
  THEN LET old == CHOOSE x \in AtIndex(c) \ {Id(c)} : TRUE IN
       With(Without(pending, {old}), Id(c), pending[old])
  ELSE pending
DeltaId(c, id) ==
  IF id THEN Id(c)
  ELSE IF AtIndex(c) # {} THEN CHOOSE x \in AtIndex(c) : TRUE
  ELSE CallNumber(Cardinality(DOMAIN pending) + 1)

ChatDelta(c, n, id) ==
  /\ Frame("chat_completions") /\ GivesId(c, id) /\ Sends(c, n, id)
  /\ c \in Opened /\ ~id => n > 0
  /\ pending' = Adding(Renamed(c, id), DeltaId(c, id), c, NewPieces(c))
  /\ Hears(DeltaId(c, id), NewPieces(c))
  /\ renamed' = (renamed \/ (id /\ AtIndex(c) \ {Id(c)} # {}))
  /\ UNCHANGED <<block, textVars, byIndex, done, finish, failed>>

\* Content, with the ends of some calls written into it and perhaps the beginning of one
\* more. It is looked at unless calls are pending, and only for the first call that has its
\* beginning there or in the buffer; what follows that call in the frame is lost.
TextFrame(ends, begins) ==
  /\ Frame("chat_completions") /\ (ends = 0 => begins /\ ~begun)
  /\ inText' = inText + ends /\ begun' = begins
  /\ inText' + (IF begins THEN 1 ELSE 0) <= texts
  /\ overlooked' = (overlooked \/ Opened # {} \/ (begins /\ ends > 0) \/ ends > 1)
  /\ LET first == IF buffer # 0 THEN buffer ELSE IF begun THEN inText + 2 ELSE inText + 1 IN
     \/ pending = Nothing /\ first <= inText'
        /\ inlined' = Append(inlined, first) /\ finish' = "tool_calls" /\ buffer' = 0
     \/ pending = Nothing /\ first > inText' /\ buffer' = (IF begins THEN first ELSE buffer)
        /\ UNCHANGED <<inlined, finish>>
     \/ pending # Nothing /\ UNCHANGED <<inlined, finish, buffer>>
  /\ UNCHANGED <<answerVars, pending, byIndex, done, listenerVars, failed, renamed>>

\* finish_reason, whatever it says, completes what is pending.
ChatFinish(reason) ==
  /\ Frame("chat_completions") /\ stage' = "finished"
  /\ reason = "tool_calls" => Opened # {}
  /\ reason \in {"length", "error"} \/ \A c \in ToolCall : Whole(c)
  /\ Completes(WithName(pending)) /\ pending' = Nothing
  /\ finish' = (IF pending = Nothing THEN Settled(reason) ELSE "tool_calls") /\ said' = reason
  /\ UNCHANGED <<sent, named, block, textVars, byIndex, done, stop, failed, renamed>>

\* response.output_item.added, and the two ways the arguments come in.
ItemAdded(c) ==
  /\ Frame("responses") /\ c \notin Opened /\ Sends(c, 0, TRUE)
  /\ pending' = Adding(pending, Id(c), c, <<>>) /\ byIndex' = With(byIndex, c, Id(c))
  /\ UNCHANGED <<block, done, finish, listenerVars, failed, renamed>>

StreamCallId(c) == IF c \in DOMAIN byIndex THEN byIndex[c] ELSE CallNumber(c + 1)

ArgumentsDelta(c, n) ==
  /\ Frame("responses") /\ n > 0 /\ c \in Opened /\ Id(c) \notin done /\ Sends(c, n, FALSE)
  /\ pending' = Adding(pending, StreamCallId(c), c, NewPieces(c))
  /\ byIndex' = With(byIndex, c, StreamCallId(c))
  /\ Hears(StreamCallId(c), NewPieces(c))
  /\ UNCHANGED <<block, done, finish, failed, renamed>>

ArgumentsDone(c, n) ==
  /\ Frame("responses") /\ c \in Opened /\ Id(c) \notin done
  /\ Sends(c, n, FALSE) /\ sent'[c] = Pieces
  /\ pending' = With(pending, StreamCallId(c),
                     [Entry(pending, StreamCallId(c), c) EXCEPT !.args = Arguments(c, Pieces)])
  /\ UNCHANGED <<block, byIndex, done, finish, listenerVars, failed, renamed>>

\* response.output_item.done carries the whole call, which counts only if nothing came
\* before; without a name it stays pending.
ItemDone(c, n) ==
  /\ Frame("responses") /\ Id(c) \notin done /\ Sends(c, n, TRUE) /\ sent'[c] = Pieces
  /\ n \in {0, Pieces}
  /\ LET had == Entry(pending, Id(c), c)
         all == [had EXCEPT !.args = IF @ = <<>> THEN Arguments(c, Pieces) ELSE @] IN
     \/ all.name # "none" /\ Completes([id \in {Id(c)} |-> all])
        /\ done' = done \cup {Id(c)} /\ pending' = Without(pending, {Id(c)})
     \/ all.name = "none" /\ pending' = With(pending, Id(c), all) /\ UNCHANGED <<done, completed, deltas>>
  /\ byIndex' = With(byIndex, c, Id(c))
  /\ UNCHANGED <<block, finish, stop, failed, renamed>>

\* response.completed lists the whole output: the calls not completed yet are completed, if
\* they have a name. Its status may say that the answer is incomplete or failed.
ResponseCompleted(reason) ==
  /\ Frame("responses") /\ stage' = "finished" /\ said' = reason
  /\ reason \in {"length", "error"} \/ \A c \in ToolCall : Whole(c)
  /\ LET left == {c \in Opened \ nameless : Id(c) \notin done} IN
     /\ Completes([id \in {Id(c) : c \in left} |-> [args |-> Arguments(id[2], sent[id[2]])]])
     /\ pending' = Without(pending, {Id(c) : c \in left})
     /\ finish' = Settled(IF reason = "stop" /\ (done # {} \/ left # {}) THEN "tool_calls" ELSE reason)
  /\ UNCHANGED <<sent, named, block, byIndex, done, stop, failed, renamed>>

\* content_block_start, _delta and _stop of a tool_use block; blocks do not overlap.
BlockStart(c) ==
  /\ Frame("messages") /\ block = {} /\ block' = {c} /\ c \notin Opened /\ Sends(c, 0, TRUE)
  /\ pending' = Adding(pending, Id(c), c, <<>>) /\ byIndex' = With(byIndex, c, Id(c))
  /\ UNCHANGED <<done, finish, listenerVars, failed, renamed>>

BlockDelta(c, n) ==
  /\ Frame("messages") /\ n > 0 /\ c \in block /\ Sends(c, n, FALSE)
  /\ pending' = Adding(pending, StreamCallId(c), c, NewPieces(c))
  /\ Hears(StreamCallId(c), NewPieces(c))
  /\ UNCHANGED <<block, byIndex, done, finish, failed, renamed>>

\* A block that ran out of tokens stops as well; a call without a name stays pending.
BlockStop(c) ==
  /\ Frame("messages") /\ c \in block /\ block' = {}
  /\ \/ /\ pending[byIndex[c]].name # "none"
        /\ Completes(Restrict(pending, {byIndex[c]}))
        /\ done' = done \cup {byIndex[c]}
        /\ pending' = Without(pending, {byIndex[c]}) /\ byIndex' = Without(byIndex, {c})
     \/ pending[byIndex[c]].name = "none" /\ UNCHANGED <<completed, deltas, done, pending, byIndex>>
  /\ UNCHANGED <<sent, named, stage, said, finish, stop, failed, renamed>>

\* message_delta has the reason, if it is a known one; message_stop, after it, says "stop" of
\* its own.
MessageDelta(reason) ==
  /\ Frame("messages") /\ block = {} /\ stage' = "told" /\ said' = reason
  /\ reason = "tool_calls" => Opened # {}
  /\ reason = "length" \/ \A c \in ToolCall : Whole(c)
  /\ finish' = Settled(reason)
  /\ UNCHANGED <<sent, named, block, pending, byIndex, done, listenerVars, failed, renamed>>
MessageStop ==
  /\ FrameAt("messages", "told") /\ stage' = "finished" /\ finish' = Settled("stop")
  /\ UNCHANGED <<sent, named, block, said, textVars, pending, byIndex, done, listenerVars, failed,
                 renamed>>

\* The provider reports an error in the stream; the stream goes on.
ErrorFrame ==
  /\ format # "chat_completions" /\ Frame(format) /\ stage' = "finished"
  /\ finish' = Settled("error") /\ stop' = "error"
  /\ failed' = IF pending = Nothing THEN "quiet" ELSE "open"
  /\ UNCHANGED <<sent, named, block, said, pending, byIndex, done, completed, deltas, renamed>>
-----------------------------------------------------------------------------
\* [DONE], or the stream is closed, early or not: what is pending is completed,
\* and dropped if it has no name.
StreamEnds ==
  /\ streamAt = "reading" /\ ~aborted /\ streamAt' = "over"
  /\ Completes(WithName(pending)) /\ pending' = Nothing
  /\ finish' = IF pending = Nothing THEN finish ELSE "tool_calls"
  /\ stop' = IF finish' \in {"tool_calls", "length", "error"} THEN finish' ELSE "stop"
  /\ UNCHANGED <<requestVars, postVars, aborted, answerVars, textVars, byIndex, done, endVars>>

\* No data for streamIdleTimeoutMs; a read fails; the signal aborts the read.
IdleTimeout == streamAt = "reading" /\ EndInError /\ UNCHANGED <<postVars, aborted>>
ReadFails == streamAt = "reading" /\ EndInError /\ UNCHANGED <<postVars, aborted>>
SeeAbort == streamAt = "reading" /\ aborted /\ EndInError /\ UNCHANGED <<postVars, aborted>>

AbortRequest ==
  /\ ~aborted /\ streamAt # "over" /\ aborted' = TRUE
  /\ UNCHANGED <<requestVars, postVars, streamAt, answerVars, textVars, parserVars, listenerVars, endVars>>

StreamNext ==
  \/ FetchFails \/ NoAnswer \/ Accepted \/ StreamEnds \/ IdleTimeout \/ ReadFails \/ SeeAbort
  \/ AbortRequest
  \/ \E why \in {"usage", "reasoning", "1214", "other"} : Refused(why)
  \/ \E n \in 0 .. Calls, reason \in Reason \cup {NoReason} : Materialize(n, reason)
  \/ \E c \in ToolCall, n \in 0 .. Pieces :
       \/ \E id \in BOOLEAN : ChatDelta(c, n, id)
       \/ ArgumentsDelta(c, n) \/ ArgumentsDone(c, n) \/ ItemDone(c, n) \/ BlockDelta(c, n)
  \/ \E ends \in 0 .. Inlines, begins \in BOOLEAN : TextFrame(ends, begins)
  \/ \E c \in ToolCall : ItemAdded(c) \/ BlockStart(c) \/ BlockStop(c)
  \/ \E reason \in Reason : ChatFinish(reason)
  \/ \E reason \in Reason \ {"tool_calls"} : ResponseCompleted(reason)
  \/ \E reason \in {"stop", "tool_calls", "length", NoReason} : MessageDelta(reason)
  \/ MessageStop \/ ErrorFrame

StreamSpec == StreamInit /\ [][StreamNext]_streamVars /\ WF_streamVars(IdleTimeout)
-----------------------------------------------------------------------------
Over == streamAt = "over"

\* Every call completed is one the provider made, with all it sent of its arguments and
\* nothing else, under its id if it has one; no call is completed twice, and none without the
\* name of its tool, except by chat_completions in one piece.
CallsAreAsSent ==
  Over =>
    /\ \A i, j \in DOMAIN completed : completed[i].id = completed[j].id => i = j
    /\ \A i \in DOMAIN completed : \E c \in Opened :
         /\ completed[i].args = Arguments(c, sent[c])
         /\ c \in named => completed[i].id = Id(c)
         /\ c \in nameless => stage = "whole" /\ format = "chat_completions"

\* Unless the stream broke off, no call that has a name is missing.
NoCallIsMissing ==
  Over /\ ~broke => \A c \in Opened \ nameless : \E i \in DOMAIN completed :
    /\ completed[i].args = Arguments(c, sent[c])
    /\ c \in named => completed[i].id = Id(c)

\* No call in the text is told before it is whole, twice or out of order; and none is missed,
\* unless it came where none is looked for.
TextCallsAreTold ==
  /\ \A i, j \in DOMAIN inlined : i < j => inlined[i] < inlined[j]
  /\ \A i \in DOMAIN inlined : inlined[i] \in 1 .. inText
  /\ ~overlooked => Len(inlined) = inText

\* The normalizer is left with pieces of a call only if the stream broke off, an id came late
\* or a call had no name: then kernel_v3 takes the answer for a protocol error.
NothingIsLeftOver == Over => deltas = Nothing \/ broke \/ renamed \/ Opened \cap nameless # {}

\* A step ends as tool_calls only if it has calls, or had one without a name. If it has calls
\* it ends so, unless a response did not complete or messages gave another reason, or none.
\* An error is told, unless calls were open when it came; and running out of tokens is told
\* unless calls are, or message_stop came after it.
StopIsTold ==
  Over /\ ~broke =>
    /\ stop = "tool_calls" => completed # <<>> \/ inlined # <<>> \/ Opened \cap nameless # {}
    /\ completed # <<>> \/ inlined # <<>> =>
         \/ stop = "tool_calls"
         \/ format = "responses" /\ said # "stop"
         \/ format = "messages" /\ said # "tool_calls"
    /\ failed = "quiet" => stop = "error"
    /\ said \in {"length", "error"} =>
         stop \in {said, "tool_calls"} \/ (format = "messages" /\ stage = "finished")

\* What was refused once is not sent again, and three posts are enough.
PostsAreFew == posts <= 3

\* The tool calls of a model's answer are the ones the model made.
StreamTellsItsCalls ==
  /\ CallsAreAsSent /\ NoCallIsMissing /\ TextCallsAreTold /\ NothingIsLeftOver /\ StopIsTold
  /\ PostsAreFew

\* A stream that has begun ends, however long the provider is silent.
StreamComesToAnEnd == streamAt = "reading" ~> Over
=============================================================================
