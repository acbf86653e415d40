------------------------------ MODULE ToolLoop ------------------------------
(***************************************************************************)
(* The step loop of a turn: prompt, model stream, decision, and the        *)
(* dispatch of the tool calls with its repeat-loop guard, its parallel     *)
(* batches and the two gates a person answers.                             *)
(*                                                                         *)
(* The classic runner sets the guard up, counts retries per step and turns *)
(* what a step throws into a failed turn; the evented one has no guard and *)
(* counts retries per turn. A prompt is abstracted to whether it can be    *)
(* built, a reply to its tool calls and to what the decision looks at.     *)
(*                                                                         *)
(* SettledFirst, StartIfAllowed and AdvanceUncounted are ways to get the   *)
(* next definition wrong.                                                  *)
(***************************************************************************)
EXTENDS Naturals, FiniteSets, Sequences, SequencesExt

CONSTANTS
  Call,          \* tool calls, by name and arguments
  Parallel,      \* those of built-in read-only tools
  Mutating,      \* those that change files
  Gated,         \* those that need an approval
  Asking,        \* those that ask the user, exempt from the guard
  Unknown,       \* those of tools that are not advertised
  Plan,          \* the plan call made from the text of a plan turn
  ParallelLimit, \* MAX_PARALLEL_TOOL_CALLS
  Window, Threshold,  \* of the repeat-loop guard
  MaxRetries,    \* DEFAULT_EVALUATOR_MAX_RETRIES
  MaxSteps,      \* the budget of the loop
  MaxCalls       \* bound: tool calls of one reply

\* No call that is exempt from the guard changes a file.
ASSUME LoopAssumption ==
  /\ ParallelLimit \in Nat \ {0} /\ Window \in Nat \ {0} /\ Threshold \in Nat \ {0, 1}
  /\ MaxRetries \in Nat /\ MaxSteps \in Nat /\ MaxCalls \in Nat \ {0}
  /\ Asking \cap Mutating = {}

Reply == {"final", "preamble", "empty", "cut", "error", "missing", "plan"}
Over == {"ok", "failed", "denied", "rejected"}

VARIABLES
  runner,    \* "classic" or "evented"
  pc, step, retries,
  calls,     \* the calls of the reply: what was called, where it is, what the history has of its end
  next,      \* the index of the call to dispatch
  batch,     \* the indices of the calls under way together
  suppressedNext, \* the call the guard suppressed while the batch was formed, or 0
  recent,    \* the window of the guard: which of the calls it has looked at are in it
  inflight,  \* InflightTracker
  approvals, \* the approval gate: the status it shows of each call of the reply
  abortSignal,
  outcome, failure,
  inspected, \* the calls the guard looked at, and whether it let them through
  decisions  \* history: the first decision the gate accepted of each call of the reply

loopVars == <<runner, pc, step, retries, calls, next, batch, suppressedNext, recent, inflight,
              approvals, abortSignal, outcome, failure, inspected, decisions>>

NoDecision == [i \in 1 .. MaxCalls |-> "none"]

LoopInit ==
  /\ runner \in {"classic", "evented"}
  /\ pc = "check" /\ step = 0 /\ retries = 0
  /\ calls = <<>> /\ next = 1 /\ batch = <<>> /\ suppressedNext = 0
  /\ recent = {} /\ inflight = {} /\ approvals = NoDecision
  /\ abortSignal = FALSE /\ outcome = "none" /\ failure = "none"
  /\ inspected = <<>> /\ decisions = NoDecision

loop == <<runner, step, retries>>
dispatching == <<next, batch, suppressedNext, recent, inspected>>
gates == <<approvals, decisions>>

LoopEnds(status, why) == pc' = "ended" /\ outcome' = status /\ failure' = why
-----------------------------------------------------------------------------
(***************************************************************************)
(* One step up to the decision.                                            *)
(***************************************************************************)
Check ==
  /\ pc = "check"
  /\ IF abortSignal THEN LoopEnds("aborted", "none")
     ELSE IF step >= MaxSteps THEN LoopEnds("failed", "budget")
     ELSE pc' = "build" /\ UNCHANGED <<outcome, failure>>
  /\ UNCHANGED <<loop, calls, dispatching, inflight, gates, abortSignal>>

\* repairModelHistoryItems leaves the calls that have no result out of the prompt.
Told == {i \in DOMAIN calls : calls[i].answer \in {"ok", "failed", "suppressed"}}

\* PromptBuilder.build stops the turn when its cost budget is spent.
Build ==
  /\ pc = "build"
  /\ \/ abortSignal /\ LoopEnds("aborted", "none")
     \/ LoopEnds("completed", "none")
     \/ pc' = "stream" /\ UNCHANGED <<outcome, failure>>
  /\ calls' = <<>> /\ next' = 1
  /\ approvals' = NoDecision /\ decisions' = NoDecision
  /\ UNCHANGED <<loop, batch, suppressedNext, recent, inspected, inflight, abortSignal>>

\* A chunk with a whole tool call, which gets its item.
StreamCall(c) ==
  /\ pc = "stream" /\ ~abortSignal /\ Len(calls) < MaxCalls
  /\ calls' = Append(calls, [call |-> c, at |-> "open", answer |-> "none"])
  /\ UNCHANGED <<loop, pc, dispatching, inflight, gates, abortSignal, outcome, failure>>

StreamAborted ==
  /\ pc = "stream" /\ abortSignal
  /\ LoopEnds("aborted", "none")
  /\ UNCHANGED <<loop, calls, dispatching, inflight, gates, abortSignal>>

\* defaultLoopEvaluator.
Retried(reply) == reply \in {"cut", "empty"} /\ retries < MaxRetries

AdvanceUncounted == step' = step /\ retries' = 0

Advance == step' = step + 1 /\ retries' = IF runner = "classic" THEN 0 ELSE retries

\* The stream ends, also when the abort comes after its last chunk; decideLoopContinuation.
Decide(reply) ==
  /\ pc = "stream"
  /\ UNCHANGED <<runner, dispatching, inflight, gates, abortSignal>>
  /\ \/ /\ reply = "error"
        /\ LoopEnds("failed", "model") /\ UNCHANGED <<step, retries, calls>>
     \/ /\ reply = "final" /\ calls # <<>>
        /\ pc' = "dispatch" /\ UNCHANGED <<step, retries, calls, outcome, failure>>
     \/ /\ reply = "plan" /\ calls = <<>>
        /\ calls' = <<[call |-> Plan, at |-> "open", answer |-> "none"]>>
        /\ pc' = "dispatch" /\ UNCHANGED <<step, retries, outcome, failure>>
     \/ /\ reply = "missing" /\ calls = <<>>
        /\ LoopEnds("failed", "model") /\ UNCHANGED <<step, retries, calls>>
     \/ /\ calls = <<>> /\ Retried(reply)
        /\ pc' = "check" /\ retries' = retries + 1 /\ UNCHANGED <<step, calls, outcome, failure>>
     \/ /\ reply = "preamble" /\ calls = <<>>
        /\ pc' = "check" /\ Advance /\ UNCHANGED <<calls, outcome, failure>>
     \/ /\ reply \in {"final", "empty", "cut"} /\ calls = <<>> /\ ~Retried(reply)
        /\ LoopEnds("completed", "none") /\ UNCHANGED <<step, retries, calls>>
-----------------------------------------------------------------------------
(***************************************************************************)
(* ToolCallCoordinator.dispatch.                                           *)
(***************************************************************************)
\* A call that changes files takes those that only read out of the window.
Cleared(c) == {j \in recent : c \in Mutating => inspected[j].call \in Mutating}
Seen(c) == Cardinality({j \in Cleared(c) : inspected[j].call = c})

Suppress(c) == c \notin Asking /\ Seen(c) >= Threshold - 1

Latest(S) == {j \in S : Cardinality({k \in S : k >= j}) <= Window}

\* inspect, in the runner that has set the guard up.
Suppressed(c) == runner = "classic" /\ Suppress(c)

Inspect(c) ==
  /\ inspected' = Append(inspected, [call |-> c, admitted |-> ~Suppressed(c)])
  /\ recent' =
       IF runner = "evented" \/ c \in Asking THEN recent
       ELSE IF Suppress(c) THEN Cleared(c)
       ELSE Latest(Cleared(c) \cup {Len(inspected) + 1})

Answered(i, a) == [calls EXCEPT ![i].at = "closed", ![i].answer = a]

Called(i) == calls' = [calls EXCEPT ![i].at = "called"] /\ inflight' = inflight \cup {i}

Dispatch ==
  /\ pc = "dispatch" /\ next <= Len(calls)
  /\ UNCHANGED <<loop, suppressedNext, gates, abortSignal>>
  /\ IF abortSignal
       THEN /\ LoopEnds("aborted", "none")
            /\ UNCHANGED <<calls, next, batch, recent, inspected, inflight>>
       ELSE LET c == calls[next].call IN
            /\ Inspect(c)
            /\ next' = next + 1
            /\ UNCHANGED <<outcome, failure>>
            /\ IF Suppressed(c)
                 THEN calls' = Answered(next, "suppressed") /\ UNCHANGED <<pc, batch, inflight>>
                 ELSE /\ Called(next)
                      /\ batch' = <<next>>
                      /\ pc' = IF c \in Parallel THEN "form" ELSE "wait"

FormUnbounded == next <= Len(calls) /\ calls[next].call \in Parallel

CanGrow == FormUnbounded /\ Len(batch) < ParallelLimit

\* A batch of reads grows at once: nothing else runs before it is complete.
Grow ==
  /\ pc = "form"
  /\ IF CanGrow
       THEN LET c == calls[next].call IN
            /\ Inspect(c)
            /\ next' = next + 1
            /\ IF Suppressed(c)
                 THEN /\ suppressedNext' = next /\ pc' = "wait"
                      /\ UNCHANGED <<calls, batch, inflight>>
                 ELSE /\ Called(next) /\ batch' = Append(batch, next)
                      /\ UNCHANGED <<suppressedNext, pc>>
       ELSE pc' = "wait" /\ UNCHANGED <<calls, dispatching, inflight>>
  /\ UNCHANGED <<loop, gates, abortSignal, outcome, failure>>

SettledFirst == \E k \in DOMAIN batch : calls[batch[k]].at \in Over

\* Promise.allSettled.
Settled == \A k \in DOMAIN batch : calls[batch[k]].at \in Over

\* The results of a batch are kept in the order of its calls; one that was rejected is
\* thrown, and those after it are not kept.
FirstRejected ==
  LET bad == {k \in DOMAIN batch : calls[batch[k]].at = "rejected"} IN
  IF bad = {} THEN Len(batch) + 1 ELSE CHOOSE k \in bad : \A j \in bad : k <= j

InBatch(i) == \E k \in 1 .. FirstRejected - 1 : batch[k] = i

\* persistToolCallResult of the batch, persistSuppressedToolCall of the call behind it: a
\* result, but for a call that was denied, which leaves the item of its approval.
Answers(i) ==
  IF InBatch(i) THEN [calls[i] EXCEPT !.at = "closed", !.answer = calls[i].at]
  ELSE IF i = suppressedNext /\ FirstRejected > Len(batch)
    THEN [calls[i] EXCEPT !.at = "closed", !.answer = "suppressed"]
  ELSE calls[i]

Keep ==
  /\ pc = "wait" /\ Settled
  /\ calls' = [i \in DOMAIN calls |-> Answers(i)]
  /\ batch' = <<>> /\ suppressedNext' = 0
  /\ IF FirstRejected <= Len(batch)
       THEN LoopEnds("failed", IF abortSignal THEN "abort" ELSE "tool")
       ELSE pc' = "dispatch" /\ UNCHANGED <<outcome, failure>>
  /\ UNCHANGED <<loop, next, recent, inspected, inflight, gates, abortSignal>>

Dispatched ==
  /\ pc = "dispatch" /\ next > Len(calls)
  /\ pc' = "check" /\ Advance
  /\ UNCHANGED <<runner, calls, dispatching, inflight, gates, abortSignal, outcome, failure>>
-----------------------------------------------------------------------------
(***************************************************************************)
(* executeToolCall, LocalToolHost.execute and the gates.                   *)
(***************************************************************************)
Underway(i) == i \in DOMAIN calls /\ calls[i].at # "open"

To(i, at) ==
  /\ calls' = [calls EXCEPT ![i].at = at]
  /\ inflight' = IF at \in Over THEN inflight \ {i} ELSE inflight
  /\ UNCHANGED <<loop, pc, dispatching, abortSignal, outcome, failure>>

\* A call of an unknown tool is answered with an error, but not once the turn is aborted.
Prepare(i) ==
  /\ pc = "wait" /\ Underway(i) /\ calls[i].at = "called"
  /\ To(i, IF abortSignal THEN "rejected"
           ELSE IF calls[i].call \in Unknown THEN "failed"
           ELSE IF calls[i].call \in Gated THEN "announced" ELSE "allowed")
  /\ UNCHANGED gates

StartIfAllowed(i) == TRUE

MayStart(i) == ~abortSignal

Start(i) ==
  /\ Underway(i) /\ calls[i].at = "allowed"
  /\ To(i, IF ~MayStart(i) THEN "rejected"
           ELSE IF calls[i].call \in Asking THEN "asking0" ELSE "running")
  /\ UNCHANGED gates

\* approval_requested is on the event stream; now the gate learns of it.
RequestApproval(i) ==
  /\ Underway(i) /\ calls[i].at = "announced"
  /\ To(i, "waiting")
  /\ approvals' = [approvals EXCEPT ![i] = "pending"]
  /\ decisions' = decisions

\* decide: a request the gate does not know is refused, one that is decided is not.
Decision(i, d) ==
  /\ i \in DOMAIN calls /\ approvals[i] \notin {"none", d}
  /\ approvals' = [approvals EXCEPT ![i] = d]
  /\ decisions' = [decisions EXCEPT ![i] = IF @ = "none" THEN d ELSE @]
  /\ IF calls[i].at = "waiting"
       THEN To(i, IF d = "allow" THEN "allowed" ELSE "denied")
       ELSE UNCHANGED <<loop, pc, calls, dispatching, inflight, abortSignal, outcome, failure>>

RequestInput(i) ==
  /\ Underway(i) /\ calls[i].at = "asking0"
  /\ To(i, IF abortSignal THEN "rejected" ELSE "asking")
  /\ UNCHANGED gates

ResolveInput(i) ==
  /\ Underway(i) /\ calls[i].at = "asking"
  /\ To(i, "ok")
  /\ UNCHANGED gates

\* A tool returns a result or an error, or throws.
Return(i, at) ==
  /\ Underway(i) /\ calls[i].at = "running"
  /\ To(i, at)
  /\ UNCHANGED gates

\* interruptTurn aborts the signal, which wakes whoever asks the user.
Abort ==
  /\ ~abortSignal /\ pc # "ended"
  /\ abortSignal' = TRUE
  /\ LET asking == {i \in DOMAIN calls : calls[i].at = "asking"} IN
       /\ calls' = [i \in DOMAIN calls |->
                      IF i \in asking THEN [calls[i] EXCEPT !.at = "rejected"] ELSE calls[i]]
       /\ inflight' = inflight \ asking
  /\ UNCHANGED <<loop, pc, dispatching, gates, outcome, failure>>
-----------------------------------------------------------------------------
ToolStep(i) ==
  \/ Prepare(i) \/ Start(i) \/ RequestApproval(i) \/ RequestInput(i)
  \/ \E at \in {"ok", "failed", "rejected"} : Return(i, at)

LoopStep ==
  \/ Check \/ Build \/ StreamAborted
  \/ \E c \in Call : StreamCall(c)
  \/ \E r \in Reply : Decide(r)
  \/ Dispatch \/ Grow \/ Keep \/ Dispatched

UserStep ==
  \/ \E i \in 1 .. MaxCalls : ResolveInput(i) \/ \E d \in {"allow", "deny"} : Decision(i, d)
  \/ Abort

LoopNext ==
  \/ LoopStep
  \/ \E i \in 1 .. MaxCalls : ToolStep(i)
  \/ UserStep
  \/ pc = "ended" /\ UNCHANGED loopVars

\* The model's stream ends, tools return, and nobody need answer a request.
LoopFairness == WF_loopVars(LoopStep) /\ WF_loopVars(\E i \in 1 .. MaxCalls : ToolStep(i))

LoopSpec == LoopInit /\ [][LoopNext]_loopVars /\ LoopFairness
-----------------------------------------------------------------------------
\* A batch, the window of the guard and the calls of a reply stay within their limits.
LoopTypeOK ==
  /\ runner \in {"classic", "evented"}
  /\ pc \in {"check", "build", "stream", "dispatch", "form", "wait", "ended"}
  /\ step \in 0 .. MaxSteps /\ retries \in 0 .. MaxRetries
  /\ Len(calls) <= MaxCalls /\ next \in 1 .. Len(calls) + 1
  /\ \A i \in DOMAIN calls : calls[i].call \in Call \cup {Plan}
  /\ Len(batch) <= ParallelLimit /\ ToSet(batch) \subseteq DOMAIN calls
  /\ inflight \subseteq DOMAIN calls
  /\ Cardinality(recent) <= Window
  /\ outcome \in {"none", "completed", "failed", "aborted"}

\* Every tool call of a reply has its item closed before the next prompt is built, and the
\* prompt tells of it, with its result, unless a person denied it: a request that had a call
\* without a result is refused by the model, and a call that was denied is left out of it.
AnsweredBeforeNextStep ==
  pc \in {"check", "build"} =>
    \A i \in DOMAIN calls : calls[i].at = "closed" /\ (i \in Told <=> decisions[i] # "deny")

\* The earlier calls of which the guard let one through, the same as the i-th, and after
\* which no call changed a file.
SameBefore(i) ==
  {j \in 1 .. i - 1 :
     /\ inspected[j].call = inspected[i].call /\ inspected[j].admitted
     /\ inspected[i].call \in Mutating \/ \A k \in j .. i : inspected[k].call \notin Mutating}

\* How many calls the guard let through from the j-th on, before the i-th.
Since(j, i) == Cardinality({k \in j .. i - 1 : inspected[k].admitted /\ inspected[k].call \notin Asking})

\* The repeat-loop guard of a classic turn lets the same call through fewer than Threshold
\* times in a window unless a file changed in between, and stops none that had not been
\* let through Threshold - 1 times.
StormsAreBounded ==
  runner = "classic" =>
    \A i \in DOMAIN inspected : inspected[i].call \notin Asking =>
      IF inspected[i].admitted
        THEN Cardinality({j \in SameBefore(i) : Since(j, i) <= Window}) < Threshold - 1
        ELSE Cardinality(SameBefore(i)) >= Threshold - 1

\* When the turn is over no tool is at work for it: the turn is never finished under a
\* batch of which only some calls have settled.
NothingLeftBehind ==
  pc = "ended" => inflight = {} /\ \A i \in DOMAIN calls : calls[i].at \in Over \cup {"open", "closed"}

\* A tool only starts in a turn that is not aborted, and one that needs an approval only
\* when its first decision was to allow it, however long the turn waited for it; and storms
\* of calls are bounded.
StartsAreAllowed ==
  [][/\ StormsAreBounded'
     /\ \A i \in DOMAIN calls :
          i \in DOMAIN calls' /\ calls[i].at # "running" /\ calls'[i].at = "running" =>
            /\ ~abortSignal
            /\ calls[i].call \in Gated => decisions[i] = "allow"]_loopVars

\* Whatever the model answers, the loop ends or comes to wait for a person.
EndsOrWaits ==
  <>(pc = "ended" \/ \E i \in DOMAIN calls : calls[i].at \in {"waiting", "asking"})

\* Every call of a reply is closed before the next reply is asked for, which is told the
\* results of all but the denied ones, and none is at work when the turn is over.
EveryCallIsAnswered == LoopTypeOK /\ AnsweredBeforeNextStep /\ NothingLeftBehind
=============================================================================
