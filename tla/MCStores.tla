------------------------------ MODULE MCStores ------------------------------
(***************************************************************************)
(* What is kept of a thread, each for itself: a thread and its index       *)
(* (HybridThreads), the items of a thread and the prompts made of them     *)
(* (SessionHistory), the task state of a run (TaskRevisions) and the usage *)
(* of a thread (UsageLedger). They share no state; part says which of them *)
(* a behaviour is about. The part "files" takes no step: it makes a prompt *)
(* of every short file.                                                    *)
(***************************************************************************)
EXTENDS TaskRevisions, HybridThreads, TLC

CONSTANTS
  t1, t2, a, b, Keeps, MaxAsides, MaxLines, FirstLines, LastLines, Fits, MaxBegin,
  Source, Model, Other, Retention, MaxFile, MaxEvents, MaxDay, MaxDays, MaxTroubles

Turn == {t1, t2}
CallId == {a, b}
CallsOf == t1 :> {a} @@ t2 :> {}

VARIABLES
  part,
  file, phase, loaded, prompt, called, stored, overtaken, aborted, turns, aside, asides,
  counter, nextSeq, usageFile, ledger, usageCall, day, used, forgotten, behind, together, moved,
  issued, troubles

Found(kind, turn, id) ==
  [kind |-> kind, turn |-> turn, id |-> id, covers |-> {}, omits |-> {}, forgets |-> {}]

\* Two turns may have used the same call id, and their items may be in any order.
Begin ==
  LET found == {Found("user", t2, "ask"), Found("text", t1, "text"), Found("text", t2, "text"),
                Found("reasoning", t1, "thought"), Found("summary", t1, "summary")}
               \cup {Found(kind, t1, c) : kind \in {"call", "result"}, c \in CallId}
               \cup {Found("call", t2, b)}
  IN UNION {[1..n -> found] : n \in 0..MaxBegin}

Prompts == INSTANCE SessionHistory
Usage == INSTANCE UsageLedger WITH file <- usageFile, call <- usageCall

promptVars == <<file, phase, loaded, prompt, called, stored, overtaken, aborted, turns, aside, asides>>
usageVars == <<counter, nextSeq, usageFile, ledger, usageCall, day, used, forgotten, behind, together,
               moved, issued, troubles>>
vars == <<part, hybridVars, promptVars, taskVars, usageVars>>

Part == {"threads", "prompts", "tasks", "usage"}

\* A part that is not looked at starts in one state only.
MCInit ==
  /\ part \in Part \cup {"files"}
  /\ HybridInit /\ Prompts!Init /\ Init /\ Usage!Init
  /\ part # "threads" => hasIndex
  /\ part # "files" => file = <<>>

StepOf(p) ==
  /\ part = p /\ part' = part
  /\ IF p = "threads" THEN HybridNext ELSE UNCHANGED hybridVars
  /\ IF p = "prompts" THEN Prompts!Next ELSE UNCHANGED promptVars
  /\ IF p = "tasks" THEN Next ELSE UNCHANGED taskVars
  /\ IF p = "usage" THEN Usage!Next ELSE UNCHANGED usageVars

MCNext == \E p \in Part : StepOf(p)

MCSpec == MCInit /\ [][MCNext]_vars
-----------------------------------------------------------------------------
\* The prompts of a thread are well formed, and tell what the thread holds, as
\* SessionHistory says.
PromptsTellTheThread ==
  (part = "files" => Prompts!PromptIsComplete) /\ Prompts!PromptTellsTheThread

\* The usage of a thread is reported as UsageLedger says.
UsageIsReportedOnce == Usage!UsageIsReportedOnce
=============================================================================
