----------------------------- MODULE MCServices -----------------------------
(***************************************************************************)
(* Seven services beside the turns, each for itself: children of a turn    *)
(* (Delegation), a task of another agent (A2ATasks), the choice of the     *)
(* runtime a turn runs on (Rollout), the answer of a model (ModelStream),  *)
(* a session of the bash tool (BashSessions), a file that tools edit       *)
(* (FileMutations) and the pool of worker processes (WorkerPool). They     *)
(* share no state; part says which of them a behaviour is about.           *)
(***************************************************************************)
EXTENDS Delegation, A2ATasks, FileMutations, WorkerPool, BashSessions, ModelStream, TLC

CONSTANTS
  Turn, Selected, WindowSize, MinRuns, ConsecutiveFailures, Cooldown, RateOver, MaxFailures,
  j1, j2, j3, p1, p2

HostOf == j1 :> p1 @@ j2 :> p1 @@ j3 :> p2

VARIABLES
  part,
  outcomes, coolingFor, why, mode, failures

Choice == INSTANCE Rollout

choiceVars == <<outcomes, coolingFor, why, mode, failures>>
vars == <<part, delegationVars, a2aVars, choiceVars, streamVars, sessionVars, mutationVars, poolVars>>

Part == {"children", "peer", "choice", "answer", "shell", "edits", "pool"}

\* A part that is not looked at starts in one state only; what a provider refuses, calls
\* without a name and calls in the text are looked at apart.
Init ==
  /\ part \in Part
  /\ DelegationInit /\ A2AInit /\ Choice!Init /\ StreamInit /\ SessionInit /\ MutationInit
  /\ PoolInit
  /\ part # "answer" => format = "chat_completions" /\ nameless = {} /\ texts = 0
  /\ part # "answer" \/ texts # 0 => style = "both" /\ nameless = {}
  /\ part # "answer" \/ texts # 0 \/ nameless # {} => fields = {}
  /\ part # "shell" => ~short /\ ~deaf
  /\ part # "edits" => exists

StepOf(p) ==
  /\ part = p /\ part' = part
  /\ IF p = "children" THEN DelegationNext ELSE UNCHANGED delegationVars
  /\ IF p = "peer" THEN A2ANext ELSE UNCHANGED a2aVars
  /\ IF p = "choice" THEN Choice!Next ELSE UNCHANGED choiceVars
  /\ IF p = "answer" THEN StreamNext ELSE UNCHANGED streamVars
  /\ IF p = "shell" THEN SessionNext ELSE UNCHANGED sessionVars
  /\ IF p = "edits" THEN MutationNext ELSE UNCHANGED mutationVars
  /\ IF p = "pool" THEN PoolNext ELSE UNCHANGED poolVars

Next == \E p \in Part : StepOf(p)

\* Calls of runChild and of the task's routes are code at work and go on; turns are
\* begun and end; time passes; calls of the bash tool go on, and a shell that may be
\* stopped obeys; an edit that has begun goes on. Aborts, cancels, crashes and restarts
\* need not happen, and a model may be silent.
Fairness ==
  /\ \A c \in Child : WF_delegationVars(part = "children" /\ Own(c))
  /\ WF_a2aVars(part = "peer" /\ Step)
  /\ \A t \in Turn : WF_choiceVars(part = "choice" /\ (Choice!Decide(t) \/ Choice!End(t)))
  /\ WF_choiceVars(part = "choice" /\ Choice!Tick)
  /\ WF_streamVars(part = "answer" /\ IdleTimeout)
  /\ \A k \in Teller : WF_sessionVars(part = "shell" /\ Works(k))
  /\ WF_sessionVars(part = "shell" /\ Happens) /\ WF_sessionVars(part = "shell" /\ Obeys)
  /\ \A j \in Job : WF_mutationVars(part = "edits" /\ Advance(j))
  /\ WF_poolVars(part = "pool" /\ Tend)

Spec == Init /\ [][Next]_vars /\ Fairness
-----------------------------------------------------------------------------
\* Nobody waits for ever: the caller of a child, unless the child asks somebody it cannot
\* reach; the caller of a task, and who follows the task; who reads the answer of a model;
\* the callers of the bash tool, and the end of a command that was cut off; an edit that
\* has begun; a shard that has lost its worker; and no fallback of the rollout is for good.
CallersAreReleased ==
  /\ ChildrenEndOrAsk
  /\ TaskEnds /\ SubscriberIsReleased
  /\ StreamComesToAnEnd
  /\ CallsAreAnswered /\ CutOffDies
  /\ EveryJobEnds
  /\ ShardComesBack
  /\ Choice!FallbackPasses
=============================================================================
