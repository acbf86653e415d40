---------------------------- MODULE MCEventStream ----------------------------
(***************************************************************************)
(* What a thread tells those who watch it: the stream of its events        *)
(* (EventStream), and its todos and the plans they stand for (PlanTodos).  *)
(* They share no state; part says which of them a behaviour is about.      *)
(***************************************************************************)
EXTENDS EventStream

CONSTANTS AtOnce, MaxPlan, MaxCalls

VARIABLES part, plans, todos, todoCall, started, past

planVars == <<plans, todos, todoCall, started, past>>

\* Plans of two tasks: one that is refined with a new task before the old one, or with both
\* told the other way round, and one that says a task twice.
Task(text, done) == [text |-> text, done |-> done]
Drafts ==
  {<<Task("a", FALSE)>>, <<Task("b", FALSE), Task("a", FALSE)>>,
   <<Task("a", TRUE), Task("b", FALSE)>>, <<Task("a", FALSE), Task("a", FALSE)>>}

Planning == INSTANCE PlanTodos WITH Text <- {"a", "b"}, call <- todoCall

StreamNext == part = "events" /\ Next /\ UNCHANGED <<part, planVars>>
PlanNext == part = "plans" /\ Planning!Next /\ UNCHANGED <<part, vars>>
AllPlanned ==
  /\ part = "plans" /\ Planning!Quiet /\ started = MaxCalls
  /\ UNCHANGED <<part, vars, planVars>>

MCInit == Init /\ Planning!Init /\ part \in {"events", "plans"}

MCNext == StreamNext \/ PlanNext \/ AllPlanned

MCSpec == MCInit /\ [][MCNext]_<<part, vars, planVars>>

\* Plans and todos go together as PlanTodos says.
TodosFollowThePlan == Planning!TodosFollowThePlan

\* The recorders are alike.
Symmetry == Permutations(Recorder)
=============================================================================
