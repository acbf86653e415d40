------------------------------- MODULE RunSpec -------------------------------
(***************************************************************************)
(* What kernel_v3 promises of a run, whatever processes work on it: one    *)
(* walk through the graph, node by node along its edges or to where a hook *)
(* jumps, that ends once with one outcome, and no other outcome than that  *)
(* is ever returned.  A retryable failure is no outcome: the run goes on.  *)
(***************************************************************************)
EXTENDS Naturals

CONSTANTS StartNode, Edge, HookJump, Outcome, NoOutcome

VARIABLES
  node,     \* where the run is
  step,     \* how many nodes it has completed with a successor
  outcome,  \* how it ended
  told      \* the outcomes that have been returned

vars == <<node, step, outcome, told>>

Init == node = StartNode /\ step = 0 /\ outcome = NoOutcome /\ told = {}

Complete ==
  /\ outcome = NoOutcome
  /\ <<node, node'>> \in Edge /\ step' = step + 1
  /\ UNCHANGED <<outcome, told>>

\* A hook jumps only after a node.
Jump ==
  /\ outcome = NoOutcome /\ step > 0
  /\ node' \in HookJump
  /\ UNCHANGED <<step, outcome, told>>

End ==
  /\ outcome = NoOutcome
  /\ outcome' \in Outcome \ {"failed"}
  /\ told' \in {{}, {outcome'}}
  /\ UNCHANGED <<node, step>>

Tell ==
  /\ outcome # NoOutcome
  /\ told' = {outcome}
  /\ UNCHANGED <<node, step, outcome>>

Next == Complete \/ Jump \/ End \/ Tell

Spec == Init /\ [][Next]_vars
=============================================================================
