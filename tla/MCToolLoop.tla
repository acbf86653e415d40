------------------------------ MODULE MCToolLoop -----------------------------
(***************************************************************************)
(* ToolLoop for TLC: replies of up to three calls of a reading and of a    *)
(* writing tool, in batches and against the repeat-loop guard, and replies *)
(* of up to two calls that also ask for input or for a tool that is gone.  *)
(***************************************************************************)
EXTENDS ToolLoop

CONSTANTS read, write, ask, gone, plan

VARIABLE replies

Allowed ==
  \/ replies = "repeated" /\ \A i \in DOMAIN calls : calls[i].call \in {read, write, plan}
  \/ replies = "gated" /\ Len(calls) <= 2

MCInit == LoopInit /\ replies \in {"repeated", "gated"}
MCNext == LoopNext /\ replies' = replies /\ Allowed'
MCSpec == MCInit /\ [][MCNext]_<<loopVars, replies>> /\ LoopFairness
=============================================================================
