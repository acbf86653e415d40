--------------------------- MODULE MCRuntimeKernel ---------------------------
(***************************************************************************)
(* RuntimeKernel for TLC: the loop of the production graph in small.       *)
(***************************************************************************)
EXTENDS RuntimeKernel

\* build-context and invoke-model, the tools, and the terminal node.
LoopNode == {"model", "tools", "done"}
LoopEdge == {<<"model", "tools">>, <<"tools", "model">>, <<"model", "done">>}

\* The two processes are alike.
Symmetry == Permutations(Runtime)
=============================================================================
