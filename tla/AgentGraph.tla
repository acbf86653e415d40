------------------------------ MODULE AgentGraph ------------------------------
(***************************************************************************)
(* The declarative graph of evented_v2 and the interpreter that walks it.  *)
(*                                                                         *)
(* A run is a record; the interpreter reads and writes these fields: node  *)
(* activeNodeId top the last element of activeAgentStack, all that is ever *)
(* read status "running", "suspended" or "completed" agentRun per node,    *)
(* the status of its latest agentRun, or "none" attempts retryCounters     *)
(* branchStatus is not there: nothing in the code writes it, so a join is  *)
(* ready exactly when it requires no branch.                               *)
(*                                                                         *)
(* SettleKeepingAgentRun is a way to get the next definition wrong.        *)
(***************************************************************************)
EXTENDS Naturals, FiniteSets

CONSTANTS
  Node, Agent, Condition,
  StartNode,
  Kind,         \* the kind of each node
  AgentAt,      \* agentId of an agent node, targetAgentId of a handoff node
  Edge,         \* edges, as <<from, condition, to>>
  MaxAttempts,  \* maxAttempts of each retry node
  Branching,    \* the join nodes with a non-empty requiredBranchIds
  NoNode

NodeKind == {"agent", "handoff", "tool", "judge", "wait", "join", "retry", "terminate"}
ExternalKind == {"wait", "tool", "judge"}

\* validateAgentGraph, and the check of the start node in start().
ASSUME GraphAssumption ==
  /\ IsFiniteSet(Node) /\ NoNode \notin Node
  /\ StartNode \in Node /\ Kind[StartNode] = "agent"
  /\ Kind \in [Node -> NodeKind]
  /\ \A n \in Node : Kind[n] \in {"agent", "handoff"} => AgentAt[n] \in Agent
  /\ Edge \in SUBSET (Node \X Condition \X Node)
  /\ \A e, f \in Edge : e[1] = f[1] /\ e[2] = f[2] => e = f
  /\ MaxAttempts \in [Node -> Nat]

RunStatus == {"running", "suspended", "completed"}
AgentRunStatus == {"none", "queued", "running", "completed", "failed", "aborted"}

\* The pairs <<node, condition>> an edge leaves from.
HasEdge(n, condition) == \E e \in Edge : e[1] = n /\ e[2] = condition

nextNodeForCondition(n, condition) ==
  IF HasEdge(n, condition)
  THEN (CHOOSE e \in Edge : e[1] = n /\ e[2] = condition)[3]
  ELSE NoNode
-----------------------------------------------------------------------------
\* A retry node counts an attempt each time it is entered.
RetryCondition(run) ==
  IF run.attempts[run.node] + 1 <= MaxAttempts[run.node] THEN "retry" ELSE "exhausted"

\* Where the interpreter goes on to without anybody's help, or NoNode.
PassesTo(run) ==
  CASE Kind[run.node] = "retry" -> nextNodeForCondition(run.node, RetryCondition(run))
    [] Kind[run.node] = "join" /\ run.node \notin Branching ->
         IF HasEdge(run.node, "completed")
         THEN nextNodeForCondition(run.node, "completed")
         ELSE nextNodeForCondition(run.node, "joined")
    [] OTHER -> NoNode

\* One recursive call of enterGraphNode, through a retry or a join.
Pass(run) ==
  IF PassesTo(run) = NoNode THEN run
  ELSE [run EXCEPT !.node = PassesTo(run),
                   !.attempts[run.node] = IF Kind[run.node] = "retry" THEN @ + 1 ELSE @]

SettleKeepingAgentRun(run) ==
  CASE Kind[run.node] = "terminate" -> [run EXCEPT !.status = "completed"]
    [] Kind[run.node] = "agent" ->
         [run EXCEPT !.status = "running", !.top = AgentAt[run.node],
                     !.agentRun[run.node] = IF @ = "none" THEN "queued" ELSE @]
    [] OTHER -> [run EXCEPT !.status = "suspended"]

\* What enterGraphNode does at the node it ends at.
Settle(run) ==
  CASE Kind[run.node] = "terminate" -> [run EXCEPT !.status = "completed"]
    [] Kind[run.node] = "agent" ->
         [run EXCEPT !.status = "running",
                     !.top = AgentAt[run.node],
                     !.agentRun[run.node] = IF @ \in {"queued", "running"} THEN @ ELSE "queued"]
    [] OTHER -> [run EXCEPT !.status = "suspended"]

\* The recursion is as deep as the retries and joins in a row; the graphs modelled
\* have no cycle of them, so it ends within Cardinality(Node) calls.
enterGraphNode(run, n) ==
  LET passed[k \in 0 .. Cardinality(Node)] ==
        IF k = 0 THEN [run EXCEPT !.node = n] ELSE Pass(passed[k - 1])
  IN  Settle(passed[Cardinality(Node)])

\* The part of completeAgentTask that touches the graph: the latest agentRun of the
\* active node ends, and the next node is entered.
CompleteActiveAgent(run, condition, status) ==
  enterGraphNode([run EXCEPT !.agentRun[run.node] = status],
                 nextNodeForCondition(run.node, condition))
-----------------------------------------------------------------------------
(***************************************************************************)
(* Where a run can get to. It does not leave a node that terminates it.    *)
(***************************************************************************)
Closed(S) == \A e \in Edge : e[1] \in S /\ Kind[e[1]] # "terminate" => e[3] \in S

Leads(m, n) == \A S \in SUBSET Node : m \in S /\ Closed(S) => n \in S

\* A run that was at m and left it can be at n.
LeadsOn(m, n) == \E e \in Edge : e[1] = m /\ Kind[m] # "terminate" /\ Leads(e[3], n)
=============================================================================
