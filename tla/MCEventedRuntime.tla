--------------------------- MODULE MCEventedRuntime ---------------------------
(***************************************************************************)
(* EventedRuntime for TLC, four times: a run of the default graph that two *)
(* processes serve, with claim leases and, as a configuration that names   *)
(* none, without; the same with leases and an edge for a specialist that   *)
(* fails, which is not in the default graph; and a run of a graph with     *)
(* every kind of node in one process. A behaviour is about one of them, as *)
(* part says.                                                              *)
(***************************************************************************)
EXTENDS EventedRuntime, TLC

VARIABLES part, fullRun, fullMail, fullLease, fullPc, fullCall, fullTodo, fullWork, fullFaults

fullVars == <<fullRun, fullMail, fullLease, fullPc, fullCall, fullTodo, fullWork, fullFaults>>

\* A server that also runs a worker, and a worker process.
MCRuntimeOf == [w \in Worker |-> IF w = "inServer" THEN "server" ELSE "remote"]
NoAttempts == [n \in Node |-> 1]

Ask(prompt) == [source |-> "Manager", target |-> "Specialist", prompt |-> prompt]
OneTask == {Ask("first")}
Succeeds == {[condition |-> "completed", status |-> "completed"]}
Fails == {[condition |-> "failed", status |-> "failed"]}
AnyOutcome == Succeeds \cup Fails

\* defaultManagerSpecialistGraph.
DefaultNode == {"manager", "handoff", "specialist", "done"}
DefaultKind == [manager |-> "agent", handoff |-> "handoff", specialist |-> "agent",
                done |-> "terminate"]
DefaultAgentAt == [manager |-> "Manager", handoff |-> "Specialist",
                   specialist |-> "Specialist"]
DefaultEdge == {<<"manager", "handoff", "handoff">>, <<"handoff", "accepted", "specialist">>,
                <<"specialist", "completed", "done">>}

\* A graph of one's own: an edge for a specialist that fails.
FailureEdge == DefaultEdge \cup {<<"specialist", "failed", "done">>}

\* A failed specialist is retried after an approval; then a join and a judge.
\* Nothing keeps a graph from having an edge that leaves its terminate node.
FullNode == {"manager", "handoff", "specialist", "retry", "approval", "join", "gather",
             "judge", "done"}
FullKind == [manager |-> "agent", handoff |-> "handoff", specialist |-> "agent",
             retry |-> "retry", approval |-> "wait", join |-> "join", gather |-> "join",
             judge |-> "judge", done |-> "terminate"]
FullEdge == {<<"manager", "handoff", "handoff">>, <<"handoff", "accepted", "specialist">>,
             <<"specialist", "completed", "join">>, <<"specialist", "failed", "retry">>,
             <<"retry", "retry", "approval">>, <<"retry", "exhausted", "done">>,
             <<"approval", "accepted", "specialist">>, <<"approval", "failed", "gather">>,
             <<"join", "joined", "judge">>, <<"judge", "completed", "done">>,
             <<"judge", "failed", "retry">>, <<"gather", "completed", "done">>,
             <<"done", "completed", "manager">>}
FullAttempts == [n \in FullNode |-> 1]
FullExternal == {<<"approval", "accepted">>, <<"approval", "failed">>,
                 <<"judge", "completed">>, <<"judge", "failed">>, <<"done", "completed">>}
FullDirect == {<<"Specialist", "completed">>, <<"Specialist", "failed">>}
None == {}

\* The same run, mailbox and workers as those of EventedRuntime, for which the
\* configuration has claim leases and the default graph.
Plain == INSTANCE EventedRuntime WITH ClaimLeases <- FALSE
Failing == INSTANCE EventedRuntime WITH Edge <- FailureEdge, MaxFaults <- 2

Full ==
  INSTANCE EventedRuntime WITH
    Node <- FullNode, Kind <- FullKind, Edge <- FullEdge, MaxAttempts <- FullAttempts,
    Branching <- {"gather"}, Runtime <- {"server"}, Worker <- {"inServer"},
    RuntimeOf <- "inServer" :> "server", Direct <- FullDirect, External <- FullExternal,
    ClaimLeases <- FALSE, Fault <- {"crash"}, MaxFaults <- 1,
    run <- fullRun, mail <- fullMail, lease <- fullLease, pc <- fullPc, call <- fullCall,
    todo <- fullTodo, work <- fullWork, faults <- fullFaults

mcVars == <<part, vars, fullVars>>

MCInit == part \in {"leases", "plain", "failing", "full"} /\ Init /\ Full!Init

MCNext ==
  /\ part' = part
  /\ \/ part = "leases" /\ Next /\ UNCHANGED fullVars
     \/ part = "plain" /\ Plain!Next /\ UNCHANGED fullVars
     \/ part = "failing" /\ Failing!Next /\ UNCHANGED fullVars
     \/ part = "full" /\ Full!Next /\ UNCHANGED vars

\* EventedRuntime's fairness: only how an update ends depends on the graph and how a
\* message is claimed on the leases. Actions of another part's run are never enabled.
MCAdvance(r) == IF part = "failing" THEN Failing!Advance(r) ELSE Advance(r)
MCClaim(w) == IF part = "plain" THEN Plain!Claim(w) ELSE Claim(w)

MCFairness ==
  /\ \A r \in Runtime : WF_vars(MCAdvance(r)) /\ SF_vars(Reconcile(r))
  /\ \A w \in Worker : WF_vars(MCClaim(w)) /\ SF_vars(CompleteWork(w))
  /\ \A t \in Task : WF_vars(AbandonedClaimLapses(t))
  /\ WF_vars(DeadLeaseLapses)

MCSpec == MCInit /\ [][MCNext]_mcVars /\ MCFairness
-----------------------------------------------------------------------------
\* In every graph a running run waits for an agent that is open, and what is over stays
\* over, as EventedRuntime says. The first three graphs have no loop, so that one formula
\* says it of them.
RunsEndForGood == EndsAreStable /\ Full!EndsAreStable

\* What keeps an outbox or a task of each of the first three from ending, as EventedRuntime
\* says.
ProgressIsLostAsTold ==
  /\ part = "leases" => StuckOnlyByTakeover
  /\ part = "plain" => Plain!StuckOnlyByTakeover
  /\ part = "failing" => Failing!StuckOnlyByTakeover
=============================================================================
