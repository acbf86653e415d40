---------------------------- MODULE McpConnections ----------------------------
(***************************************************************************)
(* The connections to one MCP server.  buildMcpToolProviders connects a    *)
(* client and lists the tools; a tool call whose client fails closes the   *)
(* connection, makes another and calls again; mcp_refresh_catalog lists    *)
(* the tools again; refreshRuntimeTools, after a change of the             *)
(* configuration, builds new providers and closes the old ones; shutdown   *)
(* closes the providers there are. The tools of child agents stay those of *)
(* the first provider, and a call that waits for its approval keeps the    *)
(* provider it was resolved with, so that a call may begin at one that was *)
(* replaced.                                                               *)
(*                                                                         *)
(* A provider is one build, a client one connection.  One step is what     *)
(* runs between two awaits, or something the server does.  RetryAnything   *)
(* is a way to get the next definition wrong.                              *)
(***************************************************************************)
EXTENDS Naturals, FiniteSets

CONSTANTS
  Caller,      \* calls of tools and refreshes of the catalog
  Refresher,   \* refreshes of the runtime's tools
  MaxFaults,   \* bound: lost answers, refused connections and aborts
  MaxVersion   \* bound: catalogs the server comes to offer

ASSUME McpAssumption == IsFiniteSet(Refresher)

Provider == 1 .. 1 + Cardinality(Refresher)
None == 0

VARIABLES
  conn,      \* the client of each provider, None if it could not connect
  current,   \* the provider of the tool host
  built,     \* how many providers there are
  open,      \* clients that are not closed
  made,      \* how many clients there were
  catalog,   \* the version of the tools each provider has listed
  mcpCall, refresh,
  offers,    \* the version of the tools the server offers
  down,      \* the runtime is shut down
  faults,
  shared,    \* history: two calls of one provider overlapped
  entangled  \* history: a close or a reconnect overlapped with another use of the connection

mcpVars == <<conn, current, built, open, made, catalog, mcpCall, refresh, offers, down, faults, shared,
             entangled>>

NoCall == [pc |-> "idle", kind |-> "tool", at |-> None, on |-> None, ran |-> 0,
           delivered |-> FALSE, version |-> 0, excused |-> FALSE, late |-> FALSE]
NoRefresh == [pc |-> "idle", previous |-> None, client |-> None, version |-> 0]

McpInit ==
  /\ conn = [p \in Provider |-> IF p = 1 THEN 1 ELSE None]
  /\ current = 1 /\ built = 1 /\ open = {1} /\ made = 1
  /\ catalog = [p \in Provider |-> IF p = 1 THEN 1 ELSE 0]
  /\ mcpCall = [k \in Caller |-> NoCall] /\ refresh = [r \in Refresher |-> NoRefresh]
  /\ offers = 1 /\ down = FALSE /\ faults = 0 /\ shared = FALSE /\ entangled = FALSE

Waits(k) == mcpCall[k].pc \in {"first", "creating", "second"}
UsersOf(p) == {k \in Caller : Waits(k) /\ mcpCall[k].at = p}
Fault == faults < MaxFaults /\ faults' = faults + 1
-----------------------------------------------------------------------------
(***************************************************************************)
(* Calls of tools and listings.                                            *)
(***************************************************************************)
\* The provider in use, the first one, whose tools children have, and those in use before a
\* call waited for its approval.
Callable == 1 .. built

\* A call begins at the provider its tool is of. One that could not connect, or list, has no
\* tools to call.
Begin(k, kind, p) ==
  /\ mcpCall[k].pc = "idle" /\ catalog[p] # 0
  /\ mcpCall' = [mcpCall EXCEPT ![k] = [NoCall EXCEPT !.pc = "first", !.kind = kind, !.at = p,
                                                      !.on = conn[p], !.late = (p # current)]]
  /\ shared' = (shared \/ UsersOf(p) # {})
  /\ entangled' = (entangled \/ down)
  /\ UNCHANGED <<conn, current, built, open, made, catalog, refresh, offers, down, faults>>

\* The server gets a request and does it.
Deliver(k) ==
  /\ mcpCall[k].pc \in {"first", "second"} /\ mcpCall[k].on \in open /\ ~mcpCall[k].delivered
  /\ mcpCall' = [mcpCall EXCEPT ![k].delivered = TRUE, ![k].ran = @ + 1, ![k].version = offers]
  /\ UNCHANGED <<conn, current, built, open, made, catalog, refresh, offers, down, faults, shared,
                 entangled>>

Answer(k) ==
  /\ mcpCall[k].pc \in {"first", "second"} /\ mcpCall[k].on \in open /\ mcpCall[k].delivered
  /\ mcpCall' = [mcpCall EXCEPT ![k].pc = "ok"]
  /\ catalog' = IF mcpCall[k].kind = "list" THEN [catalog EXCEPT ![mcpCall[k].at] = mcpCall[k].version]
                ELSE catalog
  /\ UNCHANGED <<conn, current, built, open, made, refresh, offers, down, faults, shared, entangled>>

RetryAnything(k) == mcpCall[k].pc \in {"first", "second"}

\* callMcpToolWithReconnect reconnects after the first failure of a tool call.
Retries(k) == mcpCall[k].pc = "first" /\ mcpCall[k].kind = "tool"

\* The client rejects a call.  To reconnect, the provider's client is closed first.
Reject(k) ==
  LET p == mcpCall[k].at
      others == {j \in Caller \ {k} : mcpCall[j].pc = "creating" /\ mcpCall[j].at = p} IN
  /\ IF Retries(k)
       THEN /\ mcpCall' = [mcpCall EXCEPT ![k].pc = "creating", ![k].delivered = FALSE]
            /\ open' = open \ {conn[p]}
            /\ entangled' = (entangled \/ others # {})
       ELSE /\ mcpCall' = [mcpCall EXCEPT ![k].pc = "error"]
            /\ UNCHANGED <<open, entangled>>
  /\ UNCHANGED <<conn, current, built, made, catalog, refresh, offers, down, shared>>

\* The answer is late or the connection breaks.
Lose(k) == mcpCall[k].pc \in {"first", "second"} /\ mcpCall[k].on \in open /\ Fault /\ Reject(k)

\* Somebody closed the client under the call.
Cut(k) == mcpCall[k].pc \in {"first", "second"} /\ mcpCall[k].on \notin open /\ faults' = faults /\ Reject(k)

Create(k) ==
  /\ mcpCall[k].pc = "creating"
  /\ made' = made + 1 /\ open' = open \cup {made'}
  /\ conn' = [conn EXCEPT ![mcpCall[k].at] = made']
  /\ mcpCall' = [mcpCall EXCEPT ![k].pc = "second", ![k].on = made']
  /\ UNCHANGED <<current, built, catalog, refresh, offers, down, faults, shared, entangled>>

\* The server refuses, or the turn is aborted: the call ends with an error.
GiveUp(k) ==
  /\ Waits(k) /\ Fault
  /\ mcpCall' = [mcpCall EXCEPT ![k].pc = "error", ![k].excused = TRUE]
  /\ UNCHANGED <<conn, current, built, open, made, catalog, refresh, offers, down, shared, entangled>>
-----------------------------------------------------------------------------
(***************************************************************************)
(* The runtime and the server.                                             *)
(***************************************************************************)
BeginRefresh(r) ==
  /\ refresh[r].pc = "idle"
  /\ refresh' = [refresh EXCEPT ![r].pc = "building", ![r].previous = current]
  /\ entangled' = (entangled \/ down \/ \E q \in Refresher : refresh[q].pc \in {"building", "built"})
  /\ UNCHANGED <<conn, current, built, open, made, catalog, mcpCall, offers, down, faults, shared>>

\* A server that refuses, or does not list its tools, leaves the provider without tools.
Connect(r) ==
  /\ refresh[r].pc = "building"
  /\ \/ /\ made' = made + 1 /\ open' = open \cup {made'}
        /\ \/ faults' = faults /\ refresh' = [refresh EXCEPT ![r] = [@ EXCEPT
                                    !.pc = "built", !.client = made', !.version = offers]]
           \/ Fault /\ refresh' = [refresh EXCEPT ![r].pc = "built", ![r].client = made']
     \/ /\ Fault /\ UNCHANGED <<made, open>>
        /\ refresh' = [refresh EXCEPT ![r].pc = "built"]
  /\ UNCHANGED <<conn, current, built, catalog, mcpCall, offers, down, shared, entangled>>

WithoutClientOf(p) == open \ {conn[p]}

\* The new provider takes over, and previous.close() closes the client the old one has.
Install(r) ==
  LET old == refresh[r].previous IN
  /\ refresh[r].pc = "built"
  /\ built' = built + 1 /\ current' = built'
  /\ conn' = [conn EXCEPT ![built'] = refresh[r].client]
  /\ catalog' = [catalog EXCEPT ![built'] = refresh[r].version]
  /\ open' = WithoutClientOf(old)
  /\ entangled' = (entangled \/ UsersOf(old) # {})
  /\ refresh' = [refresh EXCEPT ![r].pc = "done"]
  /\ UNCHANGED <<made, mcpCall, offers, down, faults, shared>>

Shutdown ==
  /\ ~down /\ down' = TRUE
  /\ open' = WithoutClientOf(current)
  /\ entangled' = (entangled \/ UsersOf(current) # {} \/
                     \E r \in Refresher : refresh[r].pc \in {"building", "built"})
  /\ UNCHANGED <<conn, current, built, made, catalog, mcpCall, refresh, offers, faults, shared>>

ServerChanges ==
  /\ offers < MaxVersion /\ offers' = offers + 1
  /\ UNCHANGED <<conn, current, built, open, made, catalog, mcpCall, refresh, down, faults, shared,
                 entangled>>

Works(k) == Deliver(k) \/ Answer(k) \/ Lose(k) \/ Cut(k) \/ Create(k) \/ GiveUp(k)

McpNext ==
  \/ \E k \in Caller : Works(k) \/ \E kind \in {"tool", "list"}, p \in Callable : Begin(k, kind, p)
  \/ \E r \in Refresher : BeginRefresh(r) \/ Connect(r) \/ Install(r)
  \/ Shutdown \/ ServerChanges

McpSpec == McpInit /\ [][McpNext]_mcpVars
-----------------------------------------------------------------------------
\* What else closes a client under a call that begins late: it finds it closed, and so does a
\* listing, which does not reconnect; or another late call of its provider reconnects.
FoundClosed(k) == mcpCall[k].late /\ (mcpCall[k].kind = "list" \/ shared)

\* Unless a close or a reconnect met another use of the connection, nobody but the provider
\* in use, one that is about to take over, and one that was replaced and is called late, has a
\* connection open, and no other is left after a shutdown. A call runs at most twice, and twice,
\* or with an error, only after something failed; and what fails once, for a caller that has
\* the provider to itself, is made up for, if it was not the late one's reconnect.
ConnectionsAreAccountedFor ==
  /\ ~entangled =>
       /\ \A c \in open : \/ ~down /\ c = conn[current]
                          \/ \E r \in Refresher : refresh[r].pc = "built" /\ refresh[r].client = c
                          \/ \E k \in Caller : mcpCall[k].late /\ c = conn[mcpCall[k].at]
       /\ \A k \in Caller :
            mcpCall[k].ran > 1 \/ mcpCall[k].pc = "error" => faults > 0 \/ FoundClosed(k)
  /\ \A k \in Caller :
       /\ mcpCall[k].ran <= IF mcpCall[k].kind = "tool" THEN 2 ELSE 1
       /\ mcpCall[k].pc = "error" /\ mcpCall[k].kind = "tool" /\ ~entangled /\ ~shared =>
            mcpCall[k].excused \/ faults > IF mcpCall[k].late THEN 0 ELSE 1

\* At each step, and what a provider has listed goes back to an older catalog only if two of its
\* calls overlapped.
CallsAndConnectionsAgree ==
  [][ConnectionsAreAccountedFor' /\ (shared \/ \A p \in Provider : catalog'[p] >= catalog[p])]_mcpVars
=============================================================================
