----------------------------- MODULE RuntimeKernel -----------------------------
(***************************************************************************)
(* kernel_v3: RuntimeKernel.run with its lease guard, the fenced snapshot  *)
(* store and the fenced, append-only event log of one run.                 *)
(*                                                                         *)
(* A call of run takes the lease, loads the snapshot, replays the events   *)
(* the log has beyond it, and then walks the graph: started is logged, the *)
(* handler of the node runs, completed is logged with its result, the      *)
(* afterNode hook runs, after is logged with its commands, and the state   *)
(* is saved where the node says so. A call may die anywhere; its lease may *)
(* expire under it while another process runs the same run.                *)
(*                                                                         *)
(* An event's seq is its position: append refuses a seq that is taken, and *)
(* recordEvent asks for the highest one plus one. Commands that only fill  *)
(* budgets, node data and middleware state are left out, and so is the     *)
(* migration of snapshots between versions of the graph. The lease is      *)
(* modelled by its holder and by whether it has expired; RunLease is about *)
(* the rest. A call that finds the lease taken changes nothing.            *)
(*                                                                         *)
(* ReplayNothing, AcceptedFromAnyone and FailedAnyway are ways to get the  *)
(* next definition wrong.                                                  *)
(***************************************************************************)
EXTENDS Naturals, FiniteSets, SequencesExt

CONSTANTS
  Runtime,      \* processes that call run for this run
  Node, StartNode,
  Edge,         \* edges, as <<from, to>>
  TerminalNode, \* the nodes with terminal: true
  SavesBefore,  \* the nodes with checkpoint 'before' or 'both'
  SavesAfter,   \* the nodes with checkpoint 'after' or 'both'
  Outcome,      \* what a run may end with
  HookOutcome,  \* what a hook may end it with
  HookJump,     \* where an afterNode hook may jump to
  MaxSteps,     \* bound: a step of this index or higher has an outcome
  Fault,        \* the kinds of faults that happen
  MaxFaults,    \* bound: how many of them
  NoNode, NoOutcome, NoLease, Dead

\* validateExecutionGraph; "failed" is the retryable outcome of run's catch, and of no
\* hook.
ASSUME KernelGraphAssumption ==
  /\ StartNode \in Node /\ NoNode \notin Node
  /\ Edge \subseteq Node \X Node /\ TerminalNode \subseteq Node
  /\ SavesBefore \subseteq Node /\ SavesAfter \subseteq Node
  /\ HookJump \subseteq Node
ASSUME KernelOutcomeAssumption ==
  /\ {"completed", "failed"} \cup HookOutcome \subseteq Outcome
  /\ "running" \notin Outcome /\ NoOutcome \notin Outcome
  /\ "failed" \notin HookOutcome
ASSUME KernelFaultAssumption ==
  /\ Fault \subseteq {"crash", "leaseLapse", "renewal", "handler", "hook"}
  /\ MaxFaults \in Nat /\ MaxSteps \in Nat /\ Dead \notin Runtime

State == [status : {"running"} \cup Outcome, outcome : Outcome \cup {NoOutcome},
          node : Node, step : Nat, seq : Nat]
Event == [kind : {"started", "completed", "after"}, node : Node, step : Nat,
          to : Node \cup {NoNode}, outcome : Outcome \cup {NoOutcome}]

VARIABLES
  snapshot,  \* the saved state; initialState until the first save
  log,       \* the event log
  lease,     \* the lease: its holder, and whether it has expired
  pc,        \* where the call of run of each runtime is
  st,        \* its state in memory
  loaded,    \* the state it loaded
  event,     \* the event it records, or recorded last
  seq,       \* the seq recordEvent has chosen for it
  told,      \* history: outcomes run returned, other than a retryable failure
  faults     \* faults so far

vars == <<snapshot, log, lease, pc, st, loaded, event, seq, told, faults>>

initialState ==
  [status |-> "running", outcome |-> NoOutcome, node |-> StartNode, step |-> 0, seq |-> 0]

EventAt(kind, s, to, outcome) ==
  [kind |-> kind, node |-> s.node, step |-> s.step, to |-> to, outcome |-> outcome]

NoEvent == EventAt("started", initialState, NoNode, NoOutcome)

Init ==
  /\ snapshot = initialState
  /\ log = <<>>
  /\ lease = NoLease
  /\ pc = [r \in Runtime |-> "idle"]
  /\ st = [r \in Runtime |-> initialState]
  /\ loaded = [r \in Runtime |-> initialState]
  /\ event = [r \in Runtime |-> NoEvent]
  /\ seq = [r \in Runtime |-> 0]
  /\ told = {}
  /\ faults = 0
-----------------------------------------------------------------------------
(***************************************************************************)
(* Reductions of the state.                                                *)
(***************************************************************************)
isTerminal(s) == s.status # "running"

\* outcomeFromTerminalState
OutcomeOf(s) == IF s.outcome # NoOutcome THEN s.outcome ELSE s.status

withOutcome(s, o) ==
  IF isTerminal(s) THEN s ELSE [s EXCEPT !.status = o, !.outcome = o]

\* Without an outcome the state is running again, whatever it was.
reduceCompletedNode(s, e, n) ==
  IF e.outcome # NoOutcome
  THEN [withOutcome(s, e.outcome) EXCEPT !.seq = n]
  ELSE [s EXCEPT !.status = "running", !.node = e.to, !.step = @ + 1, !.seq = n]

\* middlewareControlTarget: a jump or a retry of the hook.
Controlled(s, e) == IF e.to = NoNode THEN s ELSE [s EXCEPT !.node = e.to]

reduceAfterMiddleware(s, e, n) ==
  [IF isTerminal(s) THEN s
   ELSE IF e.outcome # NoOutcome THEN withOutcome(s, e.outcome)
   ELSE Controlled(s, e) EXCEPT !.seq = n]

Reduced(s, e, n) ==
  CASE e.kind = "started" -> [s EXCEPT !.seq = n]
    [] e.kind = "completed" -> reduceCompletedNode(s, e, n)
    [] e.kind = "after" -> reduceAfterMiddleware(s, e, n)

ReplayNothing(s) == [s |-> s, matches |-> TRUE]

\* replayAfterCheckpoint as far as it only reads: the state after each event beyond the
\* checkpoint; a completion must be of the node the cursor is at.
Replay(s) ==
  LET at[n \in s.seq .. Len(log)] ==
        IF n = s.seq THEN [s |-> s, matches |-> TRUE]
        ELSE [s |-> Reduced(at[n - 1].s, log[n], n),
              matches |-> at[n - 1].matches
                          /\ (log[n].kind = "completed" => log[n].node = at[n - 1].s.node)]
  IN  at[Len(log)]

\* The last completion has no after event yet.  Every other one has, since the log
\* goes on only after it.
PendingAfter == log # <<>> /\ Last(log).kind = "completed"
-----------------------------------------------------------------------------
(***************************************************************************)
(* The lease, the two stores, and the ways out of run.                     *)
(***************************************************************************)
Goto(r, label) == pc' = [pc EXCEPT ![r] = label]

\* assertFence of both stores; renew succeeds under the same condition.
FenceIsValid(r) == lease # NoLease /\ lease.holder = r /\ ~lease.lapsed

AcceptedFromAnyone(r) == TRUE

\* FileRunEventStore.append accepts the fence.
AppendIsAccepted(r) == FenceIsValid(r)

Spend(kind) == kind \in Fault /\ faults < MaxFaults /\ faults' = faults + 1

\* run returns outcome o once the lease is released.
Return(r, o) ==
  /\ told' = IF o = "failed" THEN told ELSE told \cup {o}
  /\ Goto(r, "release")

\* catch, of a lease that was lost: the outcome the error carries, the persisted
\* one, or lease_unavailable, which is retryable.
ReturnLost(r, carried) ==
  Return(r, IF carried THEN OutcomeOf(st[r])
            ELSE IF isTerminal(snapshot) THEN OutcomeOf(snapshot) ELSE "failed")

FailedAnyway(s) == [s EXCEPT !.status = "failed", !.outcome = "failed"]

FailedOn(s) == withOutcome(s, "failed")

\* catch, of any other error: the failure is saved on the last snapshot, best
\* effort.  Should the onError hook throw, the run is left as it is.
ReturnError(r) ==
  /\ snapshot' = IF FenceIsValid(r) THEN FailedOn(snapshot) ELSE snapshot
  /\ Return(r, IF isTerminal(snapshot) THEN OutcomeOf(snapshot) ELSE "failed")

Save(s) == snapshot' = s

\* recordEvent reads the highest seq; append comes later.
Record(r, e) ==
  /\ event' = [event EXCEPT ![r] = e]
  /\ seq' = [seq EXCEPT ![r] = Len(log) + 1]
  /\ Goto(r, "append")
-----------------------------------------------------------------------------
(***************************************************************************)
(* The steps of run.                                                       *)
(***************************************************************************)
Acquire(r) ==
  /\ pc[r] = "idle"
  /\ lease # NoLease => lease.lapsed
  /\ lease' = [holder |-> r, lapsed |-> FALSE]
  /\ Goto(r, "load")
  /\ UNCHANGED <<snapshot, log, st, loaded, event, seq, told, faults>>

Load(r) ==
  /\ pc[r] = "load"
  /\ st' = [st EXCEPT ![r] = snapshot]
  /\ loaded' = [loaded EXCEPT ![r] = snapshot]
  /\ Goto(r, "replay")
  /\ UNCHANGED <<snapshot, log, lease, event, seq, told, faults>>

\* A completion without its after event has its hook run now.
ReplayLog(r) ==
  /\ pc[r] = "replay" /\ FenceIsValid(r)
  /\ IF Replay(st[r]).matches
       THEN /\ st' = [st EXCEPT ![r] = Replay(@).s]
            /\ event' = [event EXCEPT ![r] = IF PendingAfter THEN Last(log) ELSE @]
            /\ Goto(r, IF PendingAfter THEN "replayedNode" ELSE "replayed")
            /\ UNCHANGED <<snapshot, told>>
       ELSE ReturnError(r) /\ UNCHANGED <<st, event>>
  /\ UNCHANGED <<log, lease, loaded, seq, faults>>

\* A terminal state is saved if it is news, and its outcome returned; of a terminal
\* snapshot the outcome is returned even if the replay has made it running again.
FinishReplayed(r) ==
  /\ pc[r] = "replayed"
  /\ isTerminal(loaded[r]) \/ isTerminal(st[r])
  /\ LET isNews == ~isTerminal(loaded[r]) \/ st[r].seq > loaded[r].seq IN
       IF isNews => FenceIsValid(r)
       THEN /\ IF isNews THEN Save(st[r]) ELSE snapshot' = snapshot
            /\ Return(r, OutcomeOf(st[r]))
       ELSE snapshot' = snapshot /\ ReturnLost(r, FALSE)
  /\ UNCHANGED <<log, lease, st, loaded, event, seq, faults>>

\* Otherwise the state is saved, twice, and the run goes on.
Resume(r) ==
  /\ pc[r] = "replayed"
  /\ ~isTerminal(loaded[r]) /\ ~isTerminal(st[r])
  /\ IF FenceIsValid(r)
       THEN Save(st[r]) /\ Goto(r, "beforeRun") /\ told' = told
       ELSE snapshot' = snapshot /\ ReturnLost(r, FALSE)
  /\ UNCHANGED <<log, lease, st, loaded, event, seq, faults>>

\* The beforeRun or beforeNode hook has nothing to say.
HookPasses(r) ==
  /\ pc[r] \in {"beforeRun", "beforeNode"} /\ FenceIsValid(r)
  /\ Goto(r, IF pc[r] = "beforeRun" THEN "node" ELSE "handler")
  /\ UNCHANGED <<snapshot, log, lease, st, loaded, event, seq, told, faults>>

\* Or it ends the run: its outcome is saved, then returned.
HookEnds(r) ==
  /\ pc[r] \in {"beforeRun", "beforeNode"} /\ FenceIsValid(r)
  /\ \E o \in HookOutcome :
       /\ st' = [st EXCEPT ![r] = withOutcome(@, o)]
       /\ Save(withOutcome(st[r], o))
       /\ Return(r, o)
  /\ UNCHANGED <<log, lease, loaded, event, seq, faults>>

StartNextNode(r) ==
  /\ pc[r] = "node" /\ FenceIsValid(r)
  /\ IF st[r].node \in SavesBefore THEN Save(st[r]) ELSE snapshot' = snapshot
  /\ Record(r, EventAt("started", st[r], NoNode, NoOutcome))
  /\ UNCHANGED <<log, lease, st, loaded, told, faults>>

\* What a handler at s may return: a target, by an edge or a jump, or an outcome.
Result(s) ==
  (IF s.node \in TerminalNode \/ s.step >= MaxSteps THEN {<<NoNode, "completed">>} ELSE {})
  \cup {<<e[2], NoOutcome>> : e \in {f \in Edge : f[1] = s.node /\ s.step < MaxSteps}}

HandlerReturns(r) ==
  /\ pc[r] = "handler" /\ FenceIsValid(r)
  /\ \E x \in Result(st[r]) : Record(r, EventAt("completed", st[r], x[1], x[2]))
  /\ UNCHANGED <<snapshot, log, lease, st, loaded, told, faults>>

AfterCommand ==
  {<<NoNode, NoOutcome>>} \cup {<<n, NoOutcome>> : n \in HookJump}
  \cup {<<NoNode, o>> : o \in HookOutcome}

\* commitAfterMiddleware, of a node just completed or found completed by the replay.
\* Its event is of the completed node, and the hook may see another state each time.
AfterHookReturns(r) ==
  /\ pc[r] \in {"completedNode", "replayedNode"} /\ FenceIsValid(r)
  /\ \E x \in AfterCommand :
       /\ event' = [event EXCEPT ![r] = [@ EXCEPT !.kind = "after", !.to = x[1], !.outcome = x[2]]]
       /\ seq' = [seq EXCEPT ![r] = Len(log) + 1]
       /\ Goto(r, IF pc[r] = "replayedNode" THEN "appendReplayed" ELSE "append")
  /\ UNCHANGED <<snapshot, log, lease, st, loaded, told, faults>>

\* Where run goes on after it has recorded an event of this kind.
NextLabel(kind) ==
  CASE kind = "started" -> "beforeNode"
    [] kind = "completed" -> "completedNode"
    [] kind = "after" -> "checkpoint"

AppendEvent(r) ==
  /\ pc[r] \in {"append", "appendReplayed"}
  /\ IF ~AppendIsAccepted(r)
       THEN ReturnLost(r, FALSE) /\ UNCHANGED <<snapshot, log, st>>
     ELSE IF seq[r] <= Len(log)
       THEN ReturnError(r) /\ UNCHANGED <<log, st>>
     ELSE /\ log' = Append(log, event[r])
          /\ st' = [st EXCEPT ![r] = Reduced(@, event[r], seq[r])]
          /\ Goto(r, IF pc[r] = "append" THEN NextLabel(event[r].kind) ELSE "replayed")
          /\ UNCHANGED <<snapshot, told>>
  /\ UNCHANGED <<lease, loaded, event, seq, faults>>

\* The completed node says whether to save; a terminal state is always saved.
Checkpoint(r) ==
  /\ pc[r] = "checkpoint"
  /\ LET saves == event[r].node \in SavesAfter \/ isTerminal(st[r]) IN
       IF saves => FenceIsValid(r)
       THEN /\ IF saves THEN Save(st[r]) ELSE snapshot' = snapshot
            /\ Goto(r, IF isTerminal(st[r]) THEN "afterRun" ELSE "node")
            /\ told' = told
       ELSE snapshot' = snapshot /\ ReturnLost(r, FALSE)
  /\ UNCHANGED <<log, lease, st, loaded, event, seq, faults>>

AfterRun(r) ==
  /\ pc[r] = "afterRun"
  /\ Return(r, OutcomeOf(st[r]))
  /\ UNCHANGED <<snapshot, log, lease, st, loaded, event, seq, faults>>

Forget(r) ==
  /\ st' = [st EXCEPT ![r] = initialState]
  /\ loaded' = [loaded EXCEPT ![r] = initialState]
  /\ event' = [event EXCEPT ![r] = NoEvent]
  /\ seq' = [seq EXCEPT ![r] = 0]
  /\ Goto(r, "idle")

Release(r) ==
  /\ pc[r] = "release"
  /\ lease' = IF lease # NoLease /\ lease.holder = r THEN NoLease ELSE lease
  /\ Forget(r)
  /\ UNCHANGED <<snapshot, log, told, faults>>
-----------------------------------------------------------------------------
(***************************************************************************)
(* What goes wrong.                                                        *)
(***************************************************************************)
\* assertLeaseHealthy finds the lease lost: it has expired, or renew failed or took
\* too long.
LoseLease(r) ==
  /\ pc[r] \in {"replay", "beforeRun", "node", "beforeNode", "handler",
                "completedNode", "replayedNode"}
  /\ IF FenceIsValid(r) THEN Spend("renewal") ELSE faults' = faults
  /\ ReturnLost(r, isTerminal(st[r]))
  /\ UNCHANGED <<snapshot, log, lease, st, loaded, event, seq>>

HandlerThrows(r) ==
  /\ pc[r] = "handler" /\ Spend("handler")
  /\ ReturnError(r)
  /\ UNCHANGED <<log, lease, st, loaded, event, seq>>

\* A hook throws: before a node, after it, or afterRun, which also runs when the
\* replay got further with a terminal state.
HookThrows(r) ==
  /\ \/ pc[r] \in {"beforeRun", "beforeNode", "completedNode", "replayedNode", "afterRun"}
     \/ /\ pc[r] = "replayed" /\ st[r].seq > loaded[r].seq
        /\ isTerminal(loaded[r]) \/ isTerminal(st[r])
  /\ Spend("hook")
  /\ ReturnError(r)
  /\ UNCHANGED <<log, lease, st, loaded, event, seq>>

LeaseLapses ==
  /\ Spend("leaseLapse")
  /\ lease # NoLease /\ lease.holder # Dead /\ ~lease.lapsed
  /\ lease' = [lease EXCEPT !.lapsed = TRUE]
  /\ UNCHANGED <<snapshot, log, pc, st, loaded, event, seq, told>>

DeadLeaseLapses ==
  /\ lease # NoLease /\ lease.holder = Dead /\ ~lease.lapsed
  /\ lease' = [lease EXCEPT !.lapsed = TRUE]
  /\ UNCHANGED <<snapshot, log, pc, st, loaded, event, seq, told, faults>>

Crash(r) ==
  /\ pc[r] # "idle" /\ Spend("crash")
  /\ lease' = IF lease # NoLease /\ lease.holder = r THEN [lease EXCEPT !.holder = Dead] ELSE lease
  /\ Forget(r)
  /\ UNCHANGED <<snapshot, log, told>>
-----------------------------------------------------------------------------
Next ==
  \/ \E r \in Runtime :
       \/ Acquire(r) \/ Load(r) \/ ReplayLog(r) \/ FinishReplayed(r) \/ Resume(r)
       \/ HookPasses(r) \/ HookEnds(r) \/ StartNextNode(r) \/ HandlerReturns(r)
       \/ AfterHookReturns(r) \/ AppendEvent(r) \/ Checkpoint(r) \/ AfterRun(r) \/ Release(r)
       \/ LoseLease(r) \/ HandlerThrows(r) \/ HookThrows(r) \/ Crash(r)
  \/ LeaseLapses \/ DeadLeaseLapses

Spec == Init /\ [][Next]_vars
-----------------------------------------------------------------------------
Label == {"idle", "load", "replay", "replayedNode", "appendReplayed", "replayed", "beforeRun",
          "node", "append", "beforeNode", "handler", "completedNode", "checkpoint",
          "afterRun", "release"}

TypeOK ==
  /\ snapshot \in State
  /\ log \in Seq(Event)
  /\ lease \in [holder : Runtime \cup {Dead}, lapsed : BOOLEAN] \cup {NoLease}
  /\ pc \in [Runtime -> Label]
  /\ st \in [Runtime -> State] /\ loaded \in [Runtime -> State]
  /\ event \in [Runtime -> Event] /\ seq \in [Runtime -> Nat]
  /\ told \subseteq Outcome
  /\ faults \in 0 .. MaxFaults

\* Where the first n events lead: the steps they complete, and the node they point at.
\* A jump of the hook counts unless the completed node ended the run.
StepsIn(n) == Cardinality({i \in 1 .. n : log[i].kind = "completed" /\ log[i].outcome = NoOutcome})
Pointers(n) ==
  {i \in 1 .. n : log[i].to # NoNode /\ (log[i].kind = "after" => log[i - 1].outcome = NoOutcome)}
Pointed(n) == IF Pointers(n) = {} THEN StartNode ELSE log[Max(Pointers(n))].to

\* Each step of the graph is completed once, from where the log had got to, and its
\* hook takes effect once: no crash, no late process and no second call repeats what
\* is logged, or goes on after the end.
EachStepRunsOnce ==
  \A i \in 1 .. Len(log) :
    /\ log[i].kind # "after" => log[i].step = StepsIn(i - 1) /\ log[i].node = Pointed(i - 1)
    /\ log[i].kind = "after" <=> i > 1 /\ log[i - 1].kind = "completed"
    /\ log[i].kind = "started" => \A j \in 1 .. i - 1 : log[j].outcome = NoOutcome

\* The snapshot is where some beginning of the log leads.
SnapshotReflectsLog ==
  /\ snapshot.seq <= Len(log)
  /\ snapshot.step = StepsIn(snapshot.seq)
  /\ snapshot.node = Pointed(snapshot.seq)

\* A handler is started, and an event recorded, by the one process that has the lease
\* and with the state the whole log leads to.
HolderFollowsLog ==
  \A r \in Runtime :
    pc[r] \in {"node", "append", "beforeNode", "handler"} /\ FenceIsValid(r) =>
      /\ st[r].seq = Len(log) /\ (pc[r] = "append" => seq[r] = Len(log) + 1)
      /\ st[r].step = StepsIn(Len(log)) /\ st[r].node = Pointed(Len(log))

\* An outcome that run returned as final is stored, so that no later run returns
\* another one, even if the lease was lost before the snapshot was saved.
OutcomeIsCommitted ==
  /\ Cardinality(told) <= 1
  /\ \A o \in told : snapshot.outcome = o \/ \E i \in 1 .. Len(log) : log[i].outcome = o

\* The log had completed a node beyond the snapshot when a failure was saved on it.
Overtaken ==
  \E i \in snapshot.seq + 1 .. Len(log) : log[i].kind = "completed" /\ log[i].outcome = NoOutcome

\* Snapshot, log and the copy of the process at work are one account of the run, in which
\* every step is there once.
LogTellsTheRun ==
  TypeOK /\ EachStepRunsOnce /\ SnapshotReflectsLog /\ HolderFollowsLog /\ OutcomeIsCommitted

\* A terminal snapshot stays what it is, unless it is a failure the log has overtaken.
FinalUnlessOvertaken ==
  [][isTerminal(snapshot) /\ ~(snapshot.status = "failed" /\ Overtaken) =>
       snapshot'.status = snapshot.status /\ snapshot'.outcome = snapshot.outcome]_vars

-----------------------------------------------------------------------------
(***************************************************************************)
(* The processes together do what RunSpec says of one run.  Where it is,   *)
(* the log says, and with what it ended: a completion that has an outcome  *)
(* may be followed by a hook that has another, and the first one counts.   *)
(* That a hook ended it before a node, only the snapshot says.             *)
(***************************************************************************)
LoggedEnds == {i \in 1 .. Len(log) : log[i].outcome # NoOutcome}

CommittedOutcome ==
  CASE LoggedEnds # {} -> log[Min(LoggedEnds)].outcome
    [] LoggedEnds = {} /\ snapshot.status \notin {"running", "failed"} -> snapshot.outcome
    [] OTHER -> NoOutcome

TheRun ==
  INSTANCE RunSpec WITH node <- Pointed(Len(log)), step <- StepsIn(Len(log)),
                        outcome <- CommittedOutcome

\* Two processes, their crashes and lost leases included, look like one run: each logged
\* completion takes an edge from where the run is, nothing follows its end, and run()
\* returns no other final outcome than the one it ended with.
ProcessesRunAsOne == TheRun!Spec
=============================================================================
