---------------------------- MODULE EventedRuntime ----------------------------
(***************************************************************************)
(* evented_v2: EventedV2MultiAgentRuntime with its run store, its mailbox, *)
(* the workers that serve agents and the outbox reconciler, for one run.   *)
(*                                                                         *)
(* A mutation of the run takes the run lease, updates the run record in    *)
(* one transaction that also writes an outbox intent, publishes the        *)
(* pending intents to the mailbox one by one, marks each as published, and *)
(* releases the lease. Several runtimes (processes) share the stores; any  *)
(* of them may die between two of these steps.                             *)
(*                                                                         *)
(* The lease is modelled by its holder and by whether it has expired; that *)
(* an epoch names one fence and that one fence is valid at a time is what  *)
(* RunLease establishes for this protocol. Time is nondeterministic.       *)
(*                                                                         *)
(* AfterHandoffWithoutEvent and ClaimableWhenQueued are ways to get the    *)
(* next definition wrong.                                                  *)
(***************************************************************************)
EXTENDS AgentGraph, SequencesExt

CONSTANTS
  Runtime,     \* processes that run an EventedV2MultiAgentRuntime
  Worker,      \* EventedV2AgentWorker / EventedV2RemoteAgentWorker
  RuntimeOf,   \* the runtime of each worker
  Task,        \* handoffs clients ask for: source, target and prompt
  Outcome,     \* what a task may end with: a condition and a mailbox status
  Direct,      \* agent and condition of completeAgentTask calls without a message
  External,    \* node and condition of completeExternalNode calls
  ClaimLeases, \* runtime.eventedV2RemoteAgent.leaseTtlMs is configured
  Token,       \* what a claim lease is recognised by
  Fault,       \* the kinds of faults that happen
  MaxFaults,   \* bound: how many of them
  NoLease, NoClaim, NoTask, Dead

ASSUME TaskAssumption ==
  /\ IsFiniteSet(Task) /\ NoTask \notin Task
  /\ \A t \in Task : t.source \in Agent /\ t.target \in Agent
ASSUME WorkerAssumption == RuntimeOf \in [Worker -> Runtime] /\ Dead \notin Runtime
ASSUME OutcomeAssumption ==
  /\ Outcome \subseteq [condition : Condition, status : {"completed", "failed", "aborted"}]
  /\ Direct \subseteq Agent \X Condition
  /\ External \subseteq Node \X Condition
ASSUME ClaimAssumption == ClaimLeases \in BOOLEAN /\ Token \subseteq Nat /\ NoClaim \notin Token
ASSUME FaultAssumption ==
  Fault \subseteq {"crash", "leaseLapse", "claimLapse", "handler"} /\ MaxFaults \in Nat

\* An envelope, and so a message and its outbox intents, is named by the task:
\* handoffIdempotencyKey hashes the agents and the prompt.
Terminal == {"completed", "failed", "aborted"}
MailStatus == {"none", "queued", "delivered"} \cup Terminal
Mail == [status : MailStatus, claim : Token \cup {NoClaim}, lapsed : BOOLEAN]
Intent == [kind : {"enqueue", "complete"}, task : Task, status : Terminal,
           claim : Token \cup {NoClaim}, published : BOOLEAN]

VARIABLES
  run,     \* the run record: the fields of AgentGraph, and delivered, outbox
           \* and completions (node_completed events by message)
  mail,    \* the mailbox message of each task
  lease,   \* the run lease: its holder, and whether it has expired
  pc,      \* where the mutation of each runtime is
  call,    \* what that mutation was called with
  todo,    \* the intents it has still to publish, by their place in the outbox
  work,    \* the message each worker holds, with the claim it got
  faults   \* faults so far

vars == <<run, mail, lease, pc, call, todo, work, faults>>

NoCall == [kind |-> "none"]
NoWork == [task |-> NoTask, claim |-> NoClaim]
NoMail == [status |-> "none", claim |-> NoClaim, lapsed |-> FALSE]

\* start() has just saved the run.
Init ==
  /\ run = [node |-> StartNode, top |-> AgentAt[StartNode], status |-> "running",
            agentRun |-> [n \in Node |-> IF n = StartNode THEN "running" ELSE "none"],
            attempts |-> [n \in Node |-> 0],
            delivered |-> {}, outbox |-> <<>>, completions |-> [t \in Task |-> 0]]
  /\ mail = [t \in Task |-> NoMail]
  /\ lease = NoLease
  /\ pc = [r \in Runtime |-> "idle"]
  /\ call = [r \in Runtime |-> NoCall]
  /\ todo = [r \in Runtime |-> {}]
  /\ work = [w \in Worker |-> NoWork]
  /\ faults = 0
-----------------------------------------------------------------------------
(***************************************************************************)
(* Updates of the run record.                                              *)
(***************************************************************************)
Intents(kind, t) == {i \in 1 .. Len(run.outbox) :
                       run.outbox[i].kind = kind /\ run.outbox[i].task = t}

Pending == {k \in 1 .. Len(run.outbox) : ~run.outbox[k].published}

\* ensureHandoffOutboxIntent, ensureMailboxCompleteOutboxIntent: one intent of a
\* kind per message, whoever asks again.
WithIntent(r, kind, t, status, claim) ==
  IF Intents(kind, t) # {} THEN r
  ELSE [r EXCEPT !.outbox =
          Append(@, [kind |-> kind, task |-> t, status |-> status, claim |-> claim,
                     published |-> FALSE])]

HandoffNode(n) == nextNodeForCondition(n, "handoff")
TargetNode(n) == nextNodeForCondition(HandoffNode(n), "accepted")

\* applyHandoff when the run is where an earlier call of the same handoff took it.
HandoffIsRepeated(r, t) ==
  /\ Kind[r.node] = "agent" /\ AgentAt[r.node] = t.target /\ r.top = t.target
  /\ t \in r.delivered

HandoffIsLegal(r, t) ==
  /\ Kind[r.node] = "agent" /\ AgentAt[r.node] = t.source /\ r.top = t.source
  /\ HandoffNode(r.node) # NoNode
  /\ Kind[HandoffNode(r.node)] = "handoff" /\ AgentAt[HandoffNode(r.node)] = t.target
  /\ TargetNode(r.node) # NoNode
  /\ Kind[TargetNode(r.node)] = "agent" /\ AgentAt[TargetNode(r.node)] = t.target

AfterHandoffWithoutEvent(r, t) ==
  [r EXCEPT !.node = TargetNode(r.node), !.top = t.target,
            !.agentRun[TargetNode(r.node)] = IF @ = "none" THEN "queued" ELSE @]

\* The target's agentRun is added only if it never had one at that node.
AfterHandoff(r, t) ==
  [r EXCEPT !.node = TargetNode(r.node), !.top = t.target,
            !.agentRun[TargetNode(r.node)] = IF @ = "none" THEN "queued" ELSE @,
            !.delivered = @ \cup {t}]

CompletionIsLegal(r, agent, condition) ==
  /\ Kind[r.node] = "agent" /\ AgentAt[r.node] = agent
  /\ HasEdge(r.node, condition)
  /\ r.agentRun[r.node] # "none"

AfterCompletion(r, c) ==
  LET advanced == CompleteActiveAgent(r, c.condition, c.status)
  IN  IF c.task = NoTask THEN advanced
      ELSE WithIntent([advanced EXCEPT !.completions[c.task] = @ + 1],
                      "complete", c.task, c.status, c.claim)

ExternalIsLegal(r, n, condition) ==
  r.node = n /\ Kind[n] \in ExternalKind /\ HasEdge(n, condition)

\* The callback given to runs.update: may it run, and what does it return?
UpdateIsLegal(c) ==
  CASE c.kind = "handoff" -> HandoffIsRepeated(run, c.task) \/ HandoffIsLegal(run, c.task)
    [] c.kind = "complete" -> CompletionIsLegal(run, c.agent, c.condition)
    [] c.kind = "external" -> ExternalIsLegal(run, c.node, c.condition)

Updated(c) ==
  CASE c.kind = "handoff" ->
         WithIntent(IF HandoffIsRepeated(run, c.task) THEN run ELSE AfterHandoff(run, c.task),
                    "enqueue", c.task, "completed", NoClaim)
    [] c.kind = "complete" -> AfterCompletion(run, c)
    [] c.kind = "external" -> enterGraphNode(run, nextNodeForCondition(run.node, c.condition))
-----------------------------------------------------------------------------
(***************************************************************************)
(* A mutation of the run by runtime r: withRunLock, withRunMutationLease.  *)
(***************************************************************************)
Goto(r, label) == pc' = [pc EXCEPT ![r] = label]

\* The fence of r's mutation is accepted by the run store.
FenceIsValid(r) == lease # NoLease /\ lease.holder = r /\ ~lease.lapsed

LeaseIsFree == lease # NoLease => lease.lapsed

\* The run lock lets one mutation at a time in, and the lease is acquired.
Begin(r, c, label) ==
  /\ pc[r] = "idle" /\ LeaseIsFree
  /\ lease' = [holder |-> r, lapsed |-> FALSE]
  /\ call' = [call EXCEPT ![r] = c]
  /\ Goto(r, label)
  /\ UNCHANGED <<run, mail, todo, faults>>

\* A client asks for a handoff, for the first time or again.
Handoff(r) ==
  /\ \E t \in Task : Begin(r, [kind |-> "handoff", task |-> t], "update")
  /\ UNCHANGED work

\* completeAgentTask for an agent that got no message, and completeExternalNode.
CompleteDirectly(r) ==
  /\ \E d \in Direct :
       Begin(r, [kind |-> "complete", agent |-> d[1], condition |-> d[2],
                 status |-> IF d[2] \in {"failed", "aborted"} THEN d[2] ELSE "completed",
                 task |-> NoTask, claim |-> NoClaim], "update")
  /\ UNCHANGED work

CompleteExternal(r) ==
  /\ \E x \in External :
       Begin(r, [kind |-> "external", node |-> x[1], condition |-> x[2]], "update")
  /\ UNCHANGED work

\* The handler of worker w returned: processNext calls completeAgentTask.
CompleteWork(w) ==
  /\ work[w] # NoWork
  /\ \E o \in Outcome :
       Begin(RuntimeOf[w],
             [kind |-> "complete", agent |-> work[w].task.target, condition |-> o.condition,
              status |-> o.status, task |-> work[w].task, claim |-> work[w].claim,
              worker |-> w], "update")
  /\ work' = [work EXCEPT ![w] = NoWork]

\* listWithPendingOutbox returns the run, completed or not.
HasPendingOutbox == Pending # {}

\* EventedV2OutboxReconciler flushes it.
Reconcile(r) ==
  /\ HasPendingOutbox
  /\ Begin(r, [kind |-> "flush"], "load")
  /\ UNCHANGED work

\* runs.update checks the fence and then the callback may throw; either way the
\* lease is released.  Only a change with a message is followed by a flush.
Update(r) ==
  /\ pc[r] = "update"
  /\ IF FenceIsValid(r) /\ UpdateIsLegal(call[r])
       THEN /\ run' = Updated(call[r])
            /\ Goto(r, IF call[r].kind = "external" \/ call[r].task = NoTask
                       THEN "release" ELSE "load")
       ELSE run' = run /\ Goto(r, "release")
  /\ UNCHANGED <<mail, lease, call, todo, work, faults>>

\* flushPendingOutboxUnlocked reads the run once and works through what is pending
\* in it; the read needs no fence.
Load(r) ==
  /\ pc[r] = "load"
  /\ todo' = [todo EXCEPT ![r] = Pending]
  /\ Goto(r, "flush")
  /\ UNCHANGED <<run, mail, lease, call, work, faults>>

\* The oldest of them: an intent keeps its place, and all but published.
NextIntent(r) == run.outbox[Min(todo[r])]

\* mailbox.enqueue keeps what is there: preserveMailboxProgress.
Enqueued(m) == IF m.status = "none" THEN [m EXCEPT !.status = "queued"] ELSE m

PublishEnqueue(r) ==
  /\ pc[r] = "flush" /\ todo[r] # {}
  /\ LET i == NextIntent(r) IN
       /\ i.kind = "enqueue"
       /\ mail' = [mail EXCEPT ![i.task] = Enqueued(@)]
  /\ Goto(r, "mark")
  /\ UNCHANGED <<run, lease, call, todo, work, faults>>

\* mailbox.complete: nothing to do for a missing message or one that has this
\* status already.
CompletionIsReplayed(i) == mail[i.task].status \in {"none", i.status}

\* assertMailboxFence compares the claims; it does not ask whether one expired.
ClaimIsCurrent(i) == i.claim = NoClaim \/ i.claim = mail[i.task].claim

PublishComplete(r) ==
  /\ pc[r] = "flush" /\ todo[r] # {}
  /\ LET i == NextIntent(r) IN
       /\ i.kind = "complete"
       /\ CompletionIsReplayed(i) \/ ClaimIsCurrent(i)
       /\ mail' = IF CompletionIsReplayed(i) THEN mail
                  ELSE [mail EXCEPT ![i.task] = [NoMail EXCEPT !.status = i.status]]
  /\ Goto(r, "mark")
  /\ UNCHANGED <<run, lease, call, todo, work, faults>>

\* mailbox.complete throws, and with it the flush.
RejectComplete(r) ==
  /\ pc[r] = "flush" /\ todo[r] # {}
  /\ LET i == NextIntent(r) IN
       i.kind = "complete" /\ ~CompletionIsReplayed(i) /\ ~ClaimIsCurrent(i)
  /\ todo' = [todo EXCEPT ![r] = {}]
  /\ Goto(r, "release")
  /\ UNCHANGED <<run, mail, lease, call, work, faults>>

\* markOutboxPublished finds the intent by its outboxId.
MarkedBy(i) == Intents(i.kind, i.task)

\* Another fenced update.
Mark(r) ==
  /\ pc[r] = "mark"
  /\ IF FenceIsValid(r)
       THEN LET i == NextIntent(r) IN
            /\ run' = [run EXCEPT !.outbox =
                         [k \in 1 .. Len(@) |->
                            IF k \in MarkedBy(i)
                            THEN [@[k] EXCEPT !.published = TRUE] ELSE @[k]]]
            /\ todo' = [todo EXCEPT ![r] = @ \ {Min(@)}]
            /\ Goto(r, "flush")
       ELSE /\ todo' = [todo EXCEPT ![r] = {}]
            /\ run' = run
            /\ Goto(r, "release")
  /\ UNCHANGED <<mail, lease, call, work, faults>>

Release(r) ==
  /\ pc[r] = "release" \/ (pc[r] = "flush" /\ todo[r] = {})
  /\ lease' = IF lease # NoLease /\ lease.holder = r THEN NoLease ELSE lease
  /\ call' = [call EXCEPT ![r] = NoCall]
  /\ Goto(r, "idle")
  /\ UNCHANGED <<run, mail, todo, work, faults>>

Advance(r) ==
  \/ Update(r) \/ Load(r) \/ PublishEnqueue(r) \/ PublishComplete(r)
  \/ RejectComplete(r) \/ Mark(r) \/ Release(r)
-----------------------------------------------------------------------------
(***************************************************************************)
(* Workers.                                                                *)
(***************************************************************************)
ClaimableWhenQueued(t) == mail[t].status = "queued"

\* A claimed message can be claimed again once its claim has expired.
Claimable(t) ==
  \/ mail[t].status = "queued"
  \/ mail[t].status = "delivered" /\ mail[t].claim # NoClaim /\ mail[t].lapsed

\* Messages are as old as the handoffs that made them.
Older(t, u) == Max(Intents("enqueue", t)) < Max(Intents("enqueue", u))

\* Claims somebody still remembers; a new claim has another token.
Remembered ==
  {mail[t].claim : t \in Task} \cup {work[w].claim : w \in Worker}
  \cup {call[r].claim : r \in {q \in Runtime : call[q].kind = "complete"}}
  \cup {run.outbox[k].claim : k \in 1 .. Len(run.outbox)}

\* A worker polls again when it is done with the last message.
IsFree(w) ==
  /\ work[w] = NoWork
  /\ \A r \in Runtime : call[r].kind = "complete" /\ call[r].task # NoTask => call[r].worker # w

\* claimNext for one of the agents: the oldest claimable message.
Claim(w) ==
  /\ IsFree(w)
  /\ \E t \in Task :
       /\ Claimable(t)
       /\ \A u \in Task : u.target = t.target /\ Claimable(u) => ~Older(u, t)
       /\ \E c \in IF ClaimLeases THEN Token \ Remembered ELSE {NoClaim} :
            /\ \A d \in Token \ Remembered : c # NoClaim => c <= d
            /\ mail' = [mail EXCEPT ![t] = [status |-> "delivered", claim |-> c, lapsed |-> FALSE]]
            /\ work' = [work EXCEPT ![w] = [task |-> t, claim |-> c]]
  /\ UNCHANGED <<run, lease, pc, call, todo, faults>>
-----------------------------------------------------------------------------
(***************************************************************************)
(* What goes wrong, and the passing of time.                               *)
(***************************************************************************)
Spend(kind) == kind \in Fault /\ faults < MaxFaults /\ faults' = faults + 1

\* The handler throws, or the lease is not available in time: processNext throws.
HandlerFails(w) ==
  /\ Spend("handler") /\ work[w] # NoWork
  /\ work' = [work EXCEPT ![w] = NoWork]
  /\ UNCHANGED <<run, mail, lease, pc, call, todo>>

\* A mutation takes longer than its lease, which nothing renews.
LeaseLapses ==
  /\ Spend("leaseLapse")
  /\ lease # NoLease /\ lease.holder # Dead /\ ~lease.lapsed
  /\ lease' = [lease EXCEPT !.lapsed = TRUE]
  /\ UNCHANGED <<run, mail, pc, call, todo, work>>

DeadLeaseLapses ==
  /\ lease # NoLease /\ lease.holder = Dead /\ ~lease.lapsed
  /\ lease' = [lease EXCEPT !.lapsed = TRUE]
  /\ UNCHANGED <<run, mail, pc, call, todo, work, faults>>

ClaimIsHeld(t) ==
  \/ \E w \in Worker : work[w].task = t /\ work[w].claim = mail[t].claim
  \/ \E r \in Runtime : call[r].kind = "complete" /\ call[r].claim = mail[t].claim

ClaimExpires(t) ==
  /\ mail[t].status = "delivered" /\ mail[t].claim # NoClaim /\ ~mail[t].lapsed
  /\ mail' = [mail EXCEPT ![t].lapsed = TRUE]
  /\ UNCHANGED <<run, lease, pc, call, todo, work>>

\* A task takes longer than its claim.
ClaimLapses(t) == Spend("claimLapse") /\ ClaimIsHeld(t) /\ ClaimExpires(t)

\* The claim of a worker that failed or died runs out.
AbandonedClaimLapses(t) == ~ClaimIsHeld(t) /\ ClaimExpires(t) /\ faults' = faults

\* The process dies and comes back as another lease holder.
Crash(r) ==
  /\ Spend("crash")
  /\ pc[r] # "idle" \/ \E w \in Worker : RuntimeOf[w] = r /\ work[w] # NoWork
  /\ lease' = IF lease # NoLease /\ lease.holder = r THEN [lease EXCEPT !.holder = Dead] ELSE lease
  /\ pc' = [pc EXCEPT ![r] = "idle"]
  /\ call' = [call EXCEPT ![r] = NoCall]
  /\ todo' = [todo EXCEPT ![r] = {}]
  /\ work' = [w \in Worker |-> IF RuntimeOf[w] = r THEN NoWork ELSE work[w]]
  /\ UNCHANGED <<run, mail>>
-----------------------------------------------------------------------------
Next ==
  \/ \E r \in Runtime :
       \/ Handoff(r) \/ CompleteDirectly(r) \/ CompleteExternal(r) \/ Reconcile(r)
       \/ Advance(r) \/ Crash(r)
  \/ \E w \in Worker : Claim(w) \/ CompleteWork(w) \/ HandlerFails(w)
  \/ \E t \in Task : ClaimLapses(t) \/ AbandonedClaimLapses(t)
  \/ LeaseLapses \/ DeadLeaseLapses

\* Pollers poll and timers fire.  A waiting mutation gets its turn: the run lock is
\* a queue, and the lease is polled every 5 ms for as long as it may be held.
\* Nothing makes a client call.
Fairness ==
  /\ \A r \in Runtime : WF_vars(Advance(r)) /\ SF_vars(Reconcile(r))
  /\ \A w \in Worker : WF_vars(Claim(w)) /\ SF_vars(CompleteWork(w))
  /\ \A t \in Task : WF_vars(AbandonedClaimLapses(t))
  /\ WF_vars(DeadLeaseLapses)

Spec == Init /\ [][Next]_vars
-----------------------------------------------------------------------------
RunRecord == [node : Node, top : Agent, status : RunStatus,
              agentRun : [Node -> AgentRunStatus], attempts : [Node -> Nat],
              delivered : SUBSET Task, outbox : Seq(Intent), completions : [Task -> Nat]]

TypeOK ==
  /\ run \in RunRecord
  /\ mail \in [Task -> Mail]
  /\ lease \in [holder : Runtime \cup {Dead}, lapsed : BOOLEAN] \cup {NoLease}
  /\ pc \in [Runtime -> {"idle", "update", "load", "flush", "mark", "release"}]
  /\ \A r \in Runtime : call[r] = NoCall <=> pc[r] = "idle"
  /\ todo \in [Runtime -> SUBSET (1 .. Len(run.outbox))]
  /\ work \in [Worker -> [task : Task, claim : Token \cup {NoClaim}] \cup {NoWork}]
  /\ faults \in 0 .. MaxFaults

\* The mailbox never runs ahead of the run: a message exists only for a handoff
\* the run has recorded, and is over only if the run has recorded its result,
\* whichever process died between the two writes.
MailboxFollowsRun ==
  \A t \in Task :
    /\ mail[t].status # "none" => t \in run.delivered /\ Intents("enqueue", t) # {}
    /\ mail[t].status \in Terminal => run.completions[t] > 0

\* An intent is marked as published only once the mailbox shows its effect, and
\* no retry, duplicate flush or late worker undoes that effect.
IsInMailbox(i) == IF i.kind = "enqueue" THEN mail[i.task].status # "none"
                  ELSE mail[i.task].status = i.status

PublishedIsInMailbox ==
  \A k \in 1 .. Len(run.outbox) : run.outbox[k].published => IsInMailbox(run.outbox[k])

\* One result is recorded per message, however many workers came to hold it, unless
\* the graph comes back to the agent: the visit it comes back to is ended by whoever
\* still holds the message of the visit before.
AgentComesBack(a) ==
  \E m, n \in Node : /\ Kind[m] = "agent" /\ AgentAt[m] = a
                     /\ Kind[n] = "agent" /\ AgentAt[n] = a /\ LeadsOn(m, n)

AcceptedOnce ==
  \A t \in Task : run.completions[t] > 1 => ClaimLeases /\ AgentComesBack(t.target)

\* The agent the run waits for is the one on top of the stack, and has an agentRun
\* that is still open, so that its completion is neither refused nor written over
\* an older result, unless a handoff took the run back to a node it had left.
HandedBack(n) == \E m \in Node : Kind[m] = "agent" /\ TargetNode(m) = n /\ LeadsOn(n, m)

ActiveAgentIsOpen ==
  run.status = "running" =>
    /\ Kind[run.node] = "agent" /\ run.top = AgentAt[run.node]
    /\ run.agentRun[run.node] \in {"queued", "running"} \/ HandedBack(run.node)

\* A retry node is entered at most once more than its limit, unless the way out of an
\* exhausted one leads back to it.
AttemptsBounded ==
  \A n \in Node : Kind[n] = "retry" /\ run.attempts[n] > MaxAttempts[n] + 1 =>
                    Leads(nextNodeForCondition(n, "exhausted"), n)

\* A result was recorded under a claim that has been taken over since, so that its
\* intent cannot be published: the one way in which progress is lost for good.
TakenOver ==
  \E k \in 1 .. Len(run.outbox) :
    LET i == run.outbox[k] IN
    i.kind = "complete" /\ ~i.published /\ ~CompletionIsReplayed(i) /\ ~ClaimIsCurrent(i)

\* Nothing else keeps an outbox from being published: no crash between two writes,
\* no run lease that expires during a flush, no concurrent flush.
OutboxStuckOnlyByTakeover ==
  (Pending # {}) ~> (Pending = {} \/ TakenOver)

\* A result of t is being refused: the graph has no edge for it, as the default graph has
\* none for a specialist that fails.
Refused(t) ==
  \E r \in Runtime :
    /\ pc[r] = "update" /\ call[r].kind = "complete" /\ call[r].task = t
    /\ Kind[run.node] = "agent" /\ AgentAt[run.node] = t.target
    /\ ~HasEdge(run.node, call[r].condition)

\* Without claim leases a message that was delivered is given to nobody again, whatever
\* became of the worker that had it.
Abandoned(t) ==
  /\ ~ClaimLeases /\ mail[t].status = "delivered" /\ run.completions[t] = 0
  /\ \A w \in Worker : work[w].task # t
  /\ \A r \in Runtime : call[r].kind = "complete" => call[r].task # t

\* Nothing else keeps a task from ending: after a failed handler, a crashed worker
\* or an expired claim somebody else gets the message. A task of the run that is not over
\* is refused again and again, or was abandoned.
TaskStuckOnlyByTakeover ==
  \A t \in Task :
    (t \in run.delivered) ~>
      (mail[t].status \in Terminal \/ TakenOver \/ Refused(t) \/ Abandoned(t))

\* The run and the mailbox, two files that no write covers together, agree after every
\* step: neither runs ahead of the other, and what is published stays published.
RunAndMailboxAgree == TypeOK /\ MailboxFollowsRun /\ PublishedIsInMailbox /\ AcceptedOnce

\* A running run waits for an agent that is open, however often it was retried.
RunningRunIsOpen == ActiveAgentIsOpen /\ AttemptsBounded

\* A message that is over keeps its status, although intents are replayed and late
\* workers still complete it.
TerminalMailIsStable == \A t \in Task : mail[t].status \in Terminal => mail'[t] = mail[t]

\* A completed run is not advanced by anybody who has not noticed yet.
CompletedRunIsStable ==
  run.status = "completed" => run'.status = "completed" /\ run'.node = run.node

\* What is over stays over, and what is not waits for somebody who can still answer.
EndsAreStable == [][RunningRunIsOpen' /\ TerminalMailIsStable /\ CompletedRunIsStable]_vars

\* Once a result is recorded it is lost in one way only, under a claim that was taken over
\* since; before that a task stays open only if the graph refuses each of its results, or,
\* without claim leases, if the one worker it was given to is done with it.
StuckOnlyByTakeover == OutboxStuckOnlyByTakeover /\ TaskStuckOnlyByTakeover
=============================================================================
