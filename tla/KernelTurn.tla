----------------------------- MODULE KernelTurn -----------------------------
(***************************************************************************)
(* A turn on the production graph of kernel_v3: its node handlers, the     *)
(* effects of its tools and the revisions of its task state, under crashes *)
(* and lost leases.                                                        *)
(*                                                                         *)
(* RuntimeKernel has the log and the checkpoints; here they are "saved",   *)
(* the state a process continues from: that of the last node.completed.    *)
(* Everything a handler did before that event is done again, except where  *)
(* a store remembers it. A call is its id and the step it was proposed in: *)
(* an adapter that finds no id in a stream numbers the calls of each reply *)
(* from one (MaxSteps is the step budget of the middleware).               *)
(*                                                                         *)
(* A tool whose effect is pending in the run state would suspend the run;  *)
(* pending effects are in no saved run state (set-effects is a command of  *)
(* the end of commit-tools), so no run is suspended here.                  *)
(*                                                                         *)
(* KeyOfRun, RevisionUnchecked and RecoverForever are ways to get the next *)
(* definition wrong.                                                       *)
(***************************************************************************)
EXTENDS Naturals, FiniteSets, Sequences, SequencesExt

CONSTANTS
  Process,
  Id,          \* ids of tool calls
  MaxCalls,    \* bound: calls of a proposal and entries of the ledger
  MaxSteps,    \* the step budget
  MaxRecovery, \* recovery.maxAttempts
  MaxFaults,   \* bound: crashes and lapsed leases
  MaxRevision  \* bound: the revision up to which histories are compacted

\* A process is not called "free"; a proposal is a finite set of calls.
ASSUME KernelAssumption ==
  /\ "free" \notin Process /\ IsFiniteSet(Id)
  /\ MaxCalls \in Nat /\ MaxSteps \in Nat /\ MaxRecovery \in Nat /\ MaxFaults \in Nat
  /\ MaxRevision \in Nat

Call == [id : Id, step : 1 .. MaxSteps]
ProposalClass == {"none", "final", "tools", "recover", "refusal"}
Outcome == {"none", "completed", "stopped"}  \* failed, degraded and aborted are not told apart
NoResult == [id |-> "none", step |-> 0]
Revision == [id |-> "revision", step |-> 0]

VARIABLES
  saved,    \* the durable run state
  lease,    \* the process that holds the run lease, or "free"
  proc,     \* what each process is doing, and its copy of the run state
  task,     \* the task state: its active revision and its tool ledger
  results,  \* the effect results, by id: what they are the result of
  answers,  \* the items: pairs of a call and what its result is of
  faults,
  ran,      \* history: how often each call was executed
  disturbed \* history: the calls and revisions at work when a process crashed or lost its lease

vars == <<saved, lease, proc, task, results, answers, faults, ran, disturbed>>

Fresh ==
  [node |-> "prepare-turn", steps |-> 0, proposal |-> "none", calls |-> <<>>, recovery |-> 0,
   revision |-> 0, committed |-> {}, outcome |-> "none"]

Stopped == [pc |-> "stopped", run |-> Fresh, i |-> 0, base |-> 0, ledger |-> {}, effects |-> {}]

Init ==
  /\ saved = Fresh /\ lease = "free"
  /\ proc = [p \in Process |-> Stopped]
  /\ task = [revision |-> 0, ledger |-> {}]
  /\ results = [k \in Id |-> NoResult] /\ answers = {}
  /\ faults = 0 /\ ran = [c \in Call |-> 0] /\ disturbed = {}

stores == <<task, results, answers>>
history == <<ran, disturbed>>
-----------------------------------------------------------------------------
\* productionKernelV3Graph.  Left out are the nodes nothing leads to (wait-user, and fail,
\* which the hook after account-model forestalls) and, with their edges joined, those
\* that change nothing here: normalize-proposal, materialize-proposal, prepare-tools,
\* govern-progress, progress-checkpoint, recover-context.  The end of a run is no node.
Edge(node, condition) ==
  CASE node = "prepare-turn" -> "restore-task"
    [] node = "restore-task" -> "build-context"
    [] node = "build-context" -> "invoke-model"
    [] node = "invoke-model" -> IF condition = "recover" THEN "build-context" ELSE "account-model"
    [] node = "account-model" -> "evaluate"
    [] node = "evaluate" ->
         (CASE condition = "final" -> "commit-assistant" [] condition = "tools" -> "commit-tools"
            [] condition = "recover" -> "build-context")
    [] node = "commit-tools" -> "project-progress"
    [] node = "project-progress" -> "build-context"

StepsLeft(run) == run.steps < MaxSteps

\* The budget middleware lets no node begin once the steps are used up.
At(p, node) == proc[p].pc = "running" /\ proc[p].run.node = node /\ StepsLeft(proc[p].run)
Run(p) == proc[p].run

CompletedUnfenced(p, run) ==
  /\ saved' = run
  /\ proc' = [proc EXCEPT ![p] = IF run.outcome = "none" THEN [Stopped EXCEPT !.pc = "running", !.run = run]
                                 ELSE Stopped]
  /\ lease' = IF run.outcome = "none" THEN lease ELSE "free"

Stop(p) == proc' = [proc EXCEPT ![p] = Stopped]

\* node.completed is appended under the fence of the lease; a process that has lost it
\* learns of it here, and a run that is over releases it.
Completed(p, run) ==
  IF lease = p THEN CompletedUnfenced(p, run)
  ELSE Stop(p) /\ UNCHANGED <<saved, lease>>

Goto(p, condition, run) == Completed(p, [run EXCEPT !.node = Edge(run.node, condition)])
End(p, outcome, run) == Completed(p, [run EXCEPT !.outcome = outcome])
-----------------------------------------------------------------------------
MayStart(p) == lease = "free"

\* run() acquires the lease and continues from the log.
Start(p) ==
  /\ proc[p].pc = "stopped" /\ MayStart(p)
  /\ saved.outcome = "none"
  /\ lease' = p
  /\ proc' = [proc EXCEPT ![p] = [Stopped EXCEPT !.pc = "running", !.run = saved]]
  /\ UNCHANGED <<saved, stores, faults, history>>

\* The turn or its thread may be gone or not of this user, and the turn aborted.
PrepareTurn(p) ==
  /\ At(p, "prepare-turn")
  /\ \/ Goto(p, "next", Run(p))
     \/ End(p, "stopped", Run(p))
  /\ UNCHANGED <<stores, faults, history>>

\* migrateLegacyTaskState makes the first revision.
RestoreTask(p) ==
  /\ At(p, "restore-task")
  /\ task' = IF task.revision = 0 THEN [task EXCEPT !.revision = 1] ELSE task
  /\ Goto(p, "next", [Run(p) EXCEPT !.revision = task'.revision])
  /\ UNCHANGED <<results, answers, faults, history>>

\* A history that fits is not compacted; CompactionTransaction is below.
BuildContext(p) ==
  /\ At(p, "build-context")
  /\ \/ Goto(p, "next", Run(p))
     \/ End(p, "stopped", Run(p))
  /\ UNCHANGED <<stores, faults, history>>

RecoverForever(run) == run

Recovered(run) == [run EXCEPT !.recovery = @ + 1]

\* The model is asked again after a crash: its answer is not remembered.  A stream error or
\* a full context is recovered from while attempts are left.
InvokeModel(p) ==
  /\ At(p, "invoke-model")
  /\ \/ \E class \in ProposalClass \ {"none"} :
          \E ids \in (IF class = "tools" THEN (SUBSET Id) \ {{}} ELSE {{}}) :
            /\ Cardinality(ids) + Cardinality(task.ledger) <= MaxCalls
            /\ Goto(p, "next", [Run(p) EXCEPT !.proposal = class,
                                  !.calls = SetToSeq([id : ids, step : {Run(p).steps + 1}])])
     \/ IF Run(p).recovery < MaxRecovery
          THEN Goto(p, "recover", Recovered(Run(p)))
          ELSE End(p, "stopped", Run(p))
     \/ End(p, "stopped", Run(p))
  /\ UNCHANGED <<stores, faults, history>>

\* A reply the provider stopped for safety ends the run in the hook after this node; what
\* looks like a broken one may be such a reply.
AccountModel(p) ==
  /\ At(p, "account-model")
  /\ LET counted == [Run(p) EXCEPT !.steps = @ + 1]
     IN \/ Run(p).proposal # "refusal" /\ Goto(p, "next", counted)
        \/ Run(p).proposal \in {"refusal", "recover"} /\ End(p, "stopped", counted)
  /\ UNCHANGED <<stores, faults, history>>

Evaluate(p) ==
  /\ At(p, "evaluate")
  /\ IF Run(p).proposal \in {"final", "tools"} THEN Goto(p, Run(p).proposal, Run(p))
     ELSE IF Run(p).recovery < MaxRecovery THEN Goto(p, "recover", Recovered(Run(p)))
     ELSE End(p, "stopped", Run(p))
  /\ UNCHANGED <<stores, faults, history>>

\* The answer is an item that is applied once.
CommitAssistant(p) ==
  /\ At(p, "commit-assistant")
  /\ End(p, "completed", Run(p))
  /\ UNCHANGED <<stores, faults, history>>

\* The hook before each node ends a run that is over its budget: of steps, or of tool
\* calls, tokens or cost, which are not counted here.
Capped(p) ==
  /\ proc[p].pc = "running"
  /\ End(p, "stopped", Run(p))
  /\ UNCHANGED <<stores, faults, history>>

-----------------------------------------------------------------------------
(***************************************************************************)
(* commit-tools: ToolRuntimeV3 and the effect coordinator, call by call.   *)
(***************************************************************************)
Doing(p, pc) == proc[p].pc = pc
ThisCall(p) == Run(p).calls[proc[p].i]

KeyOfRun(p) == CHOOSE k \in Id : TRUE

\* idempotencyKey: the run and the id of the call.
Key(p) == ThisCall(p).id

BeginTools(p) ==
  /\ At(p, "commit-tools")
  /\ proc' = [proc EXCEPT ![p].pc = "call", ![p].i = 1, ![p].effects = Run(p).committed]
  /\ UNCHANGED <<saved, lease, stores, faults, history>>

AllCalled(p) == proc[p].i = Len(Run(p).calls)

NextCall(p, effects) ==
  [proc EXCEPT ![p].i = @ + 1, ![p].pc = IF AllCalled(p) THEN "ledger" ELSE "call",
               ![p].ledger = @ \cup {ThisCall(p)}, ![p].effects = effects]

\* A committed effect is answered from the store.
Replay(p) ==
  /\ Doing(p, "call") /\ Key(p) \in proc[p].effects
  /\ answers' = answers \cup {<<ThisCall(p), results[Key(p)]>>}
  /\ proc' = NextCall(p, proc[p].effects)
  /\ UNCHANGED <<saved, lease, task, results, faults, history>>

\* effect.prepared is appended under the fence.  Nothing reads it back: the pending
\* effects of the run state are those of this process.
RecordPrepared(p) ==
  /\ Doing(p, "call") /\ Key(p) \notin proc[p].effects
  /\ IF lease = p THEN proc' = [proc EXCEPT ![p].pc = "execute"] ELSE Stop(p)
  /\ UNCHANGED <<saved, lease, stores, faults, history>>

Execute(p) ==
  /\ Doing(p, "execute")
  /\ ran' = [ran EXCEPT ![ThisCall(p)] = @ + 1]
  /\ proc' = [proc EXCEPT ![p].pc = "save"]
  /\ UNCHANGED <<saved, lease, stores, faults, disturbed>>

\* A call the host refuses is answered with an error, and is no effect.
Refused(p) ==
  /\ Doing(p, "execute")
  /\ answers' = answers \cup {<<ThisCall(p), ThisCall(p)>>}
  /\ proc' = NextCall(p, proc[p].effects)
  /\ UNCHANGED <<saved, lease, task, results, faults, history>>

SaveResult(p) ==
  /\ Doing(p, "save")
  /\ results' = [results EXCEPT ![Key(p)] = ThisCall(p)]
  /\ proc' = [proc EXCEPT ![p].pc = "commit"]
  /\ UNCHANGED <<saved, lease, task, answers, faults, history>>

RecordCommitted(p) ==
  /\ Doing(p, "commit")
  /\ IF lease = p
       THEN /\ answers' = answers \cup {<<ThisCall(p), ThisCall(p)>>}
            /\ proc' = NextCall(p, proc[p].effects \cup {Key(p)})
       ELSE Stop(p) /\ answers' = answers
  /\ UNCHANGED <<saved, lease, task, results, faults, history>>
-----------------------------------------------------------------------------
(***************************************************************************)
(* The revisions of the task state: prepare checks the expected one, and   *)
(* commit once more.                                                       *)
(***************************************************************************)
\* updateTaskLedger: one entry per call id, the last one.
PrepareLedger(p) ==
  /\ Doing(p, "ledger")
  /\ proc' = [proc EXCEPT ![p].pc = "ledger2", ![p].base = task.revision,
               ![p].ledger = {c \in task.ledger : \A d \in @ : d.id # c.id} \cup @]
  /\ UNCHANGED <<saved, lease, stores, faults, history>>

RevisionUnchecked(p) == TRUE

RevisionIsActive(p) == task.revision = proc[p].base

\* A handler that throws fails the run, if the process can still save that.
Throws(p) == End(p, "stopped", Run(p))

CommitLedger(p) ==
  /\ Doing(p, "ledger2")
  /\ IF RevisionIsActive(p)
       THEN /\ task' = [revision |-> proc[p].base + 1, ledger |-> proc[p].ledger]
            /\ proc' = [proc EXCEPT ![p].pc = "tools"]
            /\ UNCHANGED <<saved, lease>>
       ELSE Throws(p) /\ task' = task
  /\ UNCHANGED <<results, answers, faults, history>>

ToolsDone(p) == [Run(p) EXCEPT !.revision = proc[p].base + 1, !.committed = proc[p].effects]

CompleteTools(p) ==
  /\ Doing(p, "tools")
  /\ Goto(p, "tools_committed", ToolsDone(p))
  /\ UNCHANGED <<stores, faults, history>>

\* CompactionTransaction, in build-context: the compacted items name the revision after the
\* one it has loaded.  The run state does not learn of it: commit-tools loads the task again.
BeginCompaction(p) ==
  /\ At(p, "build-context") /\ task.revision < MaxRevision
  /\ proc' = [proc EXCEPT ![p].pc = "compacting", ![p].base = task.revision, ![p].ledger = task.ledger]
  /\ UNCHANGED <<saved, lease, stores, faults, history>>

CommitCompaction(p) ==
  /\ Doing(p, "compacting")
  /\ IF RevisionIsActive(p)
       THEN /\ task' = [revision |-> proc[p].base + 1, ledger |-> proc[p].ledger]
            /\ proc' = [proc EXCEPT ![p].pc = "built"]
            /\ UNCHANGED <<saved, lease>>
       ELSE Throws(p) /\ task' = task
  /\ UNCHANGED <<results, answers, faults, history>>

CompleteBuild(p) ==
  /\ Doing(p, "built")
  /\ Goto(p, "next", Run(p)) \/ End(p, "stopped", Run(p))
  /\ UNCHANGED <<stores, faults, history>>

\* After this node the loop governor may end the run.
Progressed(p, run) == Goto(p, "next", run) \/ End(p, "stopped", run)

\* project-progress starts from the copy of the task in the run state.
ProjectProgress(p) ==
  /\ At(p, "project-progress")
  /\ \/ Progressed(p, Run(p))
     \/ IF task.revision = Run(p).revision
          THEN /\ proc' = [proc EXCEPT ![p].pc = "progress", ![p].base = task.revision]
               /\ UNCHANGED <<saved, lease>>
          ELSE Throws(p)
  /\ UNCHANGED <<stores, faults, history>>

CommitProgress(p) ==
  /\ Doing(p, "progress")
  /\ IF RevisionIsActive(p)
       THEN /\ task' = [task EXCEPT !.revision = @ + 1]
            /\ proc' = [proc EXCEPT ![p].pc = "progressed"]
            /\ UNCHANGED <<saved, lease>>
       ELSE Throws(p) /\ task' = task
  /\ UNCHANGED <<results, answers, faults, history>>

CompleteProgress(p) ==
  /\ Doing(p, "progressed")
  /\ Progressed(p, [Run(p) EXCEPT !.revision = proc[p].base + 1])
  /\ UNCHANGED <<stores, faults, history>>
-----------------------------------------------------------------------------
\* What a process may leave half done, or do at the same time as another one.
Work(p) ==
  IF Run(p).node \in {"commit-tools", "project-progress"}
    THEN {Run(p).calls[i] : i \in DOMAIN Run(p).calls} \cup {Revision}
  ELSE IF Run(p).node = "build-context" THEN {Revision} ELSE {}

\* Where a crash leaves nothing half done that the next process would trip over.
Redone(p) == proc[p].pc \in {"running", "compacting", "built"}

Crash(p) ==
  /\ proc[p].pc # "stopped" /\ faults < MaxFaults
  /\ faults' = faults + 1
  /\ disturbed' = IF Redone(p) THEN disturbed ELSE disturbed \cup Work(p)
  /\ Stop(p)
  /\ lease' = IF lease = p THEN "free" ELSE lease
  /\ UNCHANGED <<saved, stores, ran>>

\* The lease expires under a process that works on.
LeaseLapses(p) ==
  /\ lease = p /\ faults < MaxFaults
  /\ faults' = faults + 1
  /\ disturbed' = disturbed \cup Work(p)
  /\ lease' = "free"
  /\ UNCHANGED <<saved, proc, stores, ran>>

NodeStep(p) ==
  \/ PrepareTurn(p) \/ RestoreTask(p) \/ BuildContext(p) \/ InvokeModel(p) \/ AccountModel(p)
  \/ Evaluate(p) \/ CommitAssistant(p) \/ Capped(p)

ToolStep(p) ==
  \/ BeginTools(p) \/ Replay(p) \/ RecordPrepared(p) \/ Execute(p) \/ Refused(p) \/ SaveResult(p)
  \/ RecordCommitted(p) \/ PrepareLedger(p) \/ CommitLedger(p) \/ CompleteTools(p)

CompactionStep(p) == BeginCompaction(p) \/ CommitCompaction(p) \/ CompleteBuild(p)

ProgressStep(p) == ProjectProgress(p) \/ CommitProgress(p) \/ CompleteProgress(p)

\* What a process does of itself.
Step(p) == NodeStep(p) \/ CompactionStep(p) \/ ToolStep(p) \/ ProgressStep(p)

Next == \E p \in Process :
  \/ Start(p) \/ Step(p) \/ Crash(p) \/ LeaseLapses(p)

Fairness == \A p \in Process : WF_vars(Step(p))

Spec == Init /\ [][Next]_vars /\ Fairness
-----------------------------------------------------------------------------
\* The budgets are those of the run: steps, recoveries and proposals stay within them in
\* the saved state and in every copy, through crashes and repeated nodes.
TypeOK ==
  /\ lease \in Process \cup {"free"} /\ faults \in 0 .. MaxFaults
  /\ \A run \in {saved} \cup {proc[p].run : p \in Process} :
       /\ run.steps \in 0 .. MaxSteps /\ run.recovery \in 0 .. MaxRecovery
       /\ run.proposal \in ProposalClass /\ run.outcome \in Outcome
       /\ run.committed \subseteq Id /\ run.revision \in Nat
       /\ \A i \in DOMAIN run.calls : run.calls[i] \in Call
  /\ task.revision \in Nat /\ task.ledger \subseteq Call
  /\ results \in [Id -> Call \cup {NoResult}]
  /\ answers \subseteq Call \X (Call \cup {NoResult})
  /\ ran \in [Call -> Nat]

\* A call is executed a second time only when a process that was at work on its proposal
\* crashed or lost the lease: the lease and the committed effects see to the rest.
RanTwiceOnlyIfDisturbed == \A c \in Call : ran[c] > 1 => c \in disturbed

\* What a tool call is answered with is its own result, unless an earlier step had a call
\* with the same id.
AnswersMatchUnlessIdReused ==
  \A a \in answers : a[2] = a[1] \/ (a[2].id = a[1].id /\ a[2].step < a[1].step)

\* The task revision a handler expects is the active one, so that nothing conflicts, unless
\* a process was disturbed between a commit of the task state and its node.completed, or
\* compacts on without its lease.
ConflictOnlyIfDisturbed ==
  \A p \in Process : lease = p /\ Revision \notin disturbed =>
    /\ At(p, "project-progress") => Run(p).revision = task.revision
    /\ proc[p].pc \in {"compacting", "ledger2", "progress"} => proc[p].base = task.revision

\* Past commit-tools every call of the proposal is answered and its id is in the ledger,
\* whichever process did it and however often.
ToolsAreAccountedFor ==
  saved.node \in {"project-progress", "build-context"} =>
    \A i \in DOMAIN saved.calls :
      /\ \E a \in answers : a[1] = saved.calls[i]
      /\ \E c \in task.ledger : c.id = saved.calls[i].id

\* No process takes an entry out of the ledger that another one has committed.
LedgerIsKept ==
  [][\A c \in task.ledger : \E d \in task'.ledger : d.id = c.id]_vars

\* A process that works on without its lease does not continue a run that is over.
EndedRunIsFinal == [][saved.outcome # "none" => saved' = saved]_vars

\* A process that runs the graph comes to an end of it, or crashes: the step budget and
\* the recovery attempts bound every loop of the graph.
EveryRunStops == \A p \in Process : proc[p].pc # "stopped" ~> proc[p].pc = "stopped"

\* What the run has done is accounted for: each call ran once unless its process was
\* disturbed, and has an answer that is its own, an entry in the ledger, and a task revision
\* that nobody else has moved.
CallsAreAccountedFor ==
  /\ TypeOK /\ RanTwiceOnlyIfDisturbed
  /\ AnswersMatchUnlessIdReused /\ ToolsAreAccountedFor /\ ConflictOnlyIfDisturbed

\* What is committed is kept: the entries of the ledger, and the end of the run.
CommitsAreKept == LedgerIsKept /\ EndedRunIsFinal
=============================================================================
