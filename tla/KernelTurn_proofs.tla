-------------------------- MODULE KernelTurn_proofs --------------------------
(***************************************************************************)
(* Proofs about KernelTurn, for any processes and ids of calls, and any    *)
(* budgets of steps, recoveries and faults.                                *)
(***************************************************************************)
EXTENDS KernelTurn, FiniteSetTheorems, SequenceTheorems, TLAPS

Node == {"prepare-turn", "restore-task", "build-context", "invoke-model", "account-model", "evaluate",
         "commit-assistant", "commit-tools", "project-progress"}
CallPc == {"call", "execute", "save", "commit"}
ToolPc == CallPc \cup {"ledger", "ledger2", "tools"}
ProgressPc == {"progress", "progressed"}
BuildPc == {"compacting", "built"}

RunRecord ==
  [node : Node, steps : 0 .. MaxSteps, proposal : ProposalClass, calls : Seq(Call),
   recovery : 0 .. MaxRecovery, revision : Nat, committed : SUBSET Id, outcome : Outcome]
ProcessRecord ==
  [pc : {"stopped", "running"} \cup ToolPc \cup ProgressPc \cup BuildPc, run : RunRecord, i : Nat, base : Nat,
   ledger : SUBSET Call, effects : SUBSET Id]
-----------------------------------------------------------------------------
(***************************************************************************)
(* The inductive invariant.                                                *)
(***************************************************************************)
TypeInv ==
  /\ saved \in RunRecord /\ lease \in Process \cup {"free"}
  /\ proc \in [Process -> ProcessRecord]
  /\ task \in [revision : Nat, ledger : SUBSET Call]
  /\ results \in [Id -> Call \cup {NoResult}] /\ answers \subseteq Call \X (Call \cup {NoResult})
  /\ faults \in 0 .. MaxFaults /\ ran \in [Call -> Nat]

\* The calls of a proposal have different ids, and are of the step that is counted next.
RunShape(run) ==
  /\ run.node \in {"prepare-turn", "restore-task"} => run.calls = <<>>
  /\ \A j, k \in DOMAIN run.calls : run.calls[j].id = run.calls[k].id => j = k
  /\ run.proposal = "tools" <=> run.calls # <<>>
  /\ run.node = "commit-tools" => run.proposal = "tools"
  /\ run.node = "account-model" => \A j \in DOMAIN run.calls : run.calls[j].step = run.steps + 1
  /\ run.node \in {"evaluate", "commit-tools"} => \A j \in DOMAIN run.calls : run.calls[j].step = run.steps

\* Where a process is in its node.
PhaseOf(p) ==
  /\ RunShape(proc[p].run)
  /\ proc[p].pc = "stopped" => proc[p] = Stopped
  /\ proc[p].pc \in ToolPc => proc[p].run.node = "commit-tools"
  /\ proc[p].pc \in CallPc => proc[p].i \in DOMAIN proc[p].run.calls
  /\ proc[p].pc \in ToolPc \ CallPc => proc[p].i = Len(proc[p].run.calls) + 1
  /\ proc[p].pc \in ProgressPc => proc[p].run.node = "project-progress"
  /\ proc[p].pc \in BuildPc => proc[p].run.node = "build-context"

PhaseInv == RunShape(saved) /\ \A p \in Process : PhaseOf(p)

\* Who has the lease works on the saved state; who has lost it is noted.
LeaseInv ==
  \A p \in Process :
    IF lease = p THEN proc[p].pc # "stopped" /\ proc[p].run = saved /\ saved.outcome = "none"
    ELSE proc[p].pc # "stopped" => Work(p) \subseteq disturbed

\* The saved states follow one another, and each copy is one of them.
Before(r, s) == r.steps <= s.steps /\ r.committed \subseteq s.committed

OrderInv ==
  \A p \in Process :
    /\ Before(proc[p].run, saved)
    /\ \A q \in Process : Before(proc[p].run, proc[q].run) \/ Before(proc[q].run, proc[p].run)

\* The result of an id is no younger than a state in which it is committed.
ResultInv ==
  \A k \in Id :
    /\ results[k] # NoResult =>
         /\ results[k].id = k /\ results[k].step <= saved.steps
         /\ \A p \in Process : k \in proc[p].run.committed => results[k].step <= proc[p].run.steps
    /\ k \in saved.committed => results[k] # NoResult
    /\ \A p \in Process : k \in proc[p].effects => results[k] # NoResult

\* A process commits the effects of the calls it has been through.
EffectOf(p) ==
  /\ proc[p].pc \in ToolPc =>
       /\ proc[p].run.committed \subseteq proc[p].effects
       /\ \A k \in proc[p].effects \ proc[p].run.committed :
            \E j \in DOMAIN proc[p].run.calls : j < proc[p].i /\ proc[p].run.calls[j].id = k
  /\ proc[p].pc \in {"execute", "save", "commit"} => Key(p) \notin proc[p].effects
  /\ proc[p].pc = "commit" => results[Key(p)] # NoResult

EffectInv == \A p \in Process : EffectOf(p)

IsAnswered(c) == \E a \in answers : a[1] = c
IsListed(c, ledger) == \E d \in ledger : d.id = c.id
Accounted(run) == \A j \in DOMAIN run.calls : IsAnswered(run.calls[j]) /\ IsListed(run.calls[j], task.ledger)

\* From its first call to the node that follows, a proposal comes to be accounted for.
LedgerOf(p) ==
  /\ proc[p].pc \in ToolPc =>
       \A j \in DOMAIN proc[p].run.calls : j < proc[p].i => IsAnswered(proc[p].run.calls[j])
  /\ proc[p].pc \in CallPc \cup {"ledger"} =>
       \A j \in DOMAIN proc[p].run.calls : j < proc[p].i => proc[p].run.calls[j] \in proc[p].ledger
  /\ proc[p].pc = "ledger2" =>
       /\ \A j \in DOMAIN proc[p].run.calls : IsListed(proc[p].run.calls[j], proc[p].ledger)
       /\ proc[p].base <= task.revision
       /\ proc[p].base = task.revision => \A c \in task.ledger : IsListed(c, proc[p].ledger)
  /\ proc[p].pc = "compacting" =>
       /\ proc[p].base <= task.revision
       /\ proc[p].base = task.revision => \A c \in task.ledger : IsListed(c, proc[p].ledger)
  /\ proc[p].pc = "tools" => Accounted(proc[p].run)

LedgerInv ==
  /\ saved.node \in {"project-progress", "build-context", "invoke-model"} => Accounted(saved)
  /\ \A p \in Process : LedgerOf(p)

\* The calls a process has executed for the proposal it is at.
Executed(p) ==
  {proc[p].run.calls[j] : j \in {k \in DOMAIN proc[p].run.calls :
     k < proc[p].i \/ (k = proc[p].i /\ proc[p].pc \in {"save", "commit"})}}

\* What was executed is behind the saved state, or done by the process that has the lease.
IsPast(c) ==
  \/ c.step < saved.steps
  \/ c.step = saved.steps /\ saved.node \notin {"evaluate", "commit-tools"}
  \/ saved.outcome # "none"

RanInv ==
  \A c \in Call \ disturbed : ran[c] # 0 =>
    ran[c] = 1 /\ (IsPast(c) \/ \E p \in Process : lease = p /\ proc[p].pc \in ToolPc /\ c \in Executed(p))

\* The revision of the saved state and of the process that has the lease is the active one.
RevisionInv ==
  /\ saved.node \notin {"prepare-turn", "restore-task"} => task.revision > 0
  /\ Revision \notin disturbed =>
       /\ saved.node = "project-progress" =>
            saved.revision = task.revision \/ \E p \in Process : lease = p /\ proc[p].pc = "progressed"
       /\ \A p \in Process : lease = p =>
            /\ proc[p].pc \in {"compacting", "ledger2", "progress"} => proc[p].base = task.revision
            /\ proc[p].pc \in {"tools", "progressed"} => task.revision = proc[p].base + 1

KernelInv ==
  /\ TypeInv /\ PhaseInv /\ LeaseInv /\ OrderInv /\ ResultInv /\ EffectInv
  /\ AnswersMatchUnlessIdReused /\ LedgerInv /\ RanInv /\ RevisionInv
-----------------------------------------------------------------------------
CallsOf(ids, n) == [id : ids, step : {n}]

ProposalOf(ids, n, calls) ==
  /\ calls \in Seq(Call)
  /\ \A j, k \in DOMAIN calls : calls[j].id = calls[k].id => j = k
  /\ \A j \in DOMAIN calls : calls[j].step = n
  /\ calls = <<>> <=> ids = {}

\* The calls of a proposal: different ids, one step, and none only without ids.
LEMMA Proposed ==
  ASSUME NEW ids \in SUBSET Id, NEW n \in 1 .. MaxSteps
  PROVE  ProposalOf(ids, n, SetToSeq(CallsOf(ids, n)))
<1> SUFFICES ASSUME NEW calls, calls = SetToSeq(CallsOf(ids, n))
             PROVE  ProposalOf(ids, n, calls)
  OBVIOUS
<1> DEFINE S == CallsOf(ids, n)
           f == [k \in ids |-> [id |-> k, step |-> n]]
<1>1. IsFiniteSet(ids)
  BY KernelAssumption, FS_Subset
<1>2. f \in [ids -> S] /\ IsInjective(f) /\ \A t \in S : \E k \in ids : f[k] = t
  BY DEF IsInjective, CallsOf
<1>3. ExistsBijection(ids, S)
  BY <1>2 DEF ExistsBijection, Bijection, Injection, Surjection
<1>4. IsFiniteSet(S) /\ Cardinality(S) = Cardinality(ids)
  BY <1>1, <1>3, FS_Bijection
<1>5. Cardinality(S) \in Nat /\ \E g \in [1 .. Cardinality(S) -> S] : IsInjective(g)
  BY <1>4, FS_CardinalityType DEF ExistsBijection, Bijection, Injection
<1>6. calls \in [1 .. Cardinality(S) -> S] /\ IsInjective(calls)
  BY <1>5 DEF SetToSeq
<1>7. \A t \in S : t.id \in ids /\ t.step = n /\ t = [id |-> t.id, step |-> n] /\ t \in Call
  BY DEF Call, CallsOf
<1> HIDE DEF S, f
<1>8. calls \in Seq(Call) /\ Len(calls) = Cardinality(S) /\ DOMAIN calls = 1 .. Len(calls)
  <2>1. S \subseteq Call
    BY <1>7
  <2>2. calls \in [1 .. Cardinality(S) -> Call]
    BY <1>6, <2>1
  <2>3. PICK N \in Nat : N = Cardinality(S)
    BY <1>5
  <2>4. calls \in Seq(Call)
    BY <2>2, <2>3, SeqDef
  <2>5. DOMAIN calls = 1 .. N
    BY <2>2, <2>3
  <2> QED
    BY <2>3, <2>4, <2>5
<1>9. \A j, k \in DOMAIN calls : calls[j].id = calls[k].id => j = k
  <2> SUFFICES ASSUME NEW j \in DOMAIN calls, NEW k \in DOMAIN calls, calls[j].id = calls[k].id
               PROVE  j = k
    OBVIOUS
  <2>1. calls[j] \in S /\ calls[k] \in S
    BY <1>6
  <2>2. calls[j] = calls[k]
    BY <1>7, <2>1
  <2> QED
    BY <1>6, <2>2 DEF IsInjective
<1>10. calls = <<>> <=> Cardinality(S) = 0
  BY <1>8, EmptySeq
<1>11. Cardinality(S) = 0 <=> ids = {}
  BY <1>1, <1>4, FS_EmptySet
<1> QED
  BY <1>6, <1>7, <1>8, <1>9, <1>10, <1>11 DEF ProposalOf

-----------------------------------------------------------------------------
(***************************************************************************)
(* The kinds of steps: a node completes, a process finds its lease gone,   *)
(* or it works within a node.                                              *)
(***************************************************************************)
\* What the run state of p becomes when its node completes.
Follows(p, s) ==
  LET r == proc[p].run IN
  /\ s \in RunRecord /\ RunShape(s) /\ Before(r, s)
  /\ proc[p].pc # "stopped"
  /\ \A k \in s.committed \ r.committed : proc[p].pc = "tools" /\ k \in proc[p].effects
  /\ \/ s.calls = <<>>
     \/ s.calls = r.calls /\ (proc[p].pc = "tools" \/ r.node \in {"project-progress", "build-context", "invoke-model"})
     \/ s.node \notin {"project-progress", "build-context", "invoke-model"}
  /\ \/ r.steps < s.steps \/ s.outcome # "none" \/ r.node \in {"evaluate", "commit-tools"}
     \/ s.node \notin {"evaluate", "commit-tools"}
  /\ proc[p].pc \in ToolPc => s.outcome # "none" \/ (s.node = "project-progress" /\ s.steps = r.steps)
  /\ s.node = "project-progress" =>
       \/ r.node = "project-progress" /\ s.revision = r.revision /\ proc[p].pc # "progressed"
       \/ proc[p].pc \in {"tools", "progressed"} /\ s.revision = proc[p].base + 1

\* restore-task makes the first revision.
Restores(p, s) ==
  /\ \/ task' = task
     \/ proc[p].run.node = "restore-task" /\ task.revision = 0 /\ task' = [task EXCEPT !.revision = 1]
  /\ s.node \notin {"prepare-turn", "restore-task"} =>
       proc[p].run.node \notin {"prepare-turn", "restore-task"} \/ task'.revision > 0

Completes(p, s) ==
  /\ Completed(p, s) /\ Follows(p, s) /\ Restores(p, s)
  /\ UNCHANGED <<results, answers, faults, history>>

Leaves(p) == lease # p /\ Stop(p) /\ UNCHANGED <<saved, lease, stores, faults, history>>

\* A process that works within its node keeps the run state.
Prepares(p) ==
  \/ BeginTools(p) \/ Replay(p) \/ (RecordPrepared(p) /\ lease = p) \/ Execute(p) \/ Refused(p)
  \/ SaveResult(p) \/ (RecordCommitted(p) /\ lease = p) \/ PrepareLedger(p)

Commits(p) ==
  \/ CommitLedger(p) /\ RevisionIsActive(p)
  \/ ProjectProgress(p) /\ task.revision = Run(p).revision /\ UNCHANGED <<saved, lease>>
     /\ proc' = [proc EXCEPT ![p].pc = "progress", ![p].base = task.revision]
  \/ CommitProgress(p) /\ RevisionIsActive(p)

Compacts(p) == BeginCompaction(p) \/ (CommitCompaction(p) /\ RevisionIsActive(p))
-----------------------------------------------------------------------------
\* A state is before one that has its effects and as many steps or more.
LEMMA MoreIsBefore ==
  ASSUME NEW r \in RunRecord, NEW s, s.steps \in {r.steps, r.steps + 1}, s.committed = r.committed
  PROVE  Before(r, s)
<1>1. r.steps \in Int
  BY KernelAssumption DEF RunRecord
<1> QED
  BY <1>1 DEF Before

\* The end of a run, wherever it comes.
LEMMA Ends ==
  ASSUME TypeInv, PhaseInv, NEW p \in Process, NEW outcome \in {"completed", "stopped"},
         proc[p].pc \notin {"stopped", "progressed"}
  PROVE  Follows(p, [Run(p) EXCEPT !.outcome = outcome])
<1> DEFINE r == proc[p].run
           s == [r EXCEPT !.outcome = outcome]
<1>1. r \in RunRecord /\ RunShape(r)
  BY DEF TypeInv, ProcessRecord, PhaseInv, PhaseOf
<1>2. s \in RunRecord
  BY <1>1 DEF RunRecord, Outcome
<1>3. s.outcome # "none" /\ s.node = r.node /\ s.steps = r.steps /\ s.proposal = r.proposal
      /\ s.calls = r.calls /\ s.revision = r.revision /\ s.committed = r.committed
  BY <1>1 DEF RunRecord
<1>4. RunShape(s) /\ Before(r, s)
  <2> HIDE DEF s
  <2>1. Before(r, s)
    BY <1>1, <1>3, MoreIsBefore
  <2>2. RunShape(s)
    BY <1>1, <1>3 DEF RunShape
  <2> QED
    BY <2>1, <2>2
<1> QED
  BY <1>2, <1>3, <1>4 DEF Follows, Run

\* A node that leads on in the graph and leaves the run state alone.
LEMMA Nexts ==
  ASSUME TypeInv, PhaseInv, NEW p \in Process, proc[p].pc \in {"running", "built"},
         NEW node \in Node, [Run(p) EXCEPT !.node = node] \in RunRecord,
         \/ Run(p).node = "prepare-turn" /\ node = "restore-task"
         \/ Run(p).node = "build-context" /\ node = "invoke-model"
         \/ Run(p).node = "project-progress" /\ node = "build-context"
         \/ Run(p).node = "evaluate" /\ Run(p).proposal = "final" /\ node = "commit-assistant"
         \/ Run(p).node = "evaluate" /\ Run(p).proposal = "tools" /\ node = "commit-tools"
  PROVE  Follows(p, [Run(p) EXCEPT !.node = node])
<1> DEFINE r == proc[p].run
           s == [r EXCEPT !.node = node]
<1>1. r \in RunRecord /\ RunShape(r) /\ s \in RunRecord
  BY DEF TypeInv, ProcessRecord, PhaseInv, PhaseOf, Run
<1>2. s.node = node /\ s.outcome = r.outcome /\ s.steps = r.steps /\ s.proposal = r.proposal
      /\ s.calls = r.calls /\ s.revision = r.revision /\ s.committed = r.committed
  BY <1>1 DEF RunRecord
<1>3. RunShape(s) /\ Before(r, s)
  <2> HIDE DEF s
  <2>1. Before(r, s)
    BY <1>1, <1>2, MoreIsBefore
  <2>2. RunShape(s)
    BY <1>1, <1>2 DEF RunShape, Run
  <2> QED
    BY <2>1, <2>2
<1> QED
  BY <1>1, <1>2, <1>3 DEF Follows, Run, ToolPc, CallPc, PhaseInv, PhaseOf, BuildPc

LEMMA NodesComplete ==
  ASSUME TypeInv, PhaseInv, NEW p \in Process,
         PrepareTurn(p) \/ BuildContext(p) \/ CompleteBuild(p) \/ CommitAssistant(p) \/ Capped(p)
  PROVE  \E s : Completes(p, s)
<1> DEFINE r == proc[p].run
<1>1. /\ r \in RunRecord /\ RunShape(r) /\ proc[p].pc \in {"running", "built"}
      /\ CompleteBuild(p) => r.node = "build-context"
      /\ task' = task /\ UNCHANGED <<results, answers, faults, history>>
  BY DEF TypeInv, ProcessRecord, PhaseInv, PhaseOf, BuildPc, PrepareTurn, BuildContext, CompleteBuild,
         CommitAssistant, Capped, At, Doing, stores
<1>2. ASSUME NEW outcome \in {"stopped", "completed"}, End(p, outcome, r)
      PROVE  Completes(p, [r EXCEPT !.outcome = outcome])
  BY <1>1, <1>2, Ends DEF End, Completes, Restores, Run, RunRecord
<1>3. ASSUME NEW node \in Node, Goto(p, "next", r), node = Edge(r.node, "next"),
             \/ r.node = "prepare-turn" /\ node = "restore-task"
             \/ r.node = "build-context" /\ node = "invoke-model"
      PROVE  Completes(p, [r EXCEPT !.node = node])
  <2>1. [r EXCEPT !.node = node] \in RunRecord /\ [r EXCEPT !.node = node].node = node
    BY <1>1 DEF RunRecord
  <2>2. Follows(p, [r EXCEPT !.node = node])
    BY <1>1, <1>3, <2>1, Nexts DEF Run
  <2>3. Restores(p, [r EXCEPT !.node = node])
    BY <1>1, <1>3, <2>1, <2>2 DEF Restores, Follows
  <2> QED
    BY <1>1, <1>3, <2>2, <2>3 DEF Completes, Goto, Run
<1>4. CASE PrepareTurn(p)
  <2>1. r.node = "prepare-turn" /\ (Goto(p, "next", r) \/ End(p, "stopped", r))
    BY <1>4 DEF PrepareTurn, At, Run
  <2> QED
    BY <1>2, <1>3, <2>1 DEF Edge, Node
<1>5. CASE BuildContext(p) \/ CompleteBuild(p)
  <2>1. r.node = "build-context" /\ (Goto(p, "next", r) \/ End(p, "stopped", r))
    BY <1>1, <1>5 DEF BuildContext, CompleteBuild, At, Run
  <2> QED
    BY <1>2, <1>3, <2>1 DEF Edge, Node
<1>6. CASE CommitAssistant(p) \/ Capped(p)
  BY <1>2, <1>6 DEF CommitAssistant, Capped, Run
<1> QED
  BY <1>4, <1>5, <1>6

LEMMA RestoreCompletes ==
  ASSUME TypeInv, PhaseInv, NEW p \in Process, RestoreTask(p)
  PROVE  \E s : Completes(p, s)
<1> DEFINE r == proc[p].run
           s == [r EXCEPT !.revision = task'.revision, !.node = "build-context"]
<1>1. r \in RunRecord /\ RunShape(r) /\ proc[p].pc = "running" /\ r.node = "restore-task"
  BY DEF TypeInv, ProcessRecord, PhaseInv, PhaseOf, RestoreTask, At
<1>2. task \in [revision : Nat, ledger : SUBSET Call] /\ task'.revision \in Nat /\ task'.revision > 0
      /\ (task' = task \/ (task.revision = 0 /\ task' = [task EXCEPT !.revision = 1]))
  BY DEF TypeInv, RestoreTask
<1>3. s \in RunRecord /\ s.node = "build-context" /\ s.outcome = r.outcome /\ s.steps = r.steps
      /\ s.proposal = r.proposal /\ s.calls = r.calls /\ s.committed = r.committed
  BY <1>1, <1>2 DEF RunRecord, Node
<1>4. r.calls = <<>>
  BY <1>1 DEF RunShape
<1>5. RunShape(s) /\ Before(r, s)
  <2> HIDE DEF s
  <2>1. Before(r, s)
    BY <1>1, <1>3, MoreIsBefore
  <2>2. RunShape(s)
    BY <1>1, <1>3 DEF RunShape
  <2> QED
    BY <2>1, <2>2
<1>6. Follows(p, s) /\ Restores(p, s)
  BY <1>1, <1>2, <1>3, <1>4, <1>5 DEF Follows, Restores, ToolPc, CallPc
<1>7. Completed(p, s)
  BY <1>1 DEF RestoreTask, Goto, Run, Edge, RunRecord
<1> QED
  BY <1>6, <1>7 DEF Completes, RestoreTask

LEMMA InvokeCompletes ==
  ASSUME TypeInv, PhaseInv, NEW p \in Process, InvokeModel(p)
  PROVE  \E s : Completes(p, s)
<1> DEFINE r == proc[p].run
<1>1. r \in RunRecord /\ RunShape(r) /\ proc[p].pc = "running" /\ r.node = "invoke-model" /\ r.steps < MaxSteps
  BY DEF TypeInv, ProcessRecord, PhaseInv, PhaseOf, InvokeModel, At, StepsLeft
<1>2. task' = task /\ UNCHANGED <<results, answers, faults, history>>
  BY DEF InvokeModel, stores
<1>3. ASSUME NEW class \in ProposalClass \ {"none"},
             NEW ids \in SUBSET Id, class = "tools" <=> ids # {},
             Goto(p, "next", [r EXCEPT !.proposal = class, !.calls = SetToSeq([id : ids, step : {r.steps + 1}])])
      PROVE  \E s : Completes(p, s)
  <2> DEFINE calls == SetToSeq([id : ids, step : {r.steps + 1}])
             s == [r EXCEPT !.proposal = class, !.calls = calls, !.node = "account-model"]
  <2>1. ids \in SUBSET Id /\ r.steps + 1 \in 1 .. MaxSteps /\ (class = "tools" <=> ids # {})
    <3>1. r.steps \in 0 .. MaxSteps
      BY <1>1 DEF RunRecord
    <3>2. r.steps + 1 \in 1 .. MaxSteps
      BY <1>1, <3>1, KernelAssumption
    <3> QED
      BY <1>3, <3>2
  <2>2. /\ calls \in Seq(Call)
        /\ \A j, k \in DOMAIN calls : calls[j].id = calls[k].id => j = k
        /\ \A j \in DOMAIN calls : calls[j].step = r.steps + 1
        /\ calls = <<>> <=> ids = {}
    BY <2>1, Proposed DEF CallsOf, ProposalOf
  <2>3. Completed(p, s)
    BY <1>1, <1>3 DEF Goto, Edge, RunRecord
  <2> HIDE DEF calls
  <2>4. s \in RunRecord /\ s.node = "account-model" /\ s.outcome = r.outcome /\ s.steps = r.steps
        /\ s.proposal = class /\ s.calls = calls /\ s.committed = r.committed
    BY <1>1, <2>2 DEF RunRecord, Node, ProposalClass
  <2>5. RunShape(s) /\ Before(r, s)
    <3> HIDE DEF s
    <3>1. Before(r, s)
      BY <1>1, <2>1, <2>2, <2>4, MoreIsBefore
    <3>2. RunShape(s)
      BY <1>1, <2>1, <2>2, <2>4 DEF RunShape
    <3> QED
      BY <3>1, <3>2
  <2>6. Follows(p, s) /\ Restores(p, s)
    BY <1>1, <1>2, <2>4, <2>5 DEF Follows, Restores, ToolPc, CallPc
  <2> QED
    BY <1>2, <2>3, <2>6 DEF Completes
<1>4. ASSUME r.recovery < MaxRecovery, Goto(p, "recover", Recovered(r))
      PROVE  \E s : Completes(p, s)
  <2> DEFINE s == [r EXCEPT !.recovery = @ + 1, !.node = "build-context"]
  <2>1. Completed(p, s)
    BY <1>1, <1>4 DEF Goto, Edge, Recovered, RunRecord
  <2>2. s \in RunRecord /\ s.node = "build-context" /\ s.outcome = r.outcome /\ s.steps = r.steps
        /\ s.proposal = r.proposal /\ s.calls = r.calls /\ s.committed = r.committed
    <3>1. r.recovery \in 0 .. MaxRecovery
      BY <1>1 DEF RunRecord
    <3>2. r.recovery + 1 \in 0 .. MaxRecovery
      BY <1>4, <3>1, KernelAssumption
    <3> QED
      BY <1>1, <1>4, <3>2 DEF RunRecord, Node
  <2>3. RunShape(s) /\ Before(r, s)
    <3> HIDE DEF s
    <3>1. Before(r, s)
      BY <1>1, <2>2, MoreIsBefore
    <3>2. RunShape(s)
      BY <1>1, <2>2 DEF RunShape
    <3> QED
      BY <3>1, <3>2
  <2>4. Follows(p, s) /\ Restores(p, s)
    BY <1>1, <1>2, <2>2, <2>3 DEF Follows, Restores, ToolPc, CallPc
  <2> QED
    BY <1>2, <2>1, <2>4 DEF Completes
<1>5. ASSUME End(p, "stopped", r)
      PROVE  \E s : Completes(p, s)
  BY <1>1, <1>2, <1>5, Ends DEF End, Completes, Restores, Run, RunRecord
<1>6. ASSUME NEW class \in ProposalClass \ {"none"},
             NEW ids \in (IF class = "tools" THEN (SUBSET Id) \ {{}} ELSE {{}})
      PROVE  ids \in SUBSET Id /\ (class = "tools" <=> ids # {})
  <2>1. CASE class = "tools"
    BY <1>6, <2>1
  <2>2. CASE class # "tools"
    BY <1>6, <2>2
  <2> QED
    BY <2>1, <2>2
<1> QED
  BY <1>3, <1>4, <1>5, <1>6 DEF InvokeModel, Run

LEMMA AccountCompletes ==
  ASSUME TypeInv, PhaseInv, NEW p \in Process, AccountModel(p)
  PROVE  \E s : Completes(p, s)
<1> DEFINE r == proc[p].run
           counted == [r EXCEPT !.steps = @ + 1]
<1>1. r \in RunRecord /\ RunShape(r) /\ proc[p].pc = "running" /\ r.node = "account-model" /\ r.steps < MaxSteps
  BY DEF TypeInv, ProcessRecord, PhaseInv, PhaseOf, AccountModel, At, StepsLeft
<1>2. task' = task /\ UNCHANGED <<results, answers, faults, history>>
  BY DEF AccountModel, stores
<1>3. counted \in RunRecord /\ counted.steps = r.steps + 1
  BY SMTT(60), <1>1, KernelAssumption DEF RunRecord
<1>4. ASSUME NEW node \in {"account-model", "evaluate"}, NEW outcome \in Outcome,
             Completed(p, [counted EXCEPT !.node = node, !.outcome = outcome]),
             node = "account-model" => outcome # "none" /\ r.proposal # "tools"
      PROVE  \E s : Completes(p, s)
  <2> DEFINE s == [counted EXCEPT !.node = node, !.outcome = outcome]
  <2>1. s \in RunRecord /\ s.node = node /\ s.outcome = outcome /\ s.steps = r.steps + 1
        /\ s.proposal = r.proposal /\ s.calls = r.calls /\ s.committed = r.committed
    BY <1>1, <1>3 DEF RunRecord, Node
  <2>2. RunShape(s) /\ Before(r, s)
    <3> HIDE DEF s
    <3>1. Before(r, s)
      BY <1>1, <1>4, <2>1, MoreIsBefore
    <3>2. RunShape(s)
      BY SMTT(60), <1>1, <1>4, <2>1 DEF RunShape
    <3> QED
      BY <3>1, <3>2
  <2>3. Follows(p, s) /\ Restores(p, s)
    BY <1>1, <1>2, <2>1, <2>2 DEF Follows, Restores, ToolPc, CallPc, RunRecord
  <2> QED
    BY <1>2, <1>4, <2>3 DEF Completes
<1>5. CASE r.proposal # "refusal" /\ Goto(p, "next", counted)
  <2>1. [counted EXCEPT !.node = "evaluate"] = [counted EXCEPT !.node = "evaluate", !.outcome = r.outcome]
    BY <1>1, <1>3 DEF RunRecord
  <2>2. Completed(p, [counted EXCEPT !.node = "evaluate"])
    BY <1>1, <1>5 DEF Goto, Edge, RunRecord
  <2> QED
    BY <1>1, <1>4, <2>1, <2>2 DEF RunRecord
<1>6. CASE r.proposal \in {"refusal", "recover"} /\ End(p, "stopped", counted)
  <2>1. [counted EXCEPT !.outcome = "stopped"] = [counted EXCEPT !.node = "account-model", !.outcome = "stopped"]
    BY <1>1, <1>3 DEF RunRecord
  <2> QED
    BY <1>4, <1>6, <2>1 DEF End, Outcome
<1> QED
  BY <1>5, <1>6 DEF AccountModel, Run

LEMMA EvaluateCompletes ==
  ASSUME TypeInv, PhaseInv, NEW p \in Process, Evaluate(p)
  PROVE  \E s : Completes(p, s)
<1> DEFINE r == proc[p].run
<1>1. r \in RunRecord /\ RunShape(r) /\ proc[p].pc = "running" /\ r.node = "evaluate"
  BY DEF TypeInv, ProcessRecord, PhaseInv, PhaseOf, Evaluate, At
<1>2. task' = task /\ UNCHANGED <<results, answers, faults, history>>
  BY DEF Evaluate, stores
<1>3. ASSUME NEW node, node \in {"commit-assistant", "commit-tools"}, Completed(p, [r EXCEPT !.node = node]),
             (r.proposal = "final" /\ node = "commit-assistant") \/ (r.proposal = "tools" /\ node = "commit-tools")
      PROVE  \E s : Completes(p, s)
  <2>1. [r EXCEPT !.node = node] \in RunRecord /\ node \in Node
    BY <1>1, <1>3 DEF RunRecord, Node
  <2>2. Follows(p, [r EXCEPT !.node = node])
    BY <1>1, <1>3, <2>1, Nexts DEF Run
  <2> QED
    BY <1>1, <1>2, <1>3, <2>2 DEF Completes, Restores
<1>4. CASE r.proposal \in {"final", "tools"}
  BY <1>1, <1>3, <1>4 DEF Evaluate, Goto, Edge, Run
<1>5. CASE r.proposal \notin {"final", "tools"} /\ r.recovery < MaxRecovery
  <2> DEFINE s == [r EXCEPT !.recovery = @ + 1, !.node = "build-context"]
  <2>1. Completed(p, s)
    BY <1>1, <1>5 DEF Evaluate, Goto, Edge, Recovered, Run, RunRecord
  <2>2. s \in RunRecord /\ s.node = "build-context" /\ s.outcome = r.outcome /\ s.steps = r.steps
        /\ s.proposal = r.proposal /\ s.calls = r.calls /\ s.committed = r.committed /\ r.calls = <<>>
    <3>1. r.recovery \in 0 .. MaxRecovery
      BY <1>1 DEF RunRecord
    <3>2. r.recovery + 1 \in 0 .. MaxRecovery
      BY <1>5, <3>1, KernelAssumption
    <3> QED
      BY <1>1, <1>5, <3>2 DEF RunRecord, Node, RunShape
  <2>3. RunShape(s) /\ Before(r, s)
    <3> HIDE DEF s
    <3>1. Before(r, s)
      BY <1>1, <2>2, MoreIsBefore
    <3>2. RunShape(s)
      BY <1>1, <2>2 DEF RunShape
    <3> QED
      BY <3>1, <3>2
  <2>4. Follows(p, s) /\ Restores(p, s)
    BY <1>1, <1>2, <2>2, <2>3 DEF Follows, Restores, ToolPc, CallPc
  <2> QED
    BY <1>2, <2>1, <2>4 DEF Completes
<1>6. CASE r.proposal \notin {"final", "tools"} /\ ~(r.recovery < MaxRecovery)
  BY <1>1, <1>2, <1>6, Ends DEF Evaluate, End, Completes, Restores, Run, RunRecord
<1> QED
  BY <1>4, <1>5, <1>6

LEMMA ToolsComplete ==
  ASSUME TypeInv, PhaseInv, EffectInv, NEW p \in Process, CompleteTools(p)
  PROVE  \E s : Completes(p, s)
<1> DEFINE r == proc[p].run
           s == [r EXCEPT !.revision = proc[p].base + 1, !.committed = proc[p].effects, !.node = "project-progress"]
<1>1. r \in RunRecord /\ RunShape(r) /\ proc[p].pc = "tools" /\ r.node = "commit-tools"
      /\ proc[p].base \in Nat /\ proc[p].effects \subseteq Id /\ r.committed \subseteq proc[p].effects
  BY DEF TypeInv, ProcessRecord, PhaseInv, PhaseOf, EffectInv, EffectOf, CompleteTools, Doing, ToolPc
<1>2. task' = task /\ UNCHANGED <<results, answers, faults, history>>
  BY DEF CompleteTools, stores
<1>3. s \in RunRecord /\ s.node = "project-progress" /\ s.outcome = r.outcome /\ s.steps = r.steps
      /\ s.proposal = r.proposal /\ s.calls = r.calls /\ s.committed = proc[p].effects
      /\ s.revision = proc[p].base + 1
  <2>1. proc[p].base + 1 \in Nat /\ "project-progress" \in Node
    BY <1>1 DEF Node
  <2> QED
    BY <1>1, <2>1 DEF RunRecord
<1>4. RunShape(s) /\ Before(r, s)
  BY <1>1, <1>3 DEF RunShape, Before, RunRecord
<1>5. Follows(p, s) /\ Restores(p, s)
  BY <1>1, <1>2, <1>3, <1>4 DEF Follows, Restores
<1>6. Completed(p, s)
  BY <1>1 DEF CompleteTools, ToolsDone, Goto, Edge, Run, RunRecord
<1> QED
  BY <1>2, <1>5, <1>6 DEF Completes

LEMMA ProgressCompletes ==
  ASSUME TypeInv, PhaseInv, NEW p \in Process, proc[p].pc \in {"running", "progressed"},
         proc[p].run.node = "project-progress",
         NEW revision \in Nat,
         revision = (IF proc[p].pc = "running" THEN proc[p].run.revision ELSE proc[p].base + 1),
         Progressed(p, [proc[p].run EXCEPT !.revision = revision]),
         task' = task, UNCHANGED <<results, answers, faults, history>>
  PROVE  \E s : Completes(p, s)
<1> DEFINE r == proc[p].run
<1>1. r \in RunRecord /\ RunShape(r) /\ r.node = "project-progress"
  BY DEF TypeInv, ProcessRecord, PhaseInv, PhaseOf
<1>2. ASSUME NEW node \in {"project-progress", "build-context"}, NEW outcome \in Outcome,
             node = "project-progress" => outcome # "none",
             Completed(p, [r EXCEPT !.revision = revision, !.node = node, !.outcome = outcome])
      PROVE  \E s : Completes(p, s)
  <2> DEFINE s == [r EXCEPT !.revision = revision, !.node = node, !.outcome = outcome]
  <2>1. s \in RunRecord /\ s.node = node /\ s.outcome = outcome /\ s.steps = r.steps /\ s.proposal = r.proposal
        /\ s.calls = r.calls /\ s.committed = r.committed /\ s.revision = revision
    BY <1>1 DEF RunRecord, Node
  <2>2. RunShape(s) /\ Before(r, s)
    <3>1. r.steps \in Int
      BY <1>1, KernelAssumption DEF RunRecord
    <3> HIDE DEF s, r
    <3>2. Before(r, s)
      BY <2>1, <3>1 DEF Before
    <3>3. RunShape(s)
      BY <1>1, <1>2, <2>1 DEF RunShape
    <3> QED
      BY <3>2, <3>3
  <2>3. Follows(p, s) /\ Restores(p, s)
    BY <1>1, <1>2, <2>1, <2>2 DEF Follows, Restores, ToolPc, CallPc
  <2> QED
    BY <1>2, <2>3 DEF Completes

<1> DEFINE revised == [r EXCEPT !.revision = revision]
<1>3. revised \in RunRecord /\ revised.node = "project-progress" /\ revised.outcome = r.outcome
  BY <1>1 DEF RunRecord
<1>4. CASE Goto(p, "next", revised)
  <2>1. [revised EXCEPT !.node = "build-context"]
        = [r EXCEPT !.revision = revision, !.node = "build-context", !.outcome = r.outcome]
    BY <1>1 DEF RunRecord
  <2>2. Completed(p, [revised EXCEPT !.node = "build-context"])
    BY <1>3, <1>4 DEF Goto, Edge
  <2> QED
    BY <1>1, <1>2, <2>1, <2>2 DEF RunRecord
<1>5. CASE End(p, "stopped", revised)
  <2>1. [revised EXCEPT !.outcome = "stopped"]
        = [r EXCEPT !.revision = revision, !.node = "project-progress", !.outcome = "stopped"]
    BY <1>1 DEF RunRecord
  <2> QED
    BY <1>2, <1>5, <2>1 DEF End, Outcome
<1> QED
  BY <1>4, <1>5 DEF Progressed

\* A conflict of revisions is thrown, and ends the run.
LEMMA ThrowCompletes ==
  ASSUME TypeInv, PhaseInv, NEW p \in Process, proc[p].pc \notin {"stopped", "progressed"}, Throws(p),
         task' = task, UNCHANGED <<results, answers, faults, history>>
  PROVE  \E s : Completes(p, s)
<1> DEFINE r == proc[p].run
<1>1. r \in RunRecord
  BY DEF TypeInv, ProcessRecord
<1>2. Follows(p, [r EXCEPT !.outcome = "stopped"])
  BY Ends DEF Run
<1>3. Restores(p, [r EXCEPT !.outcome = "stopped"])
  BY <1>1 DEF Restores, RunRecord
<1> QED
  BY <1>2, <1>3 DEF Throws, End, Completes, Run

LEMMA Kinds ==
  ASSUME TypeInv, PhaseInv, EffectInv, NEW p \in Process, Step(p)
  PROVE  (\E s : Completes(p, s)) \/ Leaves(p) \/ Prepares(p) \/ Commits(p) \/ Compacts(p)
<1>1. CASE PrepareTurn(p) \/ BuildContext(p) \/ CompleteBuild(p) \/ CommitAssistant(p) \/ Capped(p)
  BY <1>1, NodesComplete
<1>2. CASE RestoreTask(p)
  BY <1>2, RestoreCompletes
<1>3. CASE InvokeModel(p)
  BY <1>3, InvokeCompletes
<1>4. CASE AccountModel(p)
  BY <1>4, AccountCompletes
<1>5. CASE Evaluate(p)
  BY <1>5, EvaluateCompletes
<1>6. CASE BeginTools(p) \/ Replay(p) \/ Execute(p) \/ Refused(p) \/ SaveResult(p) \/ PrepareLedger(p)
  BY <1>6 DEF Prepares
<1>7. CASE RecordPrepared(p) \/ RecordCommitted(p)
  BY <1>7 DEF Prepares, Leaves, RecordPrepared, RecordCommitted, stores
<1>8. CASE CommitLedger(p)
  BY <1>8, ThrowCompletes DEF CommitLedger, Commits, Doing
<1>9. CASE CompleteTools(p)
  BY <1>9, ToolsComplete
<1>10. CASE ProjectProgress(p)
  <2>1. proc[p].pc = "running" /\ proc[p].run.node = "project-progress" /\ proc[p].run.revision \in Nat
        /\ proc[p].run \in RunRecord /\ task' = task /\ UNCHANGED <<results, answers, faults, history>>
    BY <1>10 DEF ProjectProgress, At, TypeInv, ProcessRecord, RunRecord, stores
  <2>2. CASE Progressed(p, proc[p].run)
    <3>1. proc[p].run = [proc[p].run EXCEPT !.revision = proc[p].run.revision]
      BY <2>1 DEF RunRecord
    <3> QED
      BY <2>1, <2>2, <3>1, ProgressCompletes
  <2>3. CASE Throws(p)
    BY <2>1, <2>3, ThrowCompletes
  <2> QED
    BY <1>10, <2>2, <2>3 DEF ProjectProgress, Commits, Run
<1>11. CASE CommitProgress(p)
  BY <1>11, ThrowCompletes DEF CommitProgress, Commits, Doing
<1>12. CASE CompleteProgress(p)
  <2>1. proc[p].pc = "progressed" /\ proc[p].run.node = "project-progress" /\ proc[p].base + 1 \in Nat
        /\ task' = task /\ UNCHANGED <<results, answers, faults, history>>
    BY <1>12 DEF CompleteProgress, Doing, TypeInv, ProcessRecord, PhaseInv, PhaseOf, ProgressPc, BuildPc, stores
  <2> QED
    BY <1>12, <2>1, ProgressCompletes DEF CompleteProgress, Run
<1>13. CASE BeginCompaction(p) \/ CommitCompaction(p)
  BY <1>13, ThrowCompletes DEF CommitCompaction, Compacts, Doing
<1> QED
  BY <1>1, <1>2, <1>3, <1>4, <1>5, <1>6, <1>7, <1>8, <1>9, <1>10, <1>11, <1>12, <1>13
     DEF Step, NodeStep, CompactionStep, ToolStep, ProgressStep

-----------------------------------------------------------------------------
\* What a step makes of the state.
Advances(p, s) ==
  /\ lease = p /\ Follows(p, s) /\ Restores(p, s)
  /\ saved' = s /\ lease' = (IF s.outcome = "none" THEN p ELSE "free")
  /\ proc' = [proc EXCEPT ![p] = IF s.outcome = "none" THEN [Stopped EXCEPT !.pc = "running", !.run = s]
                                 ELSE Stopped]
  /\ UNCHANGED <<results, answers, faults, ran, disturbed>>

Halts(p) ==
  /\ proc' = [proc EXCEPT ![p] = Stopped]
  /\ saved' = saved /\ lease' = (IF lease = p THEN "free" ELSE lease)
  /\ \/ task' = task
     \/ proc[p].run.node = "restore-task" /\ task.revision = 0 /\ task' = [task EXCEPT !.revision = 1]
  /\ disturbed \subseteq disturbed'
  /\ lease = p /\ ~Redone(p) => Work(p) \subseteq disturbed'
  /\ faults' \in 0 .. MaxFaults /\ UNCHANGED <<results, answers, ran>>

Works(p) == Prepares(p) \/ Commits(p)

LEMMA FreshShape ==
  /\ Fresh \in RunRecord /\ RunShape(Fresh) /\ Fresh.steps = 0 /\ Fresh.committed = {}
  /\ Fresh.calls = <<>> /\ Fresh.node = "prepare-turn" /\ Fresh.outcome = "none"
  /\ Stopped \in ProcessRecord /\ Stopped.pc = "stopped" /\ Stopped.run = Fresh /\ Stopped.effects = {}
  /\ \A s \in RunRecord :
       LET q == [Stopped EXCEPT !.pc = "running", !.run = s]
       IN q \in ProcessRecord /\ q.pc = "running" /\ q.run = s /\ q.effects = {}
<1>1. Fresh \in RunRecord
  BY KernelAssumption DEF Fresh, RunRecord, Node, ProposalClass, Outcome
<1>2. RunShape(Fresh)
  BY DEF RunShape, Fresh
<1>3. Stopped \in ProcessRecord
  BY <1>1 DEF Stopped, ProcessRecord
<1> QED
  BY <1>1, <1>2, <1>3 DEF Fresh, Stopped, ProcessRecord

LEMMA StepKinds ==
  ASSUME TypeInv, PhaseInv, EffectInv, NEW p \in Process, Start(p) \/ Step(p) \/ Crash(p) \/ LeaseLapses(p)
  PROVE  \/ Start(p) \/ LeaseLapses(p) \/ Halts(p) \/ Works(p) \/ Compacts(p)
         \/ \E s : Advances(p, s)
<1>1. CASE Crash(p)
  <2>1. faults' \in 0 .. MaxFaults
    BY <1>1, KernelAssumption DEF Crash, TypeInv
  <2> QED
    BY <1>1, <2>1 DEF Crash, Halts, Stop, stores
<1>2. CASE Step(p)
  <2>1. CASE \E s : Completes(p, s)
    <3>1. PICK s : Completes(p, s)
      BY <2>1
    <3>2. CASE lease = p
      <4>1. p # "free"
        BY KernelAssumption
      <4> QED
        BY <3>1, <3>2, <4>1 DEF Completes, Completed, CompletedUnfenced, Advances, history
    <3>3. CASE lease # p
      BY <3>1, <3>3 DEF Completes, Completed, Stop, Restores, Halts, TypeInv, history
    <3> QED
      BY <3>2, <3>3
  <2>2. CASE Leaves(p)
    BY <2>2 DEF Leaves, Halts, Stop, TypeInv, stores, history
  <2> QED
    BY <1>2, <2>1, <2>2, Kinds DEF Works
<1> QED
  BY <1>1, <1>2

-----------------------------------------------------------------------------
(***************************************************************************)
(* A node completes under the lease.                                       *)
(***************************************************************************)
\* What a process has committed concerns only what it is at, and the results.
LEMMA EffectStays ==
  ASSUME NEW q \in Process, EffectOf(q), proc'[q] = proc[q], results' = results
  PROVE  EffectOf(q)'
  BY DEF EffectOf, Key, ThisCall, Run

LEMMA AdvancesKeep ==
  ASSUME KernelInv, NEW p \in Process, NEW s, Advances(p, s)
  PROVE  KernelInv'
<1> DEFINE r == proc[p].run
<1>1. /\ lease = p /\ p # "free" /\ r = saved /\ r \in RunRecord /\ saved.outcome = "none" /\ proc[p].pc # "stopped"
      /\ s \in RunRecord /\ RunShape(s) /\ Before(r, s) /\ saved' = s
      /\ UNCHANGED <<results, answers, faults, ran, disturbed>>
  BY KernelAssumption DEF KernelInv, LeaseInv, TypeInv, Advances, Follows
<1>2. /\ proc' \in [Process -> ProcessRecord] /\ \A q \in Process : q # p => proc'[q] = proc[q]
      /\ s.outcome = "none" => lease' = p /\ proc'[p].pc = "running" /\ proc'[p].run = s
      /\ s.outcome # "none" => lease' = "free" /\ proc'[p] = Stopped
      /\ proc'[p].effects = {} /\ proc'[p].pc \in {"stopped", "running"}
  BY <1>1, FreshShape DEF KernelInv, TypeInv, Advances
<1>3. /\ task \in [revision : Nat, ledger : SUBSET Call] /\ task' \in [revision : Nat, ledger : SUBSET Call]
      /\ task'.ledger = task.ledger
      /\ task' = task \/ (r.node = "restore-task" /\ task.revision = 0 /\ task'.revision = 1)
  BY <1>1 DEF KernelInv, TypeInv, Advances, Restores
<1>4. TypeInv'
  BY <1>1, <1>2, <1>3 DEF KernelInv, TypeInv
<1>5. PhaseInv'
  <2>1. ASSUME NEW q \in Process
        PROVE  PhaseOf(q)'
    <3>1. CASE q = p
      BY <1>1, <1>2, <3>1, FreshShape DEF PhaseOf, ToolPc, CallPc, ProgressPc, BuildPc
    <3>2. CASE q # p
      BY <1>2, <3>2 DEF KernelInv, PhaseInv, PhaseOf
    <3> QED
      BY <3>1, <3>2
  <2> QED
    BY <1>1, <2>1 DEF PhaseInv
<1>6. LeaseInv'
  <2> SUFFICES ASSUME NEW q \in Process
               PROVE  IF lease' = q THEN proc'[q].pc # "stopped" /\ proc'[q].run = saved' /\ saved'.outcome = "none"
                      ELSE proc'[q].pc # "stopped" => Work(q)' \subseteq disturbed'
    BY DEF LeaseInv
  <2>1. CASE q = p
    BY <1>1, <1>2, <2>1, FreshShape
  <2>2. CASE q # p
    <3>1. lease # q /\ lease' # q /\ Work(q)' = Work(q)
      <4>1. proc'[q] = proc[q]
        BY <1>2, <2>2
      <4>2. Work(q)' = Work(q)
        BY <4>1 DEF Work, Run
      <4>3. lease # q /\ lease' # q
        BY <1>1, <1>2, <2>2, KernelAssumption
      <4> QED
        BY <4>2, <4>3
    <3> QED
      BY <1>1, <1>2, <2>2, <3>1 DEF KernelInv, LeaseInv
  <2> QED
    BY <2>1, <2>2
<1>7. OrderInv'
  <2>1. \A q \in Process : proc[q].run \in RunRecord /\ proc'[q].run \in RunRecord
    BY <1>2 DEF KernelInv, TypeInv, ProcessRecord
  <2>2. \A q \in Process : q # p => Before(proc'[q].run, s)
    BY SMTT(60), <1>1, <1>2, <2>1 DEF KernelInv, OrderInv, Before, RunRecord
  <2>3. proc'[p].run = s \/ proc'[p].run = Fresh
    BY <1>2, FreshShape
  <2>4. ASSUME NEW t \in RunRecord
        PROVE  Before(t, t) /\ Before(Fresh, t)
    <3>1. t.steps \in 0 .. MaxSteps
      BY DEF RunRecord
    <3>2. t.steps \in Int /\ 0 <= t.steps /\ t.steps <= t.steps
      BY <3>1, KernelAssumption
    <3>3. Fresh.steps = 0 /\ Fresh.committed = {}
      BY FreshShape
    <3> QED
      BY <3>2, <3>3 DEF Before
  <2> QED
    BY <1>1, <1>2, <2>1, <2>2, <2>3, <2>4 DEF KernelInv, OrderInv
<1>8. ResultInv'
  <2>1. \A k \in Id : results[k] # NoResult => results[k].step <= s.steps /\ results[k] \in Call
    BY <1>1 DEF KernelInv, TypeInv, ResultInv, Before, RunRecord, Call
  <2>2. \A k \in s.committed : results[k] # NoResult
    BY <1>1 DEF KernelInv, ResultInv, Advances, Follows, RunRecord
  <2>3. proc'[p].run = s \/ proc'[p].run.committed = {}
    BY <1>2, FreshShape
  <2> QED
    BY <1>1, <1>2, <2>1, <2>2, <2>3 DEF KernelInv, ResultInv
<1>9. EffectInv'
  <2>1. ASSUME NEW q \in Process
        PROVE  EffectOf(q)'
    <3>1. CASE q = p
      BY <1>2, <3>1 DEF EffectOf, ToolPc, CallPc
    <3>2. CASE q # p
      <4>1. EffectOf(q) /\ proc'[q] = proc[q] /\ results' = results
        BY <1>1, <1>2, <3>2 DEF KernelInv, EffectInv
      <4> QED
        BY <4>1, EffectStays
    <3> QED
      BY <3>1, <3>2
  <2> QED
    BY <2>1 DEF EffectInv
<1>10. AnswersMatchUnlessIdReused'
  BY <1>1 DEF KernelInv, AnswersMatchUnlessIdReused

<1>11. LedgerInv'
  <2>1. s.node \in {"project-progress", "build-context", "invoke-model"} => Accounted(saved)'
    <3>1. CASE s.calls = <<>>
      BY <1>1, <3>1 DEF Accounted
    <3>2. CASE s.calls = r.calls /\ (proc[p].pc = "tools" \/ r.node \in {"project-progress", "build-context", "invoke-model"})
      <4>1. Accounted(saved)
        BY <1>1, <3>2 DEF KernelInv, LedgerInv, LedgerOf, Accounted
      <4> QED
        BY <1>1, <1>3, <3>2, <4>1 DEF Accounted, IsAnswered, IsListed
    <3> QED
      BY <3>1, <3>2 DEF Advances, Follows
  <2>2. ASSUME NEW q \in Process
        PROVE  LedgerOf(q)'
    <3>1. CASE q = p
      BY <1>2, <3>1 DEF LedgerOf, ToolPc, CallPc
    <3>2. CASE q # p
      <4>1. LedgerOf(q) /\ proc'[q] = proc[q] /\ proc[q].base \in Nat /\ answers' = answers
        BY <1>1, <1>2, <3>2 DEF KernelInv, LedgerInv, TypeInv, ProcessRecord
      <4>2. Accounted(proc[q].run) => Accounted(proc[q].run)'
        BY <1>3, <4>1 DEF Accounted, IsAnswered, IsListed
      <4> QED
        BY <1>3, <4>1, <4>2 DEF LedgerOf, IsAnswered, IsListed
    <3> QED
      BY <3>1, <3>2
  <2> QED
    BY <1>1, <2>1, <2>2 DEF LedgerInv
<1>12. RanInv'
  <2> SUFFICES ASSUME NEW c \in Call \ disturbed, ran[c] # 0
               PROVE  ran[c] = 1 /\ IsPast(c)'
    BY <1>1 DEF RanInv
  <2>1. ran[c] = 1 /\ (IsPast(c) \/ (proc[p].pc \in ToolPc /\ c \in Executed(p)))
    BY <1>1 DEF KernelInv, RanInv
  <2>2. CASE IsPast(c)
    BY <1>1, <2>1, <2>2 DEF IsPast, Before, RunRecord, Call, Advances, Follows
  <2>3. CASE proc[p].pc \in ToolPc /\ c \in Executed(p)
    <3>1. c.step = r.steps
      BY <2>3 DEF Executed, KernelInv, PhaseInv, PhaseOf, RunShape
    <3>2. s.outcome # "none" \/ (s.node = "project-progress" /\ s.steps = r.steps)
      BY <2>3 DEF Advances, Follows
    <3> QED
      BY <1>1, <2>1, <3>1, <3>2 DEF IsPast
  <2> QED
    BY <2>1, <2>2, <2>3
<1>13. RevisionInv'
  <2>1. s.node \notin {"prepare-turn", "restore-task"} => task'.revision > 0
    BY <1>1, <1>3 DEF KernelInv, RevisionInv, Advances, Restores
  <2>2. s.node = "project-progress" => task' = task
    <3>1. s.node = "project-progress" => r.node # "restore-task"
      BY DEF Advances, Follows, KernelInv, PhaseInv, PhaseOf, ToolPc, ProgressPc, BuildPc
    <3> QED
      BY <1>3, <3>1
  <2>3. Revision \notin disturbed /\ s.node = "project-progress" => s.revision = task.revision
    BY <1>1 DEF Advances, Follows, KernelInv, RevisionInv
  <2>4. \A q \in Process : lease' = q => proc'[q].pc = "running"
    BY <1>1, <1>2, KernelAssumption
  <2> QED
    BY <1>1, <2>1, <2>2, <2>3, <2>4 DEF RevisionInv
<1> QED
  BY <1>4, <1>5, <1>6, <1>7, <1>8, <1>9, <1>10, <1>11, <1>12, <1>13 DEF KernelInv

-----------------------------------------------------------------------------
(***************************************************************************)
(* A process stops, starts, or loses its lease.                            *)
(***************************************************************************)
LEMMA HaltsKeep ==
  ASSUME KernelInv, NEW p \in Process, Halts(p)
  PROVE  KernelInv'
<1>1. /\ p # "free" /\ saved' = saved /\ lease' = (IF lease = p THEN "free" ELSE lease)
      /\ UNCHANGED <<results, answers, ran>> /\ disturbed \subseteq disturbed'
      /\ proc' \in [Process -> ProcessRecord] /\ \A q \in Process : q # p => proc'[q] = proc[q]
      /\ proc'[p] = Stopped
  BY KernelAssumption, FreshShape DEF KernelInv, TypeInv, Halts
<1>2. /\ task \in [revision : Nat, ledger : SUBSET Call] /\ task' \in [revision : Nat, ledger : SUBSET Call]
      /\ task'.ledger = task.ledger
      /\ task' = task \/ (task.revision = 0 /\ task'.revision = 1)
  BY DEF KernelInv, TypeInv, Halts
<1>3. TypeInv'
  BY <1>1, <1>2 DEF KernelInv, TypeInv, Halts
<1>4. PhaseInv'
  <2>1. PhaseOf(p)'
    BY <1>1, FreshShape DEF PhaseOf, ToolPc, CallPc, ProgressPc, BuildPc
  <2>2. ASSUME NEW q \in Process, q # p
        PROVE  PhaseOf(q)'
    BY <1>1, <2>2 DEF KernelInv, PhaseInv, PhaseOf
  <2> QED
    BY <1>1, <2>1, <2>2 DEF KernelInv, PhaseInv
<1>5. LeaseInv'
  <2> SUFFICES ASSUME NEW q \in Process
               PROVE  IF lease' = q THEN proc'[q].pc # "stopped" /\ proc'[q].run = saved' /\ saved'.outcome = "none"
                      ELSE proc'[q].pc # "stopped" => Work(q)' \subseteq disturbed'
    BY DEF LeaseInv
  <2>1. CASE q = p
    BY <1>1, <2>1, FreshShape
  <2>2. CASE q # p
    <3>1. (lease' = q <=> lease = q) /\ Work(q)' = Work(q)
      BY <1>1, <2>2, KernelAssumption DEF Work, Run
    <3> QED
      BY <1>1, <2>2, <3>1 DEF KernelInv, LeaseInv
  <2> QED
    BY <2>1, <2>2
<1>6. OrderInv'
  <2>1. ASSUME NEW t \in RunRecord
        PROVE  Before(Fresh, t)
    <3>1. t.steps \in 0 .. MaxSteps
      BY DEF RunRecord
    <3>2. t.steps \in Int /\ 0 <= t.steps
      BY <3>1, KernelAssumption
    <3>3. Fresh.steps = 0 /\ Fresh.committed = {}
      BY FreshShape
    <3> QED
      BY <3>2, <3>3 DEF Before
  <2>2. saved \in RunRecord /\ \A q \in Process : proc[q].run \in RunRecord /\ proc'[q].run \in RunRecord
    BY <1>1 DEF KernelInv, TypeInv, ProcessRecord
  <2>3. proc'[p].run = Fresh
    BY <1>1, FreshShape
  <2> QED
    BY <1>1, <2>1, <2>2, <2>3 DEF KernelInv, OrderInv
<1>7. ResultInv'
  <2>1. proc'[p].run.committed = {} /\ proc'[p].effects = {}
    BY <1>1, FreshShape
  <2> QED
    BY <1>1, <2>1 DEF KernelInv, ResultInv
<1>8. EffectInv'
  <2>1. EffectOf(p)'
    BY <1>1, FreshShape DEF EffectOf, ToolPc, CallPc
  <2>2. ASSUME NEW q \in Process, q # p
        PROVE  EffectOf(q)'
    <3>1. EffectOf(q) /\ proc'[q] = proc[q] /\ results' = results
      BY <1>1, <2>2 DEF KernelInv, EffectInv
    <3> QED
      BY <3>1, EffectStays
  <2> QED
    BY <2>1, <2>2 DEF EffectInv
<1>9. AnswersMatchUnlessIdReused'
  BY <1>1 DEF KernelInv, AnswersMatchUnlessIdReused
<1>10. LedgerInv'
  <2>1. Accounted(saved) => Accounted(saved)'
    BY <1>1, <1>2 DEF Accounted, IsAnswered, IsListed
  <2>2. LedgerOf(p)'
    BY <1>1, FreshShape DEF LedgerOf, ToolPc, CallPc
  <2>3. ASSUME NEW q \in Process, q # p
        PROVE  LedgerOf(q)'
    <3>1. LedgerOf(q) /\ proc'[q] = proc[q] /\ proc[q].base \in Nat /\ answers' = answers
      BY <1>1, <2>3 DEF KernelInv, LedgerInv, TypeInv, ProcessRecord
    <3>2. Accounted(proc[q].run) => Accounted(proc[q].run)'
      BY <1>2, <3>1 DEF Accounted, IsAnswered, IsListed
    <3> QED
      BY <1>2, <3>1, <3>2 DEF LedgerOf, IsAnswered, IsListed
  <2> QED
    BY <1>1, <2>1, <2>2, <2>3 DEF KernelInv, LedgerInv
<1>11. RanInv'
  <2> SUFFICES ASSUME NEW c \in Call \ disturbed', ran[c] # 0
               PROVE  ran[c] = 1 /\ (IsPast(c)' \/ \E q \in Process : lease' = q /\ proc'[q].pc \in ToolPc /\ c \in Executed(q)')
    BY <1>1 DEF RanInv
  <2>1. ran[c] = 1 /\ (IsPast(c) \/ \E q \in Process : lease = q /\ proc[q].pc \in ToolPc /\ c \in Executed(q))
    BY <1>1 DEF KernelInv, RanInv
  <2>2. CASE IsPast(c)
    BY <1>1, <2>1, <2>2 DEF IsPast
  <2>3. ASSUME NEW q \in Process, lease = q, proc[q].pc \in ToolPc, c \in Executed(q)
        PROVE  \E t \in Process : lease' = t /\ proc'[t].pc \in ToolPc /\ c \in Executed(t)'
    <3>1. q # p
      BY <1>1, <2>3 DEF Halts, Redone, Work, Run, Executed, KernelInv, PhaseInv, PhaseOf, ToolPc, CallPc
    <3>2. lease' = q /\ proc'[q] = proc[q]
      BY <1>1, <2>3, <3>1
    <3> QED
      BY <2>3, <3>2 DEF Executed
  <2> QED
    BY <2>1, <2>2, <2>3
<1>12. RevisionInv'
  <2>1. saved.node \notin {"prepare-turn", "restore-task"} => task.revision > 0 /\ task' = task
    BY <1>2 DEF KernelInv, RevisionInv
  <2>2. ASSUME Revision \notin disturbed', saved.node = "project-progress", saved.revision # task'.revision
        PROVE  \E q \in Process : lease' = q /\ proc'[q].pc = "progressed"
    <3>1. PICK q \in Process : lease = q /\ proc[q].pc = "progressed"
      BY <1>1, <2>1, <2>2 DEF KernelInv, RevisionInv
    <3>2. q # p
      BY <1>1, <2>2, <3>1 DEF Halts, Redone, Work, Run, KernelInv, PhaseInv, PhaseOf, ProgressPc
    <3> QED
      BY <1>1, <3>1, <3>2
  <2>3. ASSUME Revision \notin disturbed', NEW q \in Process, lease' = q
        PROVE  /\ proc'[q].pc \in {"compacting", "ledger2", "progress"} => proc'[q].base = task'.revision
               /\ proc'[q].pc \in {"tools", "progressed"} => task'.revision = proc'[q].base + 1
    <3>1. lease = q /\ q # p /\ proc'[q] = proc[q] /\ proc[q].run = saved
      BY <1>1, <2>3, KernelAssumption DEF KernelInv, LeaseInv
    <3>2. proc[q].pc \in {"compacting", "ledger2", "progress", "tools", "progressed"} => task' = task
      BY <2>1, <3>1 DEF KernelInv, PhaseInv, PhaseOf, ToolPc, CallPc, ProgressPc, BuildPc
    <3> QED
      BY <1>1, <2>3, <3>1, <3>2 DEF KernelInv, RevisionInv
  <2> QED
    BY <1>1, <2>1, <2>2, <2>3 DEF RevisionInv
<1> QED
  BY <1>3, <1>4, <1>5, <1>6, <1>7, <1>8, <1>9, <1>10, <1>11, <1>12 DEF KernelInv

LEMMA StartKeeps ==
  ASSUME KernelInv, NEW p \in Process, Start(p)
  PROVE  KernelInv'
<1>1. /\ p # "free" /\ lease = "free" /\ lease' = p /\ saved.outcome = "none"
      /\ UNCHANGED <<saved, task, results, answers, faults, ran, disturbed>>
      /\ proc' \in [Process -> ProcessRecord] /\ \A q \in Process : q # p => proc'[q] = proc[q]
      /\ proc'[p].pc = "running" /\ proc'[p].run = saved /\ proc'[p].effects = {}
      /\ saved \in RunRecord /\ \A q \in Process : lease # q
  BY KernelAssumption, FreshShape DEF KernelInv, TypeInv, Start, MayStart, stores, history
<1>2. TypeInv'
  BY <1>1 DEF KernelInv, TypeInv
<1>3. PhaseInv'
  <2>1. PhaseOf(p)'
    BY <1>1 DEF KernelInv, PhaseInv, PhaseOf, ToolPc, CallPc, ProgressPc, BuildPc
  <2>2. ASSUME NEW q \in Process, q # p
        PROVE  PhaseOf(q)'
    BY <1>1, <2>2 DEF KernelInv, PhaseInv, PhaseOf
  <2> QED
    BY <1>1, <2>1, <2>2 DEF KernelInv, PhaseInv
<1>4. LeaseInv'
  <2> SUFFICES ASSUME NEW q \in Process
               PROVE  IF lease' = q THEN proc'[q].pc # "stopped" /\ proc'[q].run = saved' /\ saved'.outcome = "none"
                      ELSE proc'[q].pc # "stopped" => Work(q)' \subseteq disturbed'
    BY DEF LeaseInv
  <2>1. CASE q = p
    BY <1>1, <2>1
  <2>2. CASE q # p
    <3>1. Work(q)' = Work(q)
      <4>1. proc'[q] = proc[q]
        BY <1>1, <2>2
      <4> QED
        BY <4>1 DEF Work, Run
    <3> QED
      BY <1>1, <2>2, <3>1 DEF KernelInv, LeaseInv
  <2> QED
    BY <2>1, <2>2
<1>5. OrderInv'
  <2>1. saved.steps <= saved.steps
    <3>1. saved.steps \in 0 .. MaxSteps
      BY <1>1 DEF RunRecord
    <3> QED
      BY <3>1, KernelAssumption
  <2> QED
    BY <1>1, <2>1 DEF KernelInv, OrderInv, Before
<1>6. ResultInv'
  BY <1>1 DEF KernelInv, ResultInv
<1>7. EffectInv'
  <2>1. EffectOf(p)'
    BY <1>1 DEF EffectOf, ToolPc, CallPc
  <2>2. ASSUME NEW q \in Process, q # p
        PROVE  EffectOf(q)'
    <3>1. EffectOf(q) /\ proc'[q] = proc[q] /\ results' = results
      BY <1>1, <2>2 DEF KernelInv, EffectInv
    <3> QED
      BY <3>1, EffectStays
  <2> QED
    BY <2>1, <2>2 DEF EffectInv
<1>8. AnswersMatchUnlessIdReused'
  BY <1>1 DEF KernelInv, AnswersMatchUnlessIdReused
<1>9. LedgerInv'
  <2>1. Accounted(saved) => Accounted(saved)'
    BY <1>1 DEF Accounted, IsAnswered, IsListed
  <2>2. LedgerOf(p)'
    BY <1>1 DEF LedgerOf, ToolPc, CallPc
  <2>3. ASSUME NEW q \in Process, q # p
        PROVE  LedgerOf(q)'
    <3>1. LedgerOf(q) /\ proc'[q] = proc[q]
      BY <1>1, <2>3 DEF KernelInv, LedgerInv
    <3> QED
      BY <1>1, <3>1 DEF LedgerOf, IsAnswered, IsListed, Accounted
  <2> QED
    BY <1>1, <2>1, <2>2, <2>3 DEF KernelInv, LedgerInv
<1>10. RanInv'
  BY <1>1 DEF KernelInv, RanInv, IsPast
<1>11. RevisionInv'
  BY <1>1, KernelAssumption DEF KernelInv, RevisionInv
<1> QED
  BY <1>2, <1>3, <1>4, <1>5, <1>6, <1>7, <1>8, <1>9, <1>10, <1>11 DEF KernelInv

LEMMA LapseKeeps ==
  ASSUME KernelInv, NEW p \in Process, LeaseLapses(p)
  PROVE  KernelInv'
<1>1. /\ lease = p /\ lease' = "free" /\ disturbed' = disturbed \cup Work(p) /\ p # "free"
      /\ UNCHANGED <<saved, proc, task, results, answers, ran>> /\ \A q \in Process : lease' # q
  BY KernelAssumption DEF LeaseLapses, stores
<1>2. TypeInv'
  <2>1. faults' \in 0 .. MaxFaults
    BY KernelAssumption DEF LeaseLapses, KernelInv, TypeInv
  <2> QED
    BY <1>1, <2>1 DEF KernelInv, TypeInv
<1>3. PhaseInv'
  BY <1>1 DEF KernelInv, PhaseInv, PhaseOf
<1>4. LeaseInv'
  BY <1>1 DEF KernelInv, LeaseInv, Work, Run
<1>5. OrderInv' /\ ResultInv' /\ AnswersMatchUnlessIdReused'
  BY <1>1 DEF KernelInv, OrderInv, ResultInv, AnswersMatchUnlessIdReused
<1>6. EffectInv'
  <2>1. ASSUME NEW q \in Process
        PROVE  EffectOf(q)'
    BY <1>1, EffectStays DEF KernelInv, EffectInv
  <2> QED
    BY <2>1 DEF EffectInv
<1>7. LedgerInv'
  BY <1>1 DEF KernelInv, LedgerInv, LedgerOf, IsAnswered, IsListed, Accounted
<1>8. \A c \in Executed(p) : proc[p].pc \in ToolPc => c \in Work(p)
  BY DEF Executed, Work, Run, KernelInv, PhaseInv, PhaseOf
<1>9. RanInv'
  <2> SUFFICES ASSUME NEW c \in Call \ disturbed', ran[c] # 0
               PROVE  ran[c] = 1 /\ IsPast(c)
    BY <1>1 DEF RanInv, IsPast
  <2> QED
    BY <1>1, <1>8 DEF KernelInv, RanInv
<1>10. RevisionInv'
  <2>1. proc[p].pc = "progressed" => Revision \in Work(p)
    BY DEF Work, Run, KernelInv, PhaseInv, PhaseOf, ProgressPc, BuildPc
  <2> QED
    BY <1>1, <2>1 DEF KernelInv, RevisionInv
<1> QED
  BY <1>2, <1>3, <1>4, <1>5, <1>6, <1>7, <1>9, <1>10 DEF KernelInv

-----------------------------------------------------------------------------
(***************************************************************************)
(* A process works within its node.                                        *)
(***************************************************************************)
\* A call is told by its id and its step.
LEMMA CallIs ==
  ASSUME NEW c \in Call
  PROVE  /\ c.id \in Id /\ c.step \in 1 .. MaxSteps /\ c.step \in Int
         /\ c = [id |-> c.id, step |-> c.step]
  BY KernelAssumption DEF Call

LEMMA ThisCallIs ==
  ASSUME TypeInv, PhaseInv, NEW p \in Process, proc[p].pc \in CallPc
  PROVE  /\ proc[p].i \in 1 .. Len(proc[p].run.calls) /\ ThisCall(p) = proc[p].run.calls[proc[p].i]
         /\ ThisCall(p) \in Call /\ Key(p) = ThisCall(p).id /\ Key(p) \in Id
         /\ DOMAIN proc[p].run.calls = 1 .. Len(proc[p].run.calls) /\ Len(proc[p].run.calls) \in Nat
         /\ ThisCall(p).step = proc[p].run.steps /\ proc[p].run.node = "commit-tools"
         /\ \A j, k \in DOMAIN proc[p].run.calls : proc[p].run.calls[j].id = proc[p].run.calls[k].id => j = k
<1>1. proc[p].run.calls \in Seq(Call) /\ proc[p].i \in DOMAIN proc[p].run.calls
      /\ proc[p].run.node = "commit-tools" /\ RunShape(proc[p].run)
  BY DEF TypeInv, ProcessRecord, RunRecord, PhaseInv, PhaseOf, ToolPc
<1>2. DOMAIN proc[p].run.calls = 1 .. Len(proc[p].run.calls) /\ Len(proc[p].run.calls) \in Nat
  BY <1>1, LenProperties
<1>3. ThisCall(p) = proc[p].run.calls[proc[p].i] /\ ThisCall(p) \in Call
  BY <1>1, <1>2, ElementOfSeq DEF ThisCall, Run
<1>4. ThisCall(p).id \in Id
  BY <1>3 DEF Call
<1> QED
  BY <1>1, <1>2, <1>3, <1>4 DEF RunShape, Key

\* What p comes to be, with the same run state.
Becomes(p, pc, i, base, ledger, effects) ==
  /\ proc' \in [Process -> ProcessRecord] /\ \A q \in Process : q # p => proc'[q] = proc[q]
  /\ proc'[p].run = proc[p].run /\ proc'[p].pc = pc /\ proc'[p].i = i /\ proc'[p].base = base
  /\ proc'[p].ledger = ledger /\ proc'[p].effects = effects

LEMMA BecomesOf ==
  ASSUME TypeInv, NEW p \in Process, NEW pc \in {"stopped", "running"} \cup ToolPc \cup ProgressPc \cup BuildPc,
         NEW i \in Nat, NEW base \in Nat, NEW ledger \in SUBSET Call, NEW effects \in SUBSET Id,
         proc' = [proc EXCEPT ![p] = [proc[p] EXCEPT !.pc = pc, !.i = i, !.base = base, !.ledger = ledger,
                                        !.effects = effects]]
  PROVE  Becomes(p, pc, i, base, ledger, effects)
<1> DEFINE q == [proc[p] EXCEPT !.pc = pc, !.i = i, !.base = base, !.ledger = ledger, !.effects = effects]
<1>1. proc \in [Process -> ProcessRecord] /\ proc[p] \in ProcessRecord
  BY DEF TypeInv
<1>2. q \in ProcessRecord
  BY <1>1 DEF ProcessRecord
<1>3. proc' \in [Process -> ProcessRecord] /\ proc'[p] = q /\ \A t \in Process : t # p => proc'[t] = proc[t]
  BY <1>1, <1>2
<1> QED
  BY <1>1, <1>3 DEF Becomes, ProcessRecord

NextPc(p) == IF AllCalled(p) THEN "ledger" ELSE "call"

LEMMA NextCallIs ==
  ASSUME TypeInv, PhaseInv, NEW p \in Process, proc[p].pc \in CallPc,
         NEW effects \in SUBSET Id, proc' = NextCall(p, effects)
  PROVE  Becomes(p, NextPc(p), proc[p].i + 1, proc[p].base, proc[p].ledger \cup {ThisCall(p)}, effects)
<1>1. proc \in [Process -> ProcessRecord] /\ proc[p] \in ProcessRecord /\ ThisCall(p) \in Call
  BY ThisCallIs DEF TypeInv
<1>2. proc[p].base \in Nat /\ proc[p].i + 1 \in Nat /\ proc[p].ledger \cup {ThisCall(p)} \in SUBSET Call
      /\ NextPc(p) \in ToolPc
  BY <1>1 DEF ProcessRecord, NextPc, ToolPc, CallPc
<1>3. proc' = [proc EXCEPT ![p] = [proc[p] EXCEPT !.pc = NextPc(p), !.i = proc[p].i + 1, !.base = proc[p].base,
                                     !.ledger = proc[p].ledger \cup {ThisCall(p)}, !.effects = effects]]
  BY <1>1 DEF NextCall, NextPc, ProcessRecord
<1> QED
  BY <1>2, <1>3, BecomesOf

\* The actions within a node.
LEMMA WorkIs ==
  ASSUME TypeInv, PhaseInv, NEW p \in Process
  PROVE  /\ BeginTools(p) => Becomes(p, "call", 1, proc[p].base, proc[p].ledger, proc[p].run.committed)
         /\ Replay(p) => Becomes(p, NextPc(p), proc[p].i + 1, proc[p].base, proc[p].ledger \cup {ThisCall(p)}, proc[p].effects)
         /\ RecordPrepared(p) /\ lease = p => Becomes(p, "execute", proc[p].i, proc[p].base, proc[p].ledger, proc[p].effects)
         /\ Execute(p) => Becomes(p, "save", proc[p].i, proc[p].base, proc[p].ledger, proc[p].effects)
         /\ Refused(p) => Becomes(p, NextPc(p), proc[p].i + 1, proc[p].base, proc[p].ledger \cup {ThisCall(p)}, proc[p].effects)
         /\ SaveResult(p) => Becomes(p, "commit", proc[p].i, proc[p].base, proc[p].ledger, proc[p].effects)
         /\ RecordCommitted(p) /\ lease = p =>
              Becomes(p, NextPc(p), proc[p].i + 1, proc[p].base, proc[p].ledger \cup {ThisCall(p)},
                      proc[p].effects \cup {Key(p)})
         /\ PrepareLedger(p) =>
              Becomes(p, "ledger2", proc[p].i, task.revision,
                      {c \in task.ledger : \A d \in proc[p].ledger : d.id # c.id} \cup proc[p].ledger, proc[p].effects)
         /\ CommitLedger(p) /\ RevisionIsActive(p) => Becomes(p, "tools", proc[p].i, proc[p].base, proc[p].ledger, proc[p].effects)
         /\ proc' = [proc EXCEPT ![p].pc = "progress", ![p].base = task.revision] =>
              Becomes(p, "progress", proc[p].i, task.revision, proc[p].ledger, proc[p].effects)
         /\ CommitProgress(p) /\ RevisionIsActive(p) =>
              Becomes(p, "progressed", proc[p].i, proc[p].base, proc[p].ledger, proc[p].effects)
<1>1. proc \in [Process -> ProcessRecord] /\ proc[p] \in ProcessRecord
  BY DEF TypeInv
<1>2. /\ proc[p].i \in Nat /\ proc[p].base \in Nat /\ proc[p].ledger \in SUBSET Call /\ proc[p].effects \in SUBSET Id
      /\ proc[p].run.committed \in SUBSET Id /\ task.revision \in Nat /\ task.ledger \in SUBSET Call
      /\ {c \in task.ledger : \A d \in proc[p].ledger : d.id # c.id} \cup proc[p].ledger \in SUBSET Call
  BY <1>1 DEF TypeInv, ProcessRecord, RunRecord
<1>3. {"call", "execute", "save", "commit", "ledger2", "tools", "progress", "progressed"}
      \subseteq {"stopped", "running"} \cup ToolPc \cup ProgressPc
  BY DEF ToolPc, CallPc, ProgressPc
<1>4. ASSUME NEW pc \in {"execute", "save", "commit", "tools", "progressed"},
             proc' = [proc EXCEPT ![p].pc = pc]
      PROVE  Becomes(p, pc, proc[p].i, proc[p].base, proc[p].ledger, proc[p].effects)
  <2>1. proc' = [proc EXCEPT ![p] = [proc[p] EXCEPT !.pc = pc, !.i = proc[p].i, !.base = proc[p].base,
                                       !.ledger = proc[p].ledger, !.effects = proc[p].effects]]
    BY <1>1, <1>4 DEF ProcessRecord
  <2> QED
    BY <1>2, <1>3, <2>1, BecomesOf
<1>5. BeginTools(p) => Becomes(p, "call", 1, proc[p].base, proc[p].ledger, proc[p].run.committed)
  <2>1. SUFFICES ASSUME BeginTools(p)
                 PROVE  Becomes(p, "call", 1, proc[p].base, proc[p].ledger, proc[p].run.committed)
    OBVIOUS
  <2>2. proc' = [proc EXCEPT ![p] = [proc[p] EXCEPT !.pc = "call", !.i = 1, !.base = proc[p].base,
                                       !.ledger = proc[p].ledger, !.effects = proc[p].run.committed]]
    BY <1>1, <2>1 DEF BeginTools, Run, ProcessRecord
  <2> QED
    BY <1>2, <1>3, <2>2, BecomesOf
<1>6. /\ Replay(p) \/ Refused(p) =>
           Becomes(p, NextPc(p), proc[p].i + 1, proc[p].base, proc[p].ledger \cup {ThisCall(p)}, proc[p].effects)
      /\ RecordCommitted(p) /\ lease = p =>
           Becomes(p, NextPc(p), proc[p].i + 1, proc[p].base, proc[p].ledger \cup {ThisCall(p)},
                   proc[p].effects \cup {Key(p)})
  <2>1. ASSUME Replay(p) \/ Refused(p)
        PROVE  Becomes(p, NextPc(p), proc[p].i + 1, proc[p].base, proc[p].ledger \cup {ThisCall(p)}, proc[p].effects)
    BY <1>2, <2>1, NextCallIs DEF Replay, Refused, Doing, CallPc
  <2>2. ASSUME RecordCommitted(p), lease = p
        PROVE  Becomes(p, NextPc(p), proc[p].i + 1, proc[p].base, proc[p].ledger \cup {ThisCall(p)},
                       proc[p].effects \cup {Key(p)})
    <3>1. proc[p].pc \in CallPc /\ proc' = NextCall(p, proc[p].effects \cup {Key(p)})
      BY <2>2 DEF RecordCommitted, Doing, CallPc
    <3>2. proc[p].effects \cup {Key(p)} \in SUBSET Id
      BY <1>2, <3>1, ThisCallIs
    <3> QED
      BY <3>1, <3>2, NextCallIs
  <2> QED
    BY <2>1, <2>2
<1>7. PrepareLedger(p) =>
        Becomes(p, "ledger2", proc[p].i, task.revision,
                {c \in task.ledger : \A d \in proc[p].ledger : d.id # c.id} \cup proc[p].ledger, proc[p].effects)
  <2>1. SUFFICES ASSUME PrepareLedger(p)
                 PROVE  Becomes(p, "ledger2", proc[p].i, task.revision,
                          {c \in task.ledger : \A d \in proc[p].ledger : d.id # c.id} \cup proc[p].ledger, proc[p].effects)
    OBVIOUS
  <2> DEFINE ledger == {c \in task.ledger : \A d \in proc[p].ledger : d.id # c.id} \cup proc[p].ledger
  <2>2. proc' = [proc EXCEPT ![p] = [proc[p] EXCEPT !.pc = "ledger2", !.i = proc[p].i, !.base = task.revision,
                                       !.ledger = ledger, !.effects = proc[p].effects]]
    BY <1>1, <2>1 DEF PrepareLedger, ProcessRecord
  <2>3. ledger \in SUBSET Call
    BY <1>2
  <2> HIDE DEF ledger
  <2>4. Becomes(p, "ledger2", proc[p].i, task.revision, ledger, proc[p].effects)
    BY <1>2, <1>3, <2>2, <2>3, BecomesOf
  <2> QED
    BY <2>4 DEF ledger
<1>8. proc' = [proc EXCEPT ![p].pc = "progress", ![p].base = task.revision] =>
        Becomes(p, "progress", proc[p].i, task.revision, proc[p].ledger, proc[p].effects)
  <2>1. SUFFICES ASSUME proc' = [proc EXCEPT ![p].pc = "progress", ![p].base = task.revision]
                 PROVE  Becomes(p, "progress", proc[p].i, task.revision, proc[p].ledger, proc[p].effects)
    OBVIOUS
  <2>2. proc' = [proc EXCEPT ![p] = [proc[p] EXCEPT !.pc = "progress", !.i = proc[p].i, !.base = task.revision,
                                       !.ledger = proc[p].ledger, !.effects = proc[p].effects]]
    BY <1>1, <2>1 DEF ProcessRecord
  <2> QED
    BY <1>2, <1>3, <2>2, BecomesOf
<1> QED
  BY <1>4, <1>5, <1>6, <1>7, <1>8 DEF RecordPrepared, Execute, SaveResult, CommitLedger, CommitProgress

LEMMA WorkMoves ==
  ASSUME TypeInv, PhaseInv, NEW p \in Process, Works(p)
  PROVE  /\ proc' \in [Process -> ProcessRecord] /\ \A q \in Process : q # p => proc'[q] = proc[q]
         /\ proc'[p].run = proc[p].run /\ proc[p].pc # "stopped" /\ proc'[p].pc # "stopped"
         /\ UNCHANGED <<saved, lease, faults, disturbed>>
<1>1. UNCHANGED <<saved, lease, faults, disturbed>> /\ proc[p].pc # "stopped"
  BY DEF Works, Prepares, Commits, BeginTools, Replay, RecordPrepared, Execute, Refused, SaveResult, RecordCommitted,
         PrepareLedger, CommitLedger, ProjectProgress, CommitProgress, Doing, At, history, stores
<1>2. \E pc \in {"call", "ledger", "execute", "save", "commit", "ledger2", "tools", "progress", "progressed"} :
        \E i, base, ledger, effects : Becomes(p, pc, i, base, ledger, effects)
  BY WorkIs DEF Works, Prepares, Commits, NextPc
<1> QED
  BY <1>1, <1>2 DEF Becomes

LEMMA WorkKeepsType ==
  ASSUME TypeInv, PhaseInv, NEW p \in Process, Works(p)
  PROVE  TypeInv'
<1>1. proc' \in [Process -> ProcessRecord] /\ UNCHANGED <<saved, lease, faults, disturbed>>
  BY WorkMoves
<1>2. task' \in [revision : Nat, ledger : SUBSET Call]
  <2>1. task \in [revision : Nat, ledger : SUBSET Call] /\ proc[p].base \in Nat /\ proc[p].ledger \subseteq Call
    BY DEF TypeInv, ProcessRecord
  <2> QED
    BY <2>1 DEF Works, Prepares, Commits, BeginTools, Replay, RecordPrepared, Execute, Refused, SaveResult,
                RecordCommitted, PrepareLedger, CommitLedger, ProjectProgress, CommitProgress, stores
<1>3. results' \in [Id -> Call \cup {NoResult}]
  <2>1. CASE SaveResult(p)
    BY <2>1, ThisCallIs DEF TypeInv, SaveResult, Doing, CallPc
  <2>2. CASE ~SaveResult(p)
    BY <2>2 DEF TypeInv, Works, Prepares, Commits, BeginTools, Replay, RecordPrepared, Execute, Refused,
                RecordCommitted, PrepareLedger, CommitLedger, ProjectProgress, CommitProgress, stores
  <2> QED
    BY <2>1, <2>2
<1>4. answers' \subseteq Call \X (Call \cup {NoResult})
  <2>1. CASE Replay(p) \/ Refused(p) \/ RecordCommitted(p)
    <3>1. ThisCall(p) \in Call /\ results[Key(p)] \in Call \cup {NoResult}
      BY <2>1, ThisCallIs DEF TypeInv, Replay, Refused, RecordCommitted, Doing, CallPc
    <3> QED
      BY <2>1, <3>1 DEF TypeInv, Replay, Refused, RecordCommitted
  <2>2. CASE ~(Replay(p) \/ Refused(p) \/ RecordCommitted(p))
    BY <2>2 DEF TypeInv, Works, Prepares, Commits, BeginTools, RecordPrepared, Execute, SaveResult,
                PrepareLedger, CommitLedger, ProjectProgress, CommitProgress, stores
  <2> QED
    BY <2>1, <2>2
<1>5. ran' \in [Call -> Nat]
  <2>1. CASE Execute(p)
    BY <2>1, ThisCallIs DEF TypeInv, Execute, Doing, CallPc
  <2>2. CASE ~Execute(p)
    BY <2>2 DEF TypeInv, Works, Prepares, Commits, BeginTools, Replay, RecordPrepared, Refused, SaveResult,
                RecordCommitted, PrepareLedger, CommitLedger, ProjectProgress, CommitProgress, stores, history
  <2> QED
    BY <2>1, <2>2
<1> QED
  BY <1>1, <1>2, <1>3, <1>4, <1>5 DEF TypeInv

LEMMA WorkKeepsPhase ==
  ASSUME TypeInv, PhaseInv, NEW p \in Process, Works(p)
  PROVE  PhaseInv'
<1>1. UNCHANGED saved /\ \A q \in Process : q # p => proc'[q] = proc[q]
  BY WorkMoves
<1>2. PhaseOf(p)'
  <2>1. PhaseOf(p) /\ proc'[p].run = proc[p].run /\ proc'[p].pc # "stopped"
    BY WorkMoves DEF PhaseInv
  <2>2. CASE BeginTools(p)
    <3>1. proc[p].run.calls \in Seq(Call) /\ proc[p].run.calls # <<>> /\ proc[p].run.node = "commit-tools"
      BY <2>1, <2>2 DEF BeginTools, At, TypeInv, ProcessRecord, RunRecord, PhaseOf, RunShape
    <3>2. 1 \in DOMAIN proc[p].run.calls
      BY <3>1, EmptySeq, LenProperties
    <3> QED
      BY <2>1, <2>2, <3>1, <3>2, WorkIs DEF PhaseOf, Becomes, ToolPc, CallPc, ProgressPc, BuildPc
  <2>3. CASE Replay(p) \/ Refused(p) \/ (RecordCommitted(p) /\ lease = p)
    <3>1. proc[p].pc \in CallPc
      BY <2>3 DEF Replay, Refused, RecordCommitted, Doing, CallPc
    <3>2. proc'[p].pc = NextPc(p) /\ proc'[p].i = proc[p].i + 1
      BY <2>3, WorkIs DEF Becomes
    <3>3. proc[p].run.node = "commit-tools" /\ (AllCalled(p) => proc'[p].i = Len(proc[p].run.calls) + 1)
          /\ (~AllCalled(p) => proc'[p].i \in DOMAIN proc[p].run.calls)
      BY <3>1, <3>2, ThisCallIs DEF AllCalled, Run
    <3> QED
      BY <2>1, <3>2, <3>3 DEF PhaseOf, NextPc, ToolPc, CallPc, ProgressPc, BuildPc
  <2>4. CASE (RecordPrepared(p) /\ lease = p) \/ Execute(p) \/ SaveResult(p) \/ PrepareLedger(p)
             \/ (CommitLedger(p) /\ RevisionIsActive(p)) \/ (CommitProgress(p) /\ RevisionIsActive(p))
    <3>1. /\ proc'[p].i = proc[p].i
          /\ \/ proc[p].pc \in {"call", "execute", "save"} /\ proc'[p].pc \in {"execute", "save", "commit"}
             \/ proc[p].pc \in {"ledger", "ledger2"} /\ proc'[p].pc \in {"ledger2", "tools"}
             \/ proc[p].pc = "progress" /\ proc'[p].pc = "progressed"
      BY <2>4, WorkIs DEF Becomes, RecordPrepared, Execute, SaveResult, PrepareLedger, CommitLedger, CommitProgress, Doing
    <3> QED
      BY <2>1, <3>1 DEF PhaseOf, ToolPc, CallPc, ProgressPc, BuildPc
  <2>5. CASE ProjectProgress(p) /\ proc' = [proc EXCEPT ![p].pc = "progress", ![p].base = task.revision]
    BY <2>1, <2>5, WorkIs DEF ProjectProgress, At, PhaseOf, Becomes, ToolPc, CallPc, ProgressPc, BuildPc
  <2> QED
    BY <2>2, <2>3, <2>4, <2>5 DEF Works, Prepares, Commits
<1>3. ASSUME NEW q \in Process, q # p
      PROVE  PhaseOf(q)'
  BY <1>1, <1>3 DEF PhaseInv, PhaseOf
<1> QED
  BY <1>1, <1>2, <1>3 DEF PhaseInv

LEMMA WorkKeepsLease ==
  ASSUME KernelInv, NEW p \in Process, Works(p)
  PROVE  LeaseInv' /\ OrderInv'
<1>1. /\ \A q \in Process : q # p => proc'[q] = proc[q]
      /\ proc'[p].run = proc[p].run /\ proc[p].pc # "stopped" /\ proc'[p].pc # "stopped"
      /\ UNCHANGED <<saved, lease, disturbed>>
  BY WorkMoves DEF KernelInv
<1>2. \A q \in Process : proc'[q].run = proc[q].run
  BY <1>1
<1>3. LeaseInv'
  <2> SUFFICES ASSUME NEW q \in Process
               PROVE  IF lease = q THEN proc'[q].pc # "stopped" /\ proc'[q].run = saved /\ saved.outcome = "none"
                      ELSE proc'[q].pc # "stopped" => Work(q)' \subseteq disturbed
    BY <1>1 DEF LeaseInv
  <2>1. Work(q)' = Work(q)
    BY <1>2 DEF Work, Run
  <2> QED
    BY <1>1, <1>2, <2>1 DEF KernelInv, LeaseInv
<1>4. OrderInv'
  BY <1>1, <1>2 DEF KernelInv, OrderInv
<1> QED
  BY <1>3, <1>4

\* The result of a call that a process has executed is as old as its copy of the run.
LEMMA SaveKeepsResults ==
  ASSUME KernelInv, NEW p \in Process, SaveResult(p)
  PROVE  ResultInv'
<1>1. /\ \A q \in Process : proc'[q].run = proc[q].run /\ proc'[q].effects = proc[q].effects
      /\ UNCHANGED saved
  BY WorkMoves, WorkIs DEF KernelInv, Works, Prepares, Becomes
<1>2. proc[p].pc = "save" /\ ThisCall(p) \in Call /\ Key(p) = ThisCall(p).id /\ Key(p) \in Id
      /\ ThisCall(p).step = proc[p].run.steps
  BY ThisCallIs DEF KernelInv, SaveResult, Doing, CallPc
<1>3. results' = [results EXCEPT ![Key(p)] = ThisCall(p)] /\ results \in [Id -> Call \cup {NoResult}]
      /\ NoResult \notin Call
  BY DEF SaveResult, KernelInv, TypeInv, Call, NoResult
<1>4. ASSUME NEW q \in Process, Key(p) \in proc[q].run.committed
      PROVE  ThisCall(p).step <= proc[q].run.steps
  <2>1. Key(p) \notin proc[p].run.committed
    BY <1>2 DEF KernelInv, EffectInv, EffectOf, ToolPc, CallPc
  <2> QED
    BY <1>2, <1>4, <2>1 DEF KernelInv, OrderInv, Before
<1>5. ThisCall(p).step <= saved.steps
  BY <1>2 DEF KernelInv, OrderInv, Before
<1>6. ASSUME NEW k \in Id
      PROVE  /\ results'[k] # NoResult =>
                  /\ results'[k].id = k /\ results'[k].step <= saved.steps
                  /\ \A q \in Process : k \in proc[q].run.committed => results'[k].step <= proc[q].run.steps
             /\ k \in saved.committed => results'[k] # NoResult
             /\ \A q \in Process : k \in proc[q].effects => results'[k] # NoResult
  <2>1. CASE k = Key(p)
    BY <1>2, <1>3, <1>4, <1>5, <2>1
  <2>2. CASE k # Key(p)
    BY <1>3, <2>2 DEF KernelInv, ResultInv
  <2> QED
    BY <2>1, <2>2
<1> QED
  BY <1>1, <1>6 DEF ResultInv

LEMMA WorkKeepsResults ==
  ASSUME KernelInv, NEW p \in Process, Works(p)
  PROVE  ResultInv'
<1>1. CASE SaveResult(p)
  BY <1>1, SaveKeepsResults
<1>2. CASE ~SaveResult(p)
  <2>1. results' = results /\ UNCHANGED saved /\ \A q \in Process : proc'[q].run = proc[q].run
    BY <1>2, WorkMoves
       DEF KernelInv, Works, Prepares, Commits, BeginTools, Replay, RecordPrepared, Execute, Refused,
           RecordCommitted, PrepareLedger, CommitLedger, ProjectProgress, CommitProgress, stores
  <2>2. \A k \in Id : k \in proc[p].run.committed => results[k] # NoResult
    BY DEF KernelInv, OrderInv, Before, ResultInv
  <2>3. RecordCommitted(p) => results[Key(p)] # NoResult
    BY DEF KernelInv, EffectInv, EffectOf, RecordCommitted, Doing
  <2>4. ASSUME NEW k \in Id, NEW q \in Process, k \in proc'[q].effects
        PROVE  results[k] # NoResult
    <3>1. CASE q # p
      BY <2>4, <3>1, WorkMoves DEF KernelInv, ResultInv
    <3>2. CASE q = p
      <4>1. \/ proc'[p].effects = proc[p].effects \/ proc'[p].effects = proc[p].run.committed
            \/ RecordCommitted(p) /\ proc'[p].effects = proc[p].effects \cup {Key(p)}
        BY WorkIs DEF KernelInv, Works, Prepares, Commits, Becomes
      <4> QED
        BY <2>2, <2>3, <2>4, <3>2, <4>1 DEF KernelInv, ResultInv
    <3> QED
      BY <3>1, <3>2
  <2> QED
    BY <2>1, <2>4 DEF KernelInv, ResultInv
<1> QED
  BY <1>1, <1>2

LEMMA WorkKeepsEffects ==
  ASSUME KernelInv, NEW p \in Process, Works(p)
  PROVE  EffectInv'
<1>1. TypeInv /\ PhaseInv /\ EffectOf(p) /\ PhaseOf(p)
  BY DEF KernelInv, EffectInv, PhaseInv
<1>2. \A k \in Id : results[k] # NoResult => results'[k] # NoResult
  <2>1. CASE SaveResult(p)
    <3>1. ThisCall(p) \in Call /\ Key(p) \in Id /\ NoResult \notin Call
      BY <1>1, <2>1, ThisCallIs DEF SaveResult, Doing, CallPc, Call, NoResult
    <3> QED
      BY <2>1, <3>1 DEF SaveResult, KernelInv, TypeInv
  <2>2. CASE ~SaveResult(p)
    BY <2>2 DEF Works, Prepares, Commits, BeginTools, Replay, RecordPrepared, Execute, Refused,
                RecordCommitted, PrepareLedger, CommitLedger, ProjectProgress, CommitProgress, stores
  <2> QED
    BY <2>1, <2>2
<1>3. ASSUME NEW q \in Process, q # p
      PROVE  EffectOf(q)'
  <2>1. EffectOf(q) /\ proc'[q] = proc[q] /\ (proc[q].pc = "commit" => Key(q) \in Id)
    BY <1>1, <1>3, WorkMoves, ThisCallIs DEF KernelInv, EffectInv, CallPc
  <2> QED
    BY <1>2, <2>1 DEF EffectOf, Key, ThisCall, Run
<1>4. EffectOf(p)'
  <2>1. proc'[p].run = proc[p].run /\ proc[p].i \in Nat
    BY <1>1, WorkMoves DEF TypeInv, ProcessRecord
  <2>2. CASE BeginTools(p)
    BY ZenonT(60), <1>1, <2>1, <2>2, WorkIs DEF EffectOf, Becomes
  <2>3. CASE Replay(p) \/ Refused(p) \/ (RecordCommitted(p) /\ lease = p)
    <3>1. proc[p].pc \in CallPc
      BY <2>3 DEF Replay, Refused, RecordCommitted, Doing, CallPc
    <3>2. /\ proc'[p].pc \in {"call", "ledger"} /\ proc'[p].i = proc[p].i + 1
          /\ proc'[p].effects \in {proc[p].effects, proc[p].effects \cup {Key(p)}}
      BY <1>1, <2>3, WorkIs DEF Becomes, NextPc
    <3>3. /\ proc[p].i \in DOMAIN proc[p].run.calls /\ proc[p].run.calls[proc[p].i].id = Key(p)
          /\ DOMAIN proc[p].run.calls = 1 .. Len(proc[p].run.calls) /\ Len(proc[p].run.calls) \in Nat
      BY <1>1, <3>1, ThisCallIs
    <3> QED
      BY <1>1, <2>1, <3>1, <3>2, <3>3 DEF EffectOf, ToolPc
  <2>4. CASE (RecordPrepared(p) /\ lease = p) \/ Execute(p) \/ SaveResult(p) \/ PrepareLedger(p)
             \/ (CommitLedger(p) /\ RevisionIsActive(p)) \/ (CommitProgress(p) /\ RevisionIsActive(p))
    <3>1. /\ proc'[p].i = proc[p].i /\ proc'[p].effects = proc[p].effects /\ Key(p)' = Key(p)
          /\ \/ proc[p].pc = "call" /\ proc'[p].pc = "execute" /\ Key(p) \notin proc[p].effects
             \/ proc[p].pc = "execute" /\ proc'[p].pc = "save"
             \/ proc[p].pc = "save" /\ proc'[p].pc = "commit" /\ SaveResult(p)
             \/ proc[p].pc \in {"ledger", "ledger2"} /\ proc'[p].pc \in {"ledger2", "tools"}
             \/ proc[p].pc = "progress" /\ proc'[p].pc = "progressed"
      BY <1>1, <2>1, <2>4, WorkIs
         DEF Becomes, RecordPrepared, Execute, SaveResult, PrepareLedger, CommitLedger, CommitProgress, Doing,
             Key, ThisCall, Run
    <3>2. SaveResult(p) => results'[Key(p)] # NoResult
      <4>1. SaveResult(p) => ThisCall(p) \in Call /\ Key(p) \in Id /\ NoResult \notin Call
        BY <1>1, ThisCallIs DEF SaveResult, Doing, CallPc, Call, NoResult
      <4> QED
        BY <1>1, <4>1 DEF SaveResult, TypeInv
    <3> QED
      BY <1>1, <2>1, <3>1, <3>2 DEF EffectOf, ToolPc, CallPc
  <2>5. CASE ProjectProgress(p) /\ proc' = [proc EXCEPT ![p].pc = "progress", ![p].base = task.revision]
    BY <1>1, <2>5, WorkIs DEF Becomes, EffectOf, ToolPc, CallPc
  <2> QED
    BY <2>2, <2>3, <2>4, <2>5 DEF Works, Prepares, Commits
<1> QED
  BY <1>3, <1>4 DEF EffectInv

\* A replayed result is one that was committed before this proposal: it may be of an
\* earlier call with the same id, and not of a later one.
LEMMA WorkKeepsAnswers ==
  ASSUME KernelInv, NEW p \in Process, Works(p)
  PROVE  AnswersMatchUnlessIdReused'
<1>1. TypeInv /\ PhaseInv /\ EffectOf(p) /\ PhaseOf(p)
  BY DEF KernelInv, EffectInv, PhaseInv
<1>2. CASE Replay(p)
  <2>1. /\ proc[p].pc = "call" /\ Key(p) \in proc[p].effects
        /\ answers' = answers \cup {<<ThisCall(p), results[Key(p)]>>}
    BY <1>2 DEF Replay, Doing
  <2>2. /\ proc[p].i \in 1 .. Len(proc[p].run.calls) /\ ThisCall(p) = proc[p].run.calls[proc[p].i]
        /\ ThisCall(p) \in Call /\ Key(p) = ThisCall(p).id /\ Key(p) \in Id
        /\ DOMAIN proc[p].run.calls = 1 .. Len(proc[p].run.calls) /\ Len(proc[p].run.calls) \in Nat
        /\ ThisCall(p).step = proc[p].run.steps
        /\ \A j, k \in DOMAIN proc[p].run.calls : proc[p].run.calls[j].id = proc[p].run.calls[k].id => j = k
    BY <1>1, <2>1, ThisCallIs DEF CallPc
  <2>3. Key(p) \in proc[p].run.committed
    <3>1. SUFFICES ASSUME Key(p) \notin proc[p].run.committed
                   PROVE  FALSE
      OBVIOUS
    <3>2. Key(p) \in proc[p].effects \ proc[p].run.committed /\ proc[p].pc \in ToolPc
      BY <2>1, <3>1 DEF ToolPc, CallPc
    <3>3. PICK j \in DOMAIN proc[p].run.calls : j < proc[p].i /\ proc[p].run.calls[j].id = Key(p)
      BY <1>1, <3>2 DEF EffectOf
    <3>4. j = proc[p].i
      BY <2>2, <3>3
    <3> QED
      BY <2>2, <3>3, <3>4
  <2>4. /\ results[Key(p)] \in Call /\ results[Key(p)].id = Key(p)
        /\ results[Key(p)].step <= ThisCall(p).step
    <3>1. results[Key(p)] # NoResult
      BY <2>1, <2>2 DEF KernelInv, ResultInv
    <3>2. results[Key(p)] \in Call
      BY <2>2, <3>1 DEF KernelInv, TypeInv
    <3>3. results[Key(p)].id = Key(p) /\ results[Key(p)].step <= proc[p].run.steps
      BY <2>2, <2>3, <3>1 DEF KernelInv, ResultInv
    <3> QED
      BY <2>2, <3>2, <3>3
  <2>5. results[Key(p)] = ThisCall(p) \/ results[Key(p)].step < ThisCall(p).step
    <3>1. results[Key(p)].step \in Int /\ ThisCall(p).step \in Int
      BY <2>2, <2>4, CallIs
    <3>2. CASE results[Key(p)].step = ThisCall(p).step
      <4>1. /\ results[Key(p)] = [id |-> results[Key(p)].id, step |-> results[Key(p)].step]
            /\ ThisCall(p) = [id |-> ThisCall(p).id, step |-> ThisCall(p).step]
        BY <2>2, <2>4, CallIs
      <4> HIDE DEF Key, ThisCall
      <4> QED
        BY <2>2, <2>4, <3>2, <4>1
    <3> QED
      BY <2>4, <3>1, <3>2
  <2> QED
    <3> SUFFICES ASSUME NEW a \in answers'
                 PROVE  a[2] = a[1] \/ (a[2].id = a[1].id /\ a[2].step < a[1].step)
      BY DEF AnswersMatchUnlessIdReused
    <3>1. CASE a \in answers
      BY <3>1 DEF KernelInv, AnswersMatchUnlessIdReused
    <3>2. CASE a = <<ThisCall(p), results[Key(p)]>>
      <4>1. a[1] = ThisCall(p) /\ a[2] = results[Key(p)]
        BY <3>2
      <4> QED
        BY <2>2, <2>4, <2>5, <4>1
    <3> QED
      BY <2>1, <3>1, <3>2
<1>3. CASE ~Replay(p)
  <2>1. \A a \in answers' : a \in answers \/ a = <<ThisCall(p), ThisCall(p)>>
    BY <1>3 DEF Works, Prepares, Commits, BeginTools, RecordPrepared, Execute, Refused, SaveResult, RecordCommitted,
                PrepareLedger, CommitLedger, ProjectProgress, CommitProgress, stores
  <2> QED
    BY <2>1 DEF KernelInv, AnswersMatchUnlessIdReused
<1> QED
  BY <1>2, <1>3

\* No entry leaves the ledger, whichever process works on it.
LEMMA WorkKeepsEntries ==
  ASSUME KernelInv, NEW p \in Process, Works(p)
  PROVE  /\ \A c \in task.ledger : IsListed(c, task'.ledger)
         /\ answers \subseteq answers'
         /\ task' = task \/ task'.revision = task.revision + 1
         /\ task' = task \/ (proc[p].pc = "ledger2" /\ proc[p].base = task.revision)
            \/ (proc[p].pc = "progress" /\ proc[p].base = task.revision)
<1>1. CASE CommitLedger(p) /\ RevisionIsActive(p)
  <2>1. LedgerOf(p) /\ proc[p].pc = "ledger2" /\ proc[p].base = task.revision
        /\ task'.ledger = proc[p].ledger /\ task'.revision = proc[p].base + 1 /\ answers' = answers
    BY <1>1 DEF KernelInv, LedgerInv, CommitLedger, RevisionIsActive, Doing
  <2> QED
    BY <2>1 DEF LedgerOf
<1>2. CASE CommitProgress(p) /\ RevisionIsActive(p)
  BY <1>2 DEF KernelInv, TypeInv, CommitProgress, RevisionIsActive, Doing, IsListed
<1>3. CASE ~(CommitLedger(p) \/ CommitProgress(p))
  <2>1. task' = task /\ answers \subseteq answers'
    BY <1>3 DEF Works, Prepares, Commits, BeginTools, Replay, RecordPrepared, Execute, Refused, SaveResult,
                RecordCommitted, PrepareLedger, ProjectProgress, stores
  <2> QED
    BY <2>1 DEF IsListed
<1> QED
  BY <1>1, <1>2, <1>3
     DEF Works, Prepares, Commits, BeginTools, Replay, RecordPrepared, Execute, Refused, SaveResult, RecordCommitted,
         PrepareLedger, ProjectProgress, CommitLedger, CommitProgress, Doing, At

LEMMA WorkKeepsLedger ==
  ASSUME KernelInv, NEW p \in Process, Works(p)
  PROVE  LedgerInv'
<1>1. TypeInv /\ PhaseInv /\ PhaseOf(p) /\ LedgerOf(p) /\ proc'[p].run = proc[p].run /\ saved' = saved
      /\ \A q \in Process : q # p => proc'[q] = proc[q]
  BY WorkMoves DEF KernelInv, PhaseInv, LedgerInv
<1>2. /\ \A c \in task.ledger : IsListed(c, task'.ledger)
      /\ answers \subseteq answers'
      /\ task' = task \/ task'.revision = task.revision + 1
  BY WorkKeepsEntries
<1>3. ASSUME NEW run, Accounted(run)
      PROVE  \A j \in DOMAIN run.calls :
               (\E a \in answers' : a[1] = run.calls[j]) /\ (\E d \in task'.ledger : d.id = run.calls[j].id)
  BY <1>2, <1>3 DEF Accounted, IsAnswered, IsListed
<1>4. saved.node \in {"project-progress", "build-context", "invoke-model"} => Accounted(saved)'
  BY <1>1, <1>3 DEF KernelInv, LedgerInv, Accounted, IsAnswered, IsListed
<1>5. ASSUME NEW q \in Process, q # p
      PROVE  LedgerOf(q)'
  <2>1. LedgerOf(q) /\ proc'[q] = proc[q] /\ proc[q].base \in Nat /\ task.revision \in Nat
    BY <1>1, <1>5 DEF KernelInv, LedgerInv, TypeInv, ProcessRecord
  <2>2. proc[q].pc = "tools" => Accounted(proc[q].run)'
    BY <1>3, <2>1 DEF LedgerOf, Accounted, IsAnswered, IsListed
  <2>3. proc[q].pc \in {"compacting", "ledger2"} =>
          proc[q].base <= task'.revision /\ (proc[q].base = task'.revision => task' = task)
    BY <1>2, <2>1 DEF LedgerOf
  <2> QED
    BY <1>2, <2>1, <2>2, <2>3 DEF LedgerOf, IsAnswered, IsListed
<1>6. LedgerOf(p)'
  <2>1. proc[p].i \in Nat /\ proc[p].run.calls \in Seq(Call) /\ task.revision \in Nat
        /\ DOMAIN proc[p].run.calls = 1 .. Len(proc[p].run.calls) /\ Len(proc[p].run.calls) \in Nat
    BY <1>1, LenProperties DEF TypeInv, ProcessRecord, RunRecord
  <2>2. CASE BeginTools(p)
    <3>1. proc'[p].pc = "call" /\ proc'[p].i = 1
      BY <1>1, <2>2, WorkIs DEF Becomes
    <3>2. \A j \in DOMAIN proc[p].run.calls : ~(j < 1)
      BY <2>1
    <3> QED
      BY <1>1, <3>1, <3>2 DEF LedgerOf
  <2>3. CASE Replay(p) \/ Refused(p) \/ (RecordCommitted(p) /\ lease = p)
    <3>1. proc[p].pc \in CallPc
      BY <2>3 DEF Replay, Refused, RecordCommitted, Doing, CallPc
    <3>2. /\ proc'[p].pc \in {"call", "ledger"} /\ proc'[p].i = proc[p].i + 1
          /\ proc'[p].ledger = proc[p].ledger \cup {ThisCall(p)}
      BY <1>1, <2>3, WorkIs DEF Becomes, NextPc
    <3>3. \E a \in answers' : a[1] = ThisCall(p)
      <4>1. <<ThisCall(p), results[Key(p)]>> \in answers' \/ <<ThisCall(p), ThisCall(p)>> \in answers'
        BY <2>3 DEF Replay, Refused, RecordCommitted
      <4>2. <<ThisCall(p), results[Key(p)]>>[1] = ThisCall(p) /\ <<ThisCall(p), ThisCall(p)>>[1] = ThisCall(p)
        OBVIOUS
      <4> QED
        BY <4>1, <4>2
    <3>4. ThisCall(p) = proc[p].run.calls[proc[p].i]
      BY <1>1, <3>1, ThisCallIs
    <3>5. ASSUME NEW j \in DOMAIN proc[p].run.calls, j < proc[p].i + 1
          PROVE  IsAnswered(proc[p].run.calls[j])' /\ proc[p].run.calls[j] \in proc'[p].ledger
      <4>1. CASE j = proc[p].i
        BY <1>1, <3>2, <3>3, <3>4, <4>1 DEF IsAnswered
      <4>2. CASE j < proc[p].i
        BY <1>1, <1>2, <3>1, <3>2, <4>2 DEF LedgerOf, IsAnswered, ToolPc
      <4> QED
        BY <2>1, <3>5, <4>1, <4>2
    <3> QED
      BY <1>1, <3>2, <3>5 DEF LedgerOf, IsAnswered
  <2>4. CASE (RecordPrepared(p) /\ lease = p) \/ Execute(p) \/ SaveResult(p)
    <3>1. /\ proc'[p].i = proc[p].i /\ proc'[p].ledger = proc[p].ledger
          /\ proc[p].pc \in CallPc /\ proc'[p].pc \in {"execute", "save", "commit"}
      BY <1>1, <2>4, WorkIs DEF Becomes, RecordPrepared, Execute, SaveResult, Doing, CallPc
    <3> QED
      BY <1>1, <1>2, <3>1 DEF LedgerOf, IsAnswered, ToolPc
  <2>5. CASE PrepareLedger(p)
    <3> DEFINE merged == {c \in task.ledger : \A d \in proc[p].ledger : d.id # c.id} \cup proc[p].ledger
    <3>1. /\ proc'[p].pc = "ledger2" /\ proc'[p].i = proc[p].i /\ proc'[p].base = task.revision
          /\ proc'[p].ledger = merged /\ proc[p].pc = "ledger" /\ task' = task
      BY <1>1, <2>5, WorkIs DEF Becomes, PrepareLedger, Doing, stores
    <3>2. \A j \in DOMAIN proc[p].run.calls : j < proc[p].i
      BY <1>1, <2>1, <3>1 DEF PhaseOf, ToolPc, CallPc
    <3>3. \A j \in DOMAIN proc[p].run.calls : IsListed(proc[p].run.calls[j], merged)
      BY <1>1, <3>1, <3>2 DEF LedgerOf, IsListed
    <3>4. \A c \in task.ledger : IsListed(c, merged)
      BY DEF IsListed
    <3> HIDE DEF merged
    <3> QED
      BY <1>1, <1>2, <2>1, <3>1, <3>3, <3>4 DEF LedgerOf, IsListed, IsAnswered, ToolPc, CallPc
  <2>6. CASE CommitLedger(p) /\ RevisionIsActive(p)
    <3>1. /\ proc'[p].pc = "tools" /\ proc'[p].i = proc[p].i /\ proc[p].pc = "ledger2"
          /\ task'.ledger = proc[p].ledger
      <4>1. Becomes(p, "tools", proc[p].i, proc[p].base, proc[p].ledger, proc[p].effects)
        BY <1>1, <2>6, WorkIs
      <4>2. task' = [revision |-> proc[p].base + 1, ledger |-> proc[p].ledger] /\ proc[p].pc = "ledger2"
        BY <2>6 DEF CommitLedger, Doing
      <4> QED
        BY <4>1, <4>2 DEF Becomes
    <3>2. \A j \in DOMAIN proc[p].run.calls : j < proc[p].i
      BY <1>1, <2>1, <3>1 DEF PhaseOf, ToolPc, CallPc
    <3> QED
      BY <1>1, <1>2, <3>1, <3>2 DEF LedgerOf, Accounted, IsListed, IsAnswered, ToolPc, CallPc
  <2>7. CASE CommitProgress(p) \/ ProjectProgress(p)
    <3>1. proc'[p].pc \in {"progress", "progressed"}
      BY <1>1, <2>7, WorkIs
         DEF Becomes, Works, Prepares, Commits, CommitProgress, ProjectProgress, At, Doing, BeginTools, Replay,
             RecordPrepared, Execute, Refused, SaveResult, RecordCommitted, PrepareLedger, CommitLedger
    <3> QED
      BY <3>1 DEF LedgerOf, ToolPc, CallPc
  <2> QED
    BY <2>2, <2>3, <2>4, <2>5, <2>6, <2>7 DEF Works, Prepares, Commits
<1> QED
  BY <1>1, <1>4, <1>5, <1>6 DEF LedgerInv

LEMMA WorkExecutes ==
  ASSUME KernelInv, NEW p \in Process, Works(p), proc[p].pc \in ToolPc
  PROVE  proc'[p].pc \in ToolPc /\ Executed(p) \subseteq Executed(p)'
<1>1. TypeInv /\ PhaseInv /\ PhaseOf(p) /\ proc'[p].run = proc[p].run /\ proc[p].i \in Nat
  BY WorkMoves DEF KernelInv, PhaseInv, TypeInv, ProcessRecord
<1>2. \A k \in DOMAIN proc[p].run.calls : k \in Nat
  <2>1. proc[p].run.calls \in Seq(Call)
    BY <1>1 DEF TypeInv, ProcessRecord, RunRecord
  <2> QED
    BY <2>1, LenProperties
<1>3. CASE Replay(p) \/ Refused(p) \/ (RecordCommitted(p) /\ lease = p)
  <2>1. proc'[p].pc \in {"call", "ledger"} /\ proc'[p].i = proc[p].i + 1
    BY <1>1, <1>3, WorkIs DEF Becomes, NextPc
  <2>2. ASSUME NEW k \in DOMAIN proc[p].run.calls, k < proc[p].i \/ k = proc[p].i
        PROVE  k < proc'[p].i
    BY <1>1, <1>2, <2>1, <2>2
  <2> QED
    BY <1>1, <2>1, <2>2 DEF Executed, ToolPc, CallPc
<1>4. CASE (RecordPrepared(p) /\ lease = p) \/ Execute(p) \/ SaveResult(p) \/ PrepareLedger(p)
           \/ (CommitLedger(p) /\ RevisionIsActive(p))
  <2>1. /\ proc'[p].i = proc[p].i
        /\ \/ proc[p].pc \in {"call", "execute"} /\ proc'[p].pc \in {"execute", "save"}
           \/ proc[p].pc = "save" /\ proc'[p].pc = "commit"
           \/ proc[p].pc \in {"ledger", "ledger2"} /\ proc'[p].pc \in {"ledger2", "tools"}
    BY <1>1, <1>4, WorkIs DEF Becomes, RecordPrepared, Execute, SaveResult, PrepareLedger, CommitLedger, Doing
  <2> QED
    BY <1>1, <2>1 DEF Executed, ToolPc, CallPc
<1>5. ~(BeginTools(p) \/ ProjectProgress(p) \/ CommitProgress(p))
  BY DEF BeginTools, ProjectProgress, CommitProgress, At, Doing, ToolPc, CallPc
<1> QED
  BY <1>3, <1>4, <1>5 DEF Works, Prepares, Commits

LEMMA WorkKeepsRan ==
  ASSUME KernelInv, NEW p \in Process, Works(p)
  PROVE  RanInv'
<1>1. TypeInv /\ PhaseInv /\ PhaseOf(p) /\ saved' = saved /\ lease' = lease /\ disturbed' = disturbed
      /\ \A q \in Process : q # p => proc'[q] = proc[q]
  BY WorkMoves DEF KernelInv, PhaseInv
<1>2. \A c \in Call : IsPast(c)' = IsPast(c)
  BY <1>1 DEF IsPast
<1>3. ASSUME NEW c \in Call \ disturbed, NEW q \in Process, lease = q, proc[q].pc \in ToolPc, c \in Executed(q)
      PROVE  lease' = q /\ proc'[q].pc \in ToolPc /\ c \in Executed(q)'
  <2>1. CASE q = p
    BY <1>1, <1>3, <2>1, WorkExecutes
  <2>2. CASE q # p
    BY <1>1, <1>3, <2>2 DEF Executed
  <2> QED
    BY <2>1, <2>2
<1>4. ASSUME NEW c \in Call \ disturbed, ran'[c] = ran[c], ran[c] # 0
      PROVE  ran'[c] = 1
             /\ (IsPast(c)' \/ \E q \in Process : lease' = q /\ proc'[q].pc \in ToolPc /\ c \in Executed(q)')
  BY <1>2, <1>3, <1>4 DEF KernelInv, RanInv
<1>5. CASE ~Execute(p)
  <2>1. ran' = ran
    BY <1>5 DEF Works, Prepares, Commits, BeginTools, Replay, RecordPrepared, Refused, SaveResult,
                RecordCommitted, PrepareLedger, CommitLedger, ProjectProgress, CommitProgress, stores, history
  <2> QED
    BY <1>1, <1>4, <2>1 DEF RanInv
<1>6. CASE Execute(p)
  <2>1. /\ proc[p].pc = "execute" /\ ran' = [ran EXCEPT ![ThisCall(p)] = @ + 1] /\ ran \in [Call -> Nat]
        /\ proc'[p].pc = "save" /\ proc'[p].i = proc[p].i /\ proc'[p].run = proc[p].run
    BY <1>1, <1>6, WorkIs DEF Execute, Doing, TypeInv, Becomes
  <2>2. /\ proc[p].i \in 1 .. Len(proc[p].run.calls) /\ ThisCall(p) = proc[p].run.calls[proc[p].i]
        /\ ThisCall(p) \in Call /\ ThisCall(p).step = proc[p].run.steps /\ proc[p].run.node = "commit-tools"
        /\ DOMAIN proc[p].run.calls = 1 .. Len(proc[p].run.calls) /\ Len(proc[p].run.calls) \in Nat
        /\ \A j, k \in DOMAIN proc[p].run.calls : proc[p].run.calls[j].id = proc[p].run.calls[k].id => j = k
    BY <1>1, <2>1, ThisCallIs DEF CallPc
  <2>3. ASSUME ThisCall(p) \notin disturbed
        PROVE  /\ lease = p /\ ran[ThisCall(p)] = 0
               /\ ThisCall(p) \in Executed(p)'
    <3>1. ThisCall(p) \in Work(p)
      BY <2>2 DEF Work, Run
    <3>2. lease = p /\ proc[p].run = saved /\ saved.outcome = "none"
      BY <2>1, <2>3, <3>1 DEF KernelInv, LeaseInv
    <3>3. ~IsPast(ThisCall(p))
      <4>1. ThisCall(p).step \in Int
        BY <2>2, KernelAssumption DEF Call
      <4> QED
        BY <2>2, <3>2, <4>1 DEF IsPast
    <3>4. ThisCall(p) \notin Executed(p)
      <4>1. SUFFICES ASSUME NEW j \in DOMAIN proc[p].run.calls, proc[p].run.calls[j] = ThisCall(p),
                            j < proc[p].i \/ (j = proc[p].i /\ proc[p].pc \in {"save", "commit"})
                     PROVE  FALSE
        BY DEF Executed
      <4>2. j < proc[p].i
        BY <2>1, <4>1
      <4>3. proc[p].run.calls[j].id = proc[p].run.calls[proc[p].i].id
        BY <2>2, <4>1
      <4>4. j = proc[p].i
        BY <2>2, <4>3
      <4> QED
        BY <2>2, <4>2, <4>4
    <3>5. ThisCall(p) \in Executed(p)'
      BY <2>1, <2>2 DEF Executed
    <3> QED
      BY <2>2, <2>3, <3>2, <3>3, <3>4, <3>5 DEF KernelInv, RanInv
  <2>4. ASSUME NEW c \in Call \ disturbed, ran'[c] # 0
        PROVE  ran'[c] = 1
               /\ (IsPast(c)' \/ \E q \in Process : lease' = q /\ proc'[q].pc \in ToolPc /\ c \in Executed(q)')
    <3>1. CASE c = ThisCall(p)
      <4>1. lease = p /\ ran[c] = 0 /\ c \in Executed(p)'
        BY <2>3, <2>4, <3>1
      <4>2. ran'[c] = 1
        BY <2>1, <2>2, <3>1, <4>1
      <4>3. lease' = p /\ proc'[p].pc \in ToolPc
        BY <1>1, <2>1, <4>1 DEF ToolPc, CallPc
      <4> QED
        BY <4>1, <4>2, <4>3
    <3>2. CASE c # ThisCall(p)
      BY <1>4, <2>1, <2>4, <3>2
    <3> QED
      BY <3>1, <3>2
  <2> QED
    BY <1>1, <2>4 DEF RanInv
<1> QED
  BY <1>5, <1>6

LEMMA WorkKeepsRevision ==
  ASSUME KernelInv, NEW p \in Process, Works(p)
  PROVE  RevisionInv'
<1>1. TypeInv /\ PhaseInv /\ PhaseOf(p) /\ saved' = saved /\ lease' = lease /\ disturbed' = disturbed
      /\ task.revision \in Nat /\ \A q \in Process : q # p => proc'[q] = proc[q]
  BY WorkMoves DEF KernelInv, PhaseInv, TypeInv
<1>2. task' = task \/ task'.revision = task.revision + 1
  BY WorkKeepsEntries
<1>3. ASSUME task' # task, Revision \notin disturbed
      PROVE  lease = p /\ proc[p].run = saved
  <2>1. proc[p].pc \in {"ledger2", "progress"}
    BY <1>3, WorkKeepsEntries
  <2>2. Revision \in Work(p)
    BY <1>1, <2>1 DEF PhaseOf, Work, Run, ToolPc, CallPc, ProgressPc, BuildPc
  <2> QED
    BY <1>3, <2>1, <2>2 DEF KernelInv, LeaseInv
<1>4. /\ proc[p].pc # "progressed"
      /\ proc'[p].pc \in {"compacting", "ledger2", "progress"} => proc'[p].base = task'.revision
      /\ proc'[p].pc \in {"tools", "progressed"} => task'.revision = proc'[p].base + 1
      /\ proc[p].pc = "progress" => proc'[p].pc = "progressed"
  <2>1. CASE PrepareLedger(p) \/ (CommitLedger(p) /\ RevisionIsActive(p))
    <3>1. proc[p].pc \in {"ledger", "ledger2"}
      BY <2>1 DEF PrepareLedger, CommitLedger, Doing
    <3>2. \/ task' = task /\ proc'[p].pc = "ledger2" /\ proc'[p].base = task.revision
          \/ proc'[p].pc = "tools" /\ proc'[p].base = proc[p].base /\ CommitLedger(p) /\ RevisionIsActive(p)
      <4>1. PrepareLedger(p) => task' = task
        BY DEF PrepareLedger, stores
      <4> QED
        BY <1>1, <2>1, <4>1, WorkIs DEF Becomes
    <3>3. CommitLedger(p) /\ RevisionIsActive(p) => task'.revision = proc[p].base + 1
      BY DEF CommitLedger
    <3> QED
      BY <3>1, <3>2, <3>3
  <2>2. CASE ProjectProgress(p) /\ proc' = [proc EXCEPT ![p].pc = "progress", ![p].base = task.revision]
    BY ZenonT(60), <1>1, <2>2, WorkIs DEF Becomes, ProjectProgress, At, stores
  <2>3. CASE CommitProgress(p) /\ RevisionIsActive(p)
    <3>1. proc[p].pc = "progress" /\ proc[p].base = task.revision /\ task'.revision = task.revision + 1
      BY <2>3 DEF CommitProgress, RevisionIsActive, Doing, KernelInv, TypeInv
    <3> QED
      BY <1>1, <2>3, <3>1, WorkIs DEF Becomes
  <2>4. CASE BeginTools(p) \/ Replay(p) \/ (RecordPrepared(p) /\ lease = p) \/ Execute(p) \/ Refused(p)
             \/ SaveResult(p) \/ (RecordCommitted(p) /\ lease = p)
    <3>1. proc[p].pc \notin {"progress", "progressed"}
      BY <2>4 DEF BeginTools, Replay, RecordPrepared, Execute, Refused, SaveResult, RecordCommitted, At, Doing
    <3>2. proc'[p].pc \in {"call", "ledger", "execute", "save", "commit"}
      BY <1>1, <2>4, WorkIs DEF Becomes, NextPc
    <3> QED
      BY <3>1, <3>2
  <2> QED
    BY <2>1, <2>2, <2>3, <2>4 DEF Works, Prepares, Commits
<1>5. saved.node \notin {"prepare-turn", "restore-task"} => task'.revision > 0
  BY <1>1, <1>2 DEF KernelInv, RevisionInv
<1>6. ASSUME Revision \notin disturbed, saved.node = "project-progress", saved.revision # task'.revision
      PROVE  \E q \in Process : lease' = q /\ proc'[q].pc = "progressed"
  <2>1. CASE task' = task
    <3>1. PICK q \in Process : lease = q /\ proc[q].pc = "progressed"
      BY <1>6, <2>1 DEF KernelInv, RevisionInv
    <3> QED
      BY <1>1, <1>4, <3>1
  <2>2. CASE task' # task
    <3>1. lease = p /\ proc[p].pc \in {"ledger2", "progress"} /\ proc[p].run.node = "project-progress"
      BY <1>3, <1>6, <2>2, WorkKeepsEntries
    <3>2. proc[p].pc = "progress"
      BY <1>1, <3>1 DEF PhaseOf, ToolPc, CallPc
    <3> QED
      BY <1>1, <1>4, <3>1, <3>2
  <2> QED
    BY <2>1, <2>2
<1>7. ASSUME Revision \notin disturbed, NEW q \in Process, lease = q
      PROVE  /\ proc'[q].pc \in {"compacting", "ledger2", "progress"} => proc'[q].base = task'.revision
             /\ proc'[q].pc \in {"tools", "progressed"} => task'.revision = proc'[q].base + 1
  <2>1. CASE q = p
    BY <1>4, <2>1
  <2>2. CASE q # p
    <3>1. task' = task /\ proc'[q] = proc[q]
      BY <1>1, <1>3, <1>7, <2>2
    <3> QED
      BY <1>7, <3>1 DEF KernelInv, RevisionInv
  <2> QED
    BY <2>1, <2>2
<1> QED
  BY <1>1, <1>5, <1>6, <1>7 DEF RevisionInv

LEMMA WorkKeeps ==
  ASSUME KernelInv, NEW p \in Process, Works(p)
  PROVE  KernelInv'
<1>1. TypeInv /\ PhaseInv
  BY DEF KernelInv
<1> QED
  BY <1>1, WorkKeepsType, WorkKeepsPhase, WorkKeepsLease, WorkKeepsResults, WorkKeepsEffects, WorkKeepsAnswers,
     WorkKeepsLedger, WorkKeepsRan, WorkKeepsRevision DEF KernelInv

-----------------------------------------------------------------------------
(***************************************************************************)
(* A process compacts the history.                                         *)
(***************************************************************************)
\* What a compaction does, and what it leaves alone.
LEMMA CompactionIs ==
  ASSUME TypeInv, PhaseInv, NEW p \in Process, Compacts(p)
  PROVE  /\ proc' \in [Process -> ProcessRecord] /\ \A q \in Process : q # p => proc'[q] = proc[q]
         /\ proc'[p].run = proc[p].run /\ proc'[p].i = proc[p].i /\ proc'[p].effects = proc[p].effects
         /\ proc[p].run.node = "build-context"
         /\ UNCHANGED <<saved, lease, results, answers, faults, ran, disturbed>>
         /\ \/ /\ proc[p].pc = "running" /\ proc'[p].pc = "compacting" /\ task' = task
               /\ proc'[p].base = task.revision /\ proc'[p].ledger = task.ledger
            \/ /\ proc[p].pc = "compacting" /\ proc'[p].pc = "built" /\ proc[p].base = task.revision
               /\ task' = [revision |-> task.revision + 1, ledger |-> proc[p].ledger]
<1>1. proc \in [Process -> ProcessRecord] /\ proc[p] \in ProcessRecord
  BY DEF TypeInv
<1>2. /\ proc[p].i \in Nat /\ proc[p].base \in Nat /\ proc[p].ledger \in SUBSET Call
      /\ proc[p].effects \in SUBSET Id /\ task.revision \in Nat /\ task.ledger \in SUBSET Call
  BY <1>1 DEF TypeInv, ProcessRecord
<1>3. {"compacting", "built"} \subseteq {"stopped", "running"} \cup ToolPc \cup ProgressPc \cup BuildPc
  BY DEF BuildPc
<1>4. CASE BeginCompaction(p)
  <2>1. proc' = [proc EXCEPT ![p] = [proc[p] EXCEPT !.pc = "compacting", !.i = proc[p].i, !.base = task.revision,
                                       !.ledger = task.ledger, !.effects = proc[p].effects]]
    BY <1>1, <1>4 DEF BeginCompaction, ProcessRecord
  <2>2. Becomes(p, "compacting", proc[p].i, task.revision, task.ledger, proc[p].effects)
    BY <1>2, <1>3, <2>1, BecomesOf
  <2> QED
    BY <1>4, <2>2 DEF Becomes, BeginCompaction, At, stores, history
<1>5. CASE CommitCompaction(p) /\ RevisionIsActive(p)
  <2>1. proc' = [proc EXCEPT ![p] = [proc[p] EXCEPT !.pc = "built", !.i = proc[p].i, !.base = proc[p].base,
                                       !.ledger = proc[p].ledger, !.effects = proc[p].effects]]
    BY <1>1, <1>5 DEF CommitCompaction, ProcessRecord
  <2>2. Becomes(p, "built", proc[p].i, proc[p].base, proc[p].ledger, proc[p].effects)
    BY <1>2, <1>3, <2>1, BecomesOf
  <2>3. proc[p].pc = "compacting" /\ proc[p].run.node = "build-context"
    BY <1>5 DEF CommitCompaction, Doing, PhaseInv, PhaseOf, BuildPc
  <2> QED
    BY <1>5, <2>2, <2>3 DEF Becomes, CommitCompaction, RevisionIsActive, history
<1> QED
  BY <1>4, <1>5 DEF Compacts

LEMMA CompactionKeeps ==
  ASSUME KernelInv, NEW p \in Process, Compacts(p)
  PROVE  KernelInv'
<1>1. /\ proc' \in [Process -> ProcessRecord] /\ \A q \in Process : q # p => proc'[q] = proc[q]
      /\ proc'[p].run = proc[p].run /\ proc'[p].i = proc[p].i /\ proc'[p].effects = proc[p].effects
      /\ proc[p].run.node = "build-context"
      /\ UNCHANGED <<saved, lease, results, answers, faults, ran, disturbed>>
      /\ \/ /\ proc[p].pc = "running" /\ proc'[p].pc = "compacting" /\ task' = task
            /\ proc'[p].base = task.revision /\ proc'[p].ledger = task.ledger
         \/ /\ proc[p].pc = "compacting" /\ proc'[p].pc = "built" /\ proc[p].base = task.revision
            /\ task' = [revision |-> task.revision + 1, ledger |-> proc[p].ledger]
  BY CompactionIs DEF KernelInv
<1>2. /\ task \in [revision : Nat, ledger : SUBSET Call] /\ task' \in [revision : Nat, ledger : SUBSET Call]
      /\ proc[p].ledger \subseteq Call /\ \A q \in Process : proc[q].base \in Nat /\ proc'[q].run = proc[q].run
  <2>1. task \in [revision : Nat, ledger : SUBSET Call] /\ \A q \in Process : proc[q] \in ProcessRecord
    BY DEF KernelInv, TypeInv
  <2>2. proc[p].ledger \subseteq Call /\ \A q \in Process : proc[q].base \in Nat
    BY <2>1 DEF ProcessRecord
  <2> QED
    BY <1>1, <2>1, <2>2
<1>3. task' = task \/ (task'.revision = task.revision + 1 /\ Revision \in Work(p))
  BY <1>1 DEF Work, Run
<1>4. \A c \in task.ledger : IsListed(c, task'.ledger)
  BY <1>1 DEF KernelInv, LedgerInv, LedgerOf, IsListed
<1>5. TypeInv'
  BY <1>1, <1>2 DEF KernelInv, TypeInv
<1>6. PhaseInv'
  <2>1. PhaseOf(p)'
    BY <1>1 DEF KernelInv, PhaseInv, PhaseOf, ToolPc, CallPc, ProgressPc, BuildPc
  <2>2. ASSUME NEW q \in Process, q # p
        PROVE  PhaseOf(q)'
    BY <1>1, <2>2 DEF KernelInv, PhaseInv, PhaseOf
  <2> QED
    BY <1>1, <2>1, <2>2 DEF KernelInv, PhaseInv
<1>7. LeaseInv' /\ OrderInv'
  <2>1. ASSUME NEW q \in Process
        PROVE  Work(q)' = Work(q) /\ (proc'[q].pc = "stopped" <=> proc[q].pc = "stopped")
    <3>1. proc'[q].run = proc[q].run
      BY <1>2
    <3>2. proc'[q].pc = "stopped" <=> proc[q].pc = "stopped"
      BY <1>1
    <3> QED
      BY <3>1, <3>2 DEF Work, Run
  <2> QED
    BY <1>1, <1>2, <2>1 DEF KernelInv, LeaseInv, OrderInv
<1>8. ResultInv' /\ AnswersMatchUnlessIdReused'
  <2>1. \A q \in Process : proc'[q].effects = proc[q].effects
    BY <1>1
  <2> QED
    BY <1>1, <1>2, <2>1 DEF KernelInv, ResultInv, AnswersMatchUnlessIdReused
<1>9. EffectInv'
  <2>1. EffectOf(p)'
    BY <1>1 DEF EffectOf, ToolPc, CallPc
  <2>2. ASSUME NEW q \in Process, q # p
        PROVE  EffectOf(q)'
    <3>1. EffectOf(q) /\ proc'[q] = proc[q] /\ results' = results
      BY <1>1, <2>2 DEF KernelInv, EffectInv
    <3> QED
      BY <3>1, EffectStays
  <2> QED
    BY <2>1, <2>2 DEF EffectInv
<1>10. LedgerInv'
  <2>1. ASSUME NEW run, Accounted(run)
        PROVE  \A j \in DOMAIN run.calls :
                 (\E a \in answers' : a[1] = run.calls[j]) /\ (\E d \in task'.ledger : d.id = run.calls[j].id)
    BY <1>1, <1>4, <2>1 DEF Accounted, IsAnswered, IsListed
  <2>2. saved.node \in {"project-progress", "build-context", "invoke-model"} => Accounted(saved)'
    BY <1>1, <2>1 DEF KernelInv, LedgerInv, Accounted, IsAnswered, IsListed
  <2>3. LedgerOf(p)'
    BY <1>1, <1>2 DEF LedgerOf, IsListed, ToolPc, CallPc
  <2>4. ASSUME NEW q \in Process, q # p
        PROVE  LedgerOf(q)'
    <3>1. LedgerOf(q) /\ proc'[q] = proc[q]
      BY <1>1, <2>4 DEF KernelInv, LedgerInv
    <3>2. proc[q].pc = "tools" => Accounted(proc[q].run)'
      BY <2>1, <3>1 DEF LedgerOf, Accounted, IsAnswered, IsListed
    <3>3. proc[q].base <= task.revision =>
            proc[q].base <= task'.revision /\ (proc[q].base = task'.revision => task' = task)
      BY <1>2, <1>3
    <3> QED
      BY <1>1, <3>1, <3>2, <3>3 DEF LedgerOf, IsAnswered, IsListed
  <2> QED
    BY <1>1, <2>2, <2>3, <2>4 DEF LedgerInv
<1>11. RanInv'
  <2> SUFFICES ASSUME NEW c \in Call \ disturbed, ran[c] # 0
               PROVE  ran[c] = 1
                      /\ (IsPast(c) \/ \E q \in Process : lease = q /\ proc'[q].pc \in ToolPc /\ c \in Executed(q)')
    BY <1>1 DEF RanInv, IsPast
  <2>1. ran[c] = 1 /\ (IsPast(c) \/ \E q \in Process : lease = q /\ proc[q].pc \in ToolPc /\ c \in Executed(q))
    BY DEF KernelInv, RanInv
  <2>2. ASSUME NEW q \in Process, lease = q, proc[q].pc \in ToolPc, c \in Executed(q)
        PROVE  proc'[q].pc \in ToolPc /\ c \in Executed(q)'
    BY <1>1, <2>2 DEF Executed, ToolPc, CallPc
  <2> QED
    BY <2>1, <2>2
<1>12. RevisionInv'
  <2>1. saved.node \notin {"prepare-turn", "restore-task"} => task'.revision > 0
    BY <1>2, <1>3 DEF KernelInv, RevisionInv
  <2>2. ASSUME task' # task, Revision \notin disturbed
        PROVE  lease = p /\ proc[p].run = saved
    BY <1>1, <1>3, <2>2 DEF KernelInv, LeaseInv
  <2>3. ASSUME Revision \notin disturbed, saved.node = "project-progress", saved.revision # task'.revision
        PROVE  \E q \in Process : lease = q /\ proc'[q].pc = "progressed"
    <3>1. task' = task
      BY <1>1, <2>2, <2>3
    <3> QED
      BY <1>1, <2>3, <3>1 DEF KernelInv, RevisionInv
  <2>4. ASSUME Revision \notin disturbed, NEW q \in Process, lease = q
        PROVE  /\ proc'[q].pc \in {"compacting", "ledger2", "progress"} => proc'[q].base = task'.revision
               /\ proc'[q].pc \in {"tools", "progressed"} => task'.revision = proc'[q].base + 1
    <3>1. CASE q = p
      BY <1>1, <3>1
    <3>2. CASE q # p
      <4>1. task' = task /\ proc'[q] = proc[q]
        BY <1>1, <2>2, <2>4, <3>2
      <4> QED
        BY <2>4, <4>1 DEF KernelInv, RevisionInv
    <3> QED
      BY <3>1, <3>2
  <2> QED
    BY <1>1, <2>1, <2>3, <2>4 DEF RevisionInv
<1> QED
  BY <1>5, <1>6, <1>7, <1>8, <1>9, <1>10, <1>11, <1>12 DEF KernelInv

-----------------------------------------------------------------------------
(***************************************************************************)
(* The theorems.                                                           *)
(***************************************************************************)
LEMMA KernelStart ==
  ASSUME Init
  PROVE  KernelInv
<1>1. /\ saved = Fresh /\ lease = "free" /\ \A p \in Process : proc[p] = Stopped /\ lease # p
      /\ task = [revision |-> 0, ledger |-> {}] /\ answers = {}
      /\ \A k \in Id : results[k] = NoResult
      /\ \A c \in Call : ran[c] = 0
  BY KernelAssumption DEF Init
<1>2. TypeInv
  <2>1. saved \in RunRecord /\ lease \in Process \cup {"free"} /\ proc \in [Process -> ProcessRecord]
    BY FreshShape DEF Init
  <2>2. task \in [revision : Nat, ledger : SUBSET Call] /\ answers \subseteq Call \X (Call \cup {NoResult})
    BY <1>1
  <2>3. results \in [Id -> Call \cup {NoResult}] /\ ran \in [Call -> Nat]
    BY DEF Init
  <2>4. faults \in 0 .. MaxFaults
    BY KernelAssumption DEF Init
  <2> QED
    BY <2>1, <2>2, <2>3, <2>4 DEF TypeInv
<1>3. PhaseInv
  BY <1>1, FreshShape DEF PhaseInv, PhaseOf, ToolPc, CallPc, ProgressPc, BuildPc
<1>4. LeaseInv
  BY <1>1, FreshShape DEF LeaseInv
<1>5. OrderInv
  <2>1. Before(Fresh, Fresh)
    <3>1. Fresh.steps = 0
      BY FreshShape
    <3> QED
      BY <3>1 DEF Before
  <2>2. \A p \in Process : proc[p].run = saved /\ saved = Fresh
    BY <1>1, FreshShape
  <2> QED
    BY <2>1, <2>2 DEF OrderInv
<1>6. ResultInv
  BY <1>1, FreshShape DEF ResultInv
<1>7. EffectInv
  BY <1>1, FreshShape DEF EffectInv, EffectOf, ToolPc, CallPc
<1>8. AnswersMatchUnlessIdReused
  BY <1>1 DEF AnswersMatchUnlessIdReused
<1>9. LedgerInv
  BY <1>1, FreshShape DEF LedgerInv, LedgerOf, ToolPc, CallPc
<1>10. RanInv
  BY <1>1 DEF RanInv
<1>11. RevisionInv
  BY <1>1, FreshShape DEF RevisionInv
<1> QED
  BY <1>2, <1>3, <1>4, <1>5, <1>6, <1>7, <1>8, <1>9, <1>10, <1>11 DEF KernelInv

LEMMA KernelStep ==
  ASSUME KernelInv, [Next]_vars
  PROVE  KernelInv'
<1>1. ASSUME NEW p \in Process, Start(p) \/ Step(p) \/ Crash(p) \/ LeaseLapses(p)
      PROVE  KernelInv'
  <2>1. TypeInv /\ PhaseInv /\ EffectInv
    BY DEF KernelInv
  <2> QED
    BY <1>1, <2>1, StepKinds, StartKeeps, LapseKeeps, HaltsKeep, WorkKeeps, CompactionKeeps, AdvancesKeep
<1>2. CASE UNCHANGED vars
  <2> USE <1>2 DEF vars, KernelInv
  <2>1. TypeInv' /\ LeaseInv' /\ OrderInv' /\ ResultInv' /\ AnswersMatchUnlessIdReused'
    BY DEF TypeInv, LeaseInv, Work, Run, OrderInv, ResultInv, AnswersMatchUnlessIdReused
  <2>2. PhaseInv'
    BY DEF PhaseInv, PhaseOf
  <2>3. EffectInv'
    BY EffectStays DEF EffectInv
  <2>4. LedgerInv'
    BY DEF LedgerInv, LedgerOf, Accounted, IsAnswered, IsListed
  <2>5. RanInv'
    BY DEF RanInv, IsPast, Executed
  <2>6. RevisionInv'
    BY DEF RevisionInv
  <2> QED
    BY <2>1, <2>2, <2>3, <2>4, <2>5, <2>6
<1> QED
  BY <1>1, <1>2 DEF Next

LEMMA KernelIsInvariant == Spec => []KernelInv
<1> QED
  BY KernelStart, KernelStep, PTL DEF Spec

LEMMA KernelAccounts ==
  ASSUME KernelInv
  PROVE  CallsAreAccountedFor
<1>1. TypeOK
  <2>1. \A run \in {saved} \cup {proc[p].run : p \in Process} : run \in RunRecord
    BY DEF KernelInv, TypeInv, ProcessRecord
  <2>2. ASSUME NEW run \in RunRecord, NEW i \in DOMAIN run.calls
        PROVE  run.calls[i] \in Call
    <3>1. run.calls \in Seq(Call)
      BY DEF RunRecord
    <3> QED
      BY <3>1, LenProperties, ElementOfSeq
  <2>3. task.revision \in Nat /\ task.ledger \subseteq Call
    BY DEF KernelInv, TypeInv
  <2> QED
    BY <2>1, <2>2, <2>3 DEF KernelInv, TypeInv, TypeOK, RunRecord
<1>2. RanTwiceOnlyIfDisturbed
  BY DEF KernelInv, RanInv, RanTwiceOnlyIfDisturbed
<1>3. ToolsAreAccountedFor
  BY DEF KernelInv, LedgerInv, Accounted, IsAnswered, IsListed, ToolsAreAccountedFor
<1>4. ConflictOnlyIfDisturbed
  BY DEF KernelInv, LeaseInv, RevisionInv, ConflictOnlyIfDisturbed, At, Run
<1> QED
  BY <1>1, <1>2, <1>3, <1>4 DEF KernelInv, CallsAreAccountedFor

\* Whichever processes crash or lose the lease: a call runs a second time, and a task
\* revision conflicts, only if a process was disturbed at that work; an answer is that of
\* the call, or of an earlier one with its id; and past commit-tools (production-graph.ts)
\* every call of the proposal has its answer and its entry in the ledger.
THEOREM Accounts == Spec => []CallsAreAccountedFor
<1> QED
  BY KernelIsInvariant, KernelAccounts, PTL

LEMMA StepKeepsCommits ==
  ASSUME KernelInv, [Next]_vars
  PROVE  /\ \A c \in task.ledger : \E d \in task'.ledger : d.id = c.id
         /\ saved.outcome # "none" => saved' = saved
<1>1. ASSUME NEW p \in Process, Start(p) \/ Step(p) \/ Crash(p) \/ LeaseLapses(p)
      PROVE  /\ \A c \in task.ledger : \E d \in task'.ledger : d.id = c.id
             /\ saved.outcome # "none" => saved' = saved
  <2>1. TypeInv /\ PhaseInv /\ EffectInv /\ task \in [revision : Nat, ledger : SUBSET Call]
    BY DEF KernelInv, TypeInv
  <2>2. CASE Start(p) \/ LeaseLapses(p)
    BY <2>2 DEF Start, LeaseLapses, stores
  <2>3. CASE Halts(p)
    BY <2>1, <2>3 DEF Halts
  <2>4. CASE Works(p)
    <3>1. saved' = saved
      BY <2>1, <2>4, WorkMoves
    <3> QED
      BY <2>4, <3>1, WorkKeepsEntries DEF IsListed
  <2>5. CASE \E s : Advances(p, s)
    <3>1. saved.outcome = "none"
      BY <2>5 DEF Advances, KernelInv, LeaseInv
    <3>2. task'.ledger = task.ledger
      BY <2>1, <2>5 DEF Advances, Restores
    <3> QED
      BY <3>1, <3>2
  <2>6. CASE Compacts(p)
    BY <2>1, <2>6, CompactionIs DEF KernelInv, LedgerInv, LedgerOf, IsListed
  <2> QED
    BY <1>1, <2>1, <2>2, <2>3, <2>4, <2>5, <2>6, StepKinds
<1>2. CASE UNCHANGED vars
  BY <1>2 DEF vars, stores
<1> QED
  BY <1>1, <1>2 DEF Next

\* No process takes out of the ledger what another has committed, and one that works on
\* without its lease does not continue a run that is over.
THEOREM Kept == Spec => CommitsAreKept
<1>1. KernelInv /\ [Next]_vars => [\A c \in task.ledger : \E d \in task'.ledger : d.id = c.id]_vars
  BY StepKeepsCommits
<1>2. KernelInv /\ [Next]_vars => [saved.outcome # "none" => saved' = saved]_vars
  BY StepKeepsCommits
<1> QED
  BY <1>1, <1>2, KernelIsInvariant, PTL DEF Spec, CommitsAreKept, LedgerIsKept, EndedRunIsFinal
==============================================================================
