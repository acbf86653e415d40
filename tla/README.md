# QiongQi in TLA+

A verification development kept beside the source of QiongQi, a multi-agent
framework in TypeScript. The modules model the parts of the system in which
several processes, requests or callbacks share state: locks, leases, event
logs, run records, mailboxes, threads and their turns, the step loop with its
tool calls, the tools themselves, and the services beside them. TLC checks the modules on small
instances; TLAPS proves theorems about seventeen of them for all values of their
constants, in eight modules of proofs.

Paths such as `file-lock.ts:36` are relative to the package that owns the
file; `PROJECT.json` gives every full path, and for every definition the lines
it stands for.

1. The system  2. The plan  3. The modules  4. The runs  5. Findings
6. The proofs  7. What is not modelled

## 1. The system

QiongQi serves agent turns over HTTP and SSE. A turn runs in one of three
modes: `classic` (an in-memory step loop), `kernel_v3` (the default: a durable,
replayable graph run under a lease) and `evented_v2` (several agents on a
declarative graph that hand work to one another by way of a mailbox). A server
process, and any number of worker processes, share one data directory.

| Component | State | Operations | Hard parts | What makes it correct | Module |
| --- | --- | --- | --- | --- | --- |
| Inter-process lock, `file-lock.ts` | a directory `<path>.lock` with `owner.json` (pid) | `withFileLock`: mkdir, write owner, work, rm -rf; reclaim of a stale lock | crashes between mkdir and owner.json, reclaiming races, pid reuse, timeouts | operations on a path do not overlap; a dead process's lock goes away; every call returns | FileLock |
| Run state and lease store, `file-run-state-store.ts` | lease file, epoch file, snapshot | acquire, renew, release, save, load | two-file update, expiry between check and write, restarts | one valid fence; an epoch names one fence; snapshots never go back to an older lease | RunLease |
| Run event log, `file-run-event-store.ts` | one JSONL file per run | append (fenced), listAfter | stale writers, duplicate sequence numbers | a gapless log written by one lease holder at a time | RuntimeKernel |
| RuntimeKernel, `runtime-kernel.ts`, middleware | run state, cursor, pending hook | `run(identity)`; hooks before, after and around nodes | crash between log and snapshot, replay, lease lost under a handler | each step once; snapshot = a prefix of the log; final outcomes are final | RuntimeKernel, RunSpec |
| Node handlers and effects of a kernel_v3 turn, `kernel-v3-node-handlers.ts`, `effect-commit.ts`, `tool-runtime-v3.ts` | calls, effects, results, task revision, ledger | the nodes of the production graph | crash between tool, result and commit; replay policy | tools run again only after a disturbance; every call is answered | KernelTurn |
| evented_v2 runtime, `evented-v2-multi-agent-runtime.ts`, `multi-agent-graph.ts`, its stores | run record, mailbox, outbox, workers | start, handoff, completions, flush; workers; reconciler | crash between run, mailbox and mark; claim and lease expiry; late workers | mailbox and run agree; one result per message; nothing gets stuck | AgentGraph, EventedRuntime |
| Rollout controller, `runtime-rollout.ts` | window of outcomes, cooldown | decide, record | stale window after the cooldown | falls back when, and only as long as, it should | Rollout |
| Turn loops, `loop-runner.ts`, `turn-orchestrator.ts`, `tool-call-coordinator.ts`, gates, safeguards | step, calls of a reply, guard window, pending requests | build, stream, decide, dispatch, approve, answer, abort | batches, late decisions, rejected calls, retries | the next prompt tells each call's result; repeats are bounded; only allowed tools start; the loop ends | ToolLoop |
| Model client, `model-compat-client.ts` | frames, pieces of calls, retries | one request in three endpoint formats | pieces out of order, late ids, calls without a name or in the text, truncation, timeouts | the calls heard are the calls made; the stream ends | ModelStream |
| Turn and thread services, `turn-service.ts`, `thread-service.ts` | thread record, in-flight turns, steering buffers | start, steer, interrupt, finish, edit, delete | interleaving at every await | one end per turn; no edit is lost | ThreadTurns |
| Prompt building and compaction, `prompt-builder.ts`, `context-compactor.ts`, `model-history-repair.ts` | the items of a thread | heal, cut, compact, make messages; POST compact; discard | several writers of one file | well-formed prompts that tell what the thread holds | SessionHistory |
| Event recorder and bus, `file-session-store.ts` | next seq per thread, subscribers, event file | record, publish, replay, compact | publish before persist, seq after restart | replay sees each event once and in order | EventStream |
| Thread store, `hybrid-thread-store.ts` | metadata file, SQLite index | upsert, get, delete, list, backfill | two indexes, one of which may fail | lists show what is stored | HybridThreads |
| Task state store, `file-task-state-store.ts`, `compaction-transaction.ts` | revisions, active pointer, scope lock | prepare, commit, abort | overlapping writers, seized lock | pointer, revisions and session agree | TaskRevisions |
| Delegation, `delegation-runtime.ts`, `child-agent-executor.ts` | running count, child-run records | runChild, abort | limit checked before an await | limits hold; records tell the end | Delegation |
| A2A task store and routes, `a2a-task-store.ts`, `a2a.ts` | task records | submit, cancel, subscribe, upsert | read, check, write by several callers | terminal statuses stay | A2ATasks |
| bash tool, `builtin-bash-tool.ts` | a session: shell, output, status | run, poll, write, stop | exits, stops and timeouts while calls wait | callers are told what became of the command | BashSessions |
| Usage, `usage-counter.ts`, `usage-service.ts`, `routes/usage.ts` | total per thread, usage events, ledger | count, record, compact, seed, report | events that carry totals, two stores, restarts | all usage is reported, and once | UsageLedger |
| MCP connections, `mcp-tool-provider.ts` | client and catalog of each provider | call, list, reconnect, refresh, shut down | connections that break under a call, providers replaced under one | no connection is left open; a call runs once, or twice after a failure | McpConnections |
| Output of tools, `output-accumulator.ts`, `truncate.ts`, `builtin-read-tool.ts` | tail of the output, counts, temporary file | append, snapshot, persist, read a page | limits met in the middle of a line, trimming, decoding | the end is shown, the file has everything, pages join | CommandOutput, TextLines |
| read, edit and write, `edit-diff.ts`, `read-tracker.ts`, `builtin-file-tools.ts` | file, read records of the threads | read, edit, write | a file that others change between read, approval and write; fuzzy matches | only what was read is edited, and only that | FileEdits |
| ls, find, grep, `builtin-search-tools.ts` | the walk and its answer | walk, ask fd or ripgrep | a workspace that changes, limits | answers are true, and complete unless they say otherwise | FileSearch |
| Todos and plans, `todos.ts`, `thread-service.ts`, `create-plan-tool.ts`, `todo-tools.ts` | the todos of a thread, plan files | create, refine, sync, tick, replace, clear | a list that is read, patched into a file and written back; lines found by text or place | todos stand for the lines of the plan, and tick only those | PlanTodos |
| Skills, `skill-drafts.ts`, `qiongqi-config-store.ts`, `plugin-host.ts` | drafts, directories of skills, configuration, owners' settings, plugins | upload, analyze, generate, install, reload | several files without a lock; requests that overlap | an installed skill is whole, in the configuration, and loaded | SkillInstall |
| File mutation queue, `file-mutation-queue.ts` | queues by key, lock directories | withFileMutationQueue | links, crashes, locks found dead | one editor of a file | FileMutations |
| Worker pool, `agent-cli.ts` | workers, pauses, restart counts | spawn, restart, shut down | shutdown during a pause | each shard has its worker; none survives the pool | WorkerPool |
| HTTP routing, other tools, caches, memory, the rest of the CLI | mostly none | I/O | | | |

How they interact: TurnService starts a turn and hands it to the classic loop,
to KernelV3TurnRunner or, by the decision of the rollout controller, to
evented_v2. RuntimeKernel calls its lease, snapshot and event stores and the
node handlers, and shares nothing else with other processes. The evented_v2
runtimes of several processes meet only in the multi-agent stores. Multi-agent
and run stores call `withFileLock` around each read-modify-write; the task
state store, the file tools and the thread services have queues or locks of
their own, and the A2A store, the session's items, the configuration and the skills have none.

`PROJECT.json` lists the hazards of this code, each at its line, with the
properties about it, or the reason why none is.

## 2. The plan

In the order of what depends on what, and of what would hurt most. Done:

1. `FileLock`, the lock under the stores, and `RunLease`, the fenced lease over
   it, with proofs.
2. `AgentGraph`, `EventedRuntime`, the evented_v2 protocol.
3. `RuntimeKernel`, run, log, replay and snapshot, and `RunSpec`, the abstract
   run it implements; `KernelTurn`, the production graph with its effects.
4. `EventStream`, `ThreadTurns`, `ToolLoop`, the in-process interleavings of a
   turn; steps are the pieces between two awaits.
5. The services: `Delegation`, `A2ATasks`, `Rollout`, `ModelStream`,
   `BashSessions`, `FileMutations`, `WorkerPool`.
6. The stores: `HybridThreads`, `SessionHistory`, `TaskRevisions`, `UsageLedger`.
7. The tools: `McpConnections`, `CommandOutput`, `FileEdits`, `FileSearch`, and
   the skills, `SkillInstall`.
8. Proofs of the smaller machines, in `Services_proofs`: `Delegation`, `A2ATasks`,
   `FileMutations`, `WorkerPool`, `TaskRevisions`, `BashSessions`, `HybridThreads`; and of
   `FileLock`, `McpConnections` and `ModelStream`, which deal with what is outside the process, in
   `Outside_proofs`.
9. `RuntimeKernel_proofs`: `LogTellsTheRun`, `FinalUnlessOvertaken`, and that
   `RuntimeKernel` implements `RunSpec`.
10. `EventStream_proofs`: `RecordedOnceInOrder`, `MissedOnlyInFlight` and
   `LostOnlyByCompaction`.
11. `EventedRuntime_proofs`: `RunAndMailboxAgree` and `EndsAreStable`.
12. `Turns_proofs`: `QuietThreadIsSettled` and `EndedStaysEnded` of `ThreadTurns`,
    `EveryCallIsAnswered` and `StartsAreAllowed` of `ToolLoop`;
    `KernelTurn_proofs`: `CallsAreAccountedFor` and `CommitsAreKept`.

Left:

13. `HandoffSpec`, an abstract message (asked, queued, taken, over), implemented
    by `EventedRuntime`; two evented runs that share a flush.

## 3. The modules

An operation that one lock or one `await`-free stretch of code makes atomic is
one action; two durable writes are two actions with a possible crash between
them. In the modules a definition whose comment does not relate it to the code
directly carries the name it has there.

### FileLock

One path. A client is one call of `withFileLock` and belongs to a process; when
the process dies its calls die with it, and its clients may call again in its
next life. `dir` is the lock directory, with the call that made it (which the
code cannot see) and the life of the process that `owner.json` names (which the
code sees as a pid).

| Action | Code |
| --- | --- |
| `Start`, `MakeDir`, `WriteOwner`, `CleanUp`, `Exit` | `withFileLock` 46-67 |
| `Judge`, `Reclaim` | `reclaimIfStale` 20-43; reading and removing are two steps |
| `TimeOut` | line 71, after a minute |
| `Age` | the ten minutes after which a directory without owner is stale |
| `Crash`, `Restart` | a process dies, its pid is free, and comes back |

Two assumptions on time are built into guards, and named in the module: a live
client writes `owner.json` within ten minutes of its mkdir, and nobody waits a
whole minute for a lock that is being worked under.

### RunLease

One run identity. The file lock is a variable here, taken to exclude (what
FileLock shows, up to the race of section 5). `fence` is what a process works
under, `issued` every fence ever returned, `now` a clock. `AcquireWriteLease`
and `AcquirePersistEpoch` are the two writes of `acquire`; `SaveCheckFence` and
`SaveWriteSnapshot` the two halves of `save`, between which a lease may expire.
`RestartKeepsHolder` says whether a process that died comes back with the same
holder id; ids are `qiongqi:<pid>`, so in a container they do.

### AgentGraph and EventedRuntime

`AgentGraph` is the graph and its interpreter, as operators on a run record:
`enterGraphNode` passes retry and join nodes (a fold instead of the recursion)
and settles at the node it ends at. `Leads(m, n)` says that edges lead from `m`
to `n`, as: every set with `m` that is closed under edges has `n`. `EventedRuntime`
is one run with its mailbox messages; `todo` names the intents a flush has still to
publish by their places in the outbox, where they stay for good. A mutation of the run goes, per runtime, through the labels

    idle -> update -> load -> flush <-> mark -> release -> idle

| Label | Action | Code |
| --- | --- | --- |
| idle | `Handoff`, `CompleteDirectly`, `CompleteExternal`, `CompleteWork`, `Reconcile` | public calls; `withRunLock`, `withRunMutationLease` |
| update | `Update` | `runs.update` with its callback: the graph moves, an event and an intent are written together |
| load | `Load` | `flushPendingOutboxUnlocked` reads what is pending |
| flush | `PublishEnqueue`, `PublishComplete`, `RejectComplete` | `mailbox.enqueue`, `mailbox.complete` |
| mark | `Mark` | `markOutboxPublished`, a fenced update |
| release | `Release` | release of the run lease |

Workers `Claim` the oldest claimable message and later `CompleteWork`. Faults
are `Crash`, `LeaseLapses`, `ClaimLapses` and `HandlerFails`. The run lease is
its holder and whether it has expired: that one fence is valid at a time is
the theorem of RunLease. Messages are identified by task, since the
idempotency key hashes source, target and prompt.

### RuntimeKernel

One run and the processes that call `run` for it. An event's sequence number
is its position in `log`. Labels follow `run` from top to bottom:

| Label | Action | Code of `runtime-kernel.ts` |
| --- | --- | --- |
| idle, load | `Acquire`, `Load` | 174-198 |
| replay | `ReplayLog` | `replayAfterCheckpoint`, 547-606 |
| replayed | `FinishReplayed`, `Resume` | 200-239 |
| beforeRun, beforeNode | `HookPasses`, `HookEnds` | 241-280 |
| node | `StartNextNode` | 254-263 |
| handler | `HandlerReturns`, `HandlerThrows` | 284-316 |
| completedNode, replayedNode | `AfterHookReturns` | `commitAfterMiddleware`, 608-648 |
| append, appendReplayed | `AppendEvent` | `recordEvent` and the store's `append`; then the reduction of the event |
| checkpoint, afterRun, release | `Checkpoint`, `AfterRun`, `Release` | 324-333, 363-366 |
| any | `LoseLease`, `HookThrows`, `Crash` | the catch of 336-362 |

`assertLeaseHealthy` is the guard `FenceIsValid` of the step after it, with
`LoseLease` for its failure; a renewal may also fail although the lease is
good. Commands that only carry data (budgets, node data) are left out; jumps
and terminations are kept, since they steer. Loop counters are bounded by
`MaxSteps`: from that step on a handler returns an outcome.

`RunSpec` is what all of this amounts to: one walk along the edges, or to where
a hook jumps, that ends once, with returns of that outcome only. With the log
as the run's history `RuntimeKernel` implements it (`ProcessesRunAsOne`): a
completion in the log is a step, everything else stutters. A node that ends the run
still has its hook run, which may name another outcome; `reduceAfterMiddleware`
ignores it, so the first outcome in the log is the one that counts
(`CommittedOutcome`). No hook of the source ends a run with the retryable failure of
`run`'s catch, which `KernelOutcomeAssumption` says.

### KernelTurn

One turn on the production graph, with what its node handlers do. RuntimeKernel
has the log and the checkpoints; here `saved` is the state a process continues
from, that of the last `node.completed`, and what a handler did before it is
done again unless a store remembers it: results of tools (`results`), applied
items (`answers`), the task state with its revision and ledger (`task`).
`NodeStep` is the nodes up to the model's proposal, `ToolStep` the steps of
commit-tools for each call (look up, prepare, execute, save the result, record,
then the ledger and its revision), `ProgressStep` the projection of the task,
`CompactionStep` the compaction transaction of build-context, which commits a revision
of its own (what it does to the items and to a failed commit is TaskRevisions).
`Crash` and `LeaseLapses` come between any two; a process whose lease has
lapsed goes on until the log refuses its event. `disturbed` has the calls, and the
revision, that a process was at work on when that happened.

### EventStream

The events of one thread from `RuntimeEventRecorder` to a client.

| Actor | Actions | Code |
| --- | --- | --- |
| recorder | `Record`, `RecordOnce`, `FindExisting`, `ReadHighest`, `Publish`, `AppendEvent` | `runtime-event-recorder.ts`, the pieces between its awaits |
| compaction | `ReadForCompaction`, `Rewrite` | `file-session-store.ts`, after a usage event |
| client | `Connect`, `Subscribe`, `Heartbeat`, `Disconnect` | `routes/events.ts`: replay, then live |
| process | `Restart` | the counter and the bus are gone, the file is not |

Nothing keeps compactions of one thread apart (`file-session-store.ts:214`), and they take
several steps. `raced` has the events appended while one had read the file: it may drop
them, and one that read the file in between may put them back. `together` has the pairs
of events of which one was begun before the other was written.

### ThreadTurns

One thread record and everyone who writes it. `TurnService` queues its
mutations (`queue`, with one read and one write each); `ThreadService` and the
goal timer of the classic runner read and write directly (`direct`). `start`,
`run` and `intr` are the calls of startTurn, the runners and the calls of
interruptTurn. Every copy in memory remembers who wrote the record since it was
read, so `lost` tells what each write threw away. A tool may ask a person (`Ask`), for
an approval, which nothing but a decision ends, or for input, which an abort also
ends (`CancelInput`); nobody need answer.

### ToolLoop

The step loop of a turn in both runners. `pc` is the phase: `Check`, `Build`,
`StreamCall`, `Decide`, `Dispatch`, then the parallel batch (`Grow`, `Keep`,
`Dispatched`). A call of a reply goes through the tool host: `Prepare`,
`RequestApproval` or `RequestInput`, `Start`, `Return`. A person decides,
answers or aborts at any moment. A denied call leaves the item of its approval and no
result, and the repair of the history takes it out of the next prompt (`Told`). `recent` is the window of the repeat-loop guard,
as positions in `inspected`, the list of all calls it has looked at: the code's
array has the same calls in the same order.

### SessionHistory

The items of one thread, and the prompts of its turns. Pure operators go from
items to messages (`Repair`, `Effective`, `Summary`, `Messages`), as the code
does in the heal, the prompt builder, the compactor and the model client.
`Load`, `Heal`, `Compact`, `Ask` are a build; the answer, its calls and results
are appended by `StreamCall`, `EndStream`, `Result`; `BeginCompact`,
`FinishCompact` are the route that compacts, `Interrupt`, `FinishDiscard` an
interrupt that discards. `owed` is what was stored when a turn read the items;
`overtaken` what a write of the whole file did not know of. A summary `covers` what it tells,
`omits` what it had no line (`SummaryLines`: 4 first and 14 last of more than 20) or no room for
(`Fits`), and `forgets` what an earlier summary told and its clipped line does not; the last
message of the user and the last thing done are told in any case (`Resumption`).

### UsageLedger

The usage of one thread, in tokens. `Use` counts an answer in memory, with the
total so far; `Stamp`, `ReadHighest`, `AppendEvent`, `Sink` bring its event to the
thread's file and then to the ledger, `ReadForCompaction` and `Rewrite` keep one
event a day of what is old; `Restart` seeds the counter from the file. The
report is a pure operator on ledger and file: differences of totals in the
order of sequence numbers, by day and by model. `used` is what was really
spent, `forgotten` what no restart could know of.

### CommandOutput, FileEdits and FileSearch

`TextLines` is `split` and `join` at line feeds, for the first two. In
`CommandOutput` a text is a sequence of single bytes, fed to the accumulator in
chunks of every size; a snapshot is the truncated tail, and `Read` asks the
stored file for the page that the page before it named. `FileEdits` is one file
with two threads that read, edit and write it through the tool host: `ReadFile`,
`ObserveToolResult`, then `ValidateBeforeTool`, `Approved`, `Open` and `Store`,
with `Shell` changing the file at any moment. `Edited` is the replacement as the
code computes it (line endings, fuzzy match, overlaps, order); `Replaced` and
`EditIsExact` are its reference definition. `FileSearch` is the breadth-first
walk with its cap (`Walk`, `Look`), the answers of fd and ripgrep (`Ask`), and
`Change`, which takes files away and puts others there while it goes on.

### PlanTodos

A plan is the sequence of its task lines. `CreatePlan`, `ChooseName`, `WritePlan`
and `syncTodosFromPlan` are a call of create_plan and what follows it;
`WriteTodos`, `setTodos`, `patchPlanMarkdownForTodoStatusChanges` one of todo_write
or of the route; both end in `Upsert`, which writes the thread as it was read.
`Rewrite` is a person with an editor. `findExistingPlanTodo` and
`findExistingTodoForRaw` are the searches for the todo that a line, or a request,
is about. `past` keeps what got in the way: plans written by others (`stray`),
status a sync has kept (`kept`), todos with another text (`renamed`), twins
(`alike`), lists that met (`lost`), and names chosen at once (`met`).

### McpConnections and SkillInstall

In `McpConnections` a provider is one build of `buildMcpToolProviders`, a client
one connection. A call waits for its answer (`first`), may make another
connection (`creating`) and try again (`second`); refreshes build a provider
beside the one in use and then close it. A call begins at the provider its tool is of (`Begin`):
children keep the tools of the first one (`childToolHost`, built once), and a call
keeps the one it was resolved with while it waits for its approval, so that it may begin at
one that was replaced and closed (`late`). `entangled` says that a close or a
reconnect met another use of the same connection.

`SkillInstall` goes through the request handlers of the draft routes, await by
await: `Take`, `Save`; `Clear`, `Copy`, `WriteEntry`, `WriteManifest`; the config
store (`ReadFile`, `TakeIn`, `Tidy`, `WriteConfig`, `TakeOwn`); the settings of the
owner (`ReadSettings`, `SaveSettings`); and the plugin host (`Snapshot`, `Discover`,
`Load`). There is one work mode, in which enabled skills and the mode's own list
are one set; `Root` is in it when skills are enabled and the directory of the installed ones
is among the roots, as an install makes it and the defaults do not: without it nothing is
discovered (`Discoverable`). Discovery reads all skills in one step; removed ids, built-in
roots, the routes that disable skills and the reload of the skill runtime are left out.

### Services, stores and tools

Each is one service. They share no state with one another, so
`MCServices`, `MCStores`, `MCTools` and `MCEventStream` put them side by side: `part` says which one
a behaviour is about, and only that one takes steps. Some modules extend or are extended
with others, and name their specification for themselves (`PoolInit`, `PoolNext`, `PoolSpec`, ...). `MCEventedRuntime` does the
same with four runs of EventedRuntime, three of which share their variables.

| Module | One | Faults |
| --- | --- | --- |
| Delegation | parent thread with its calls of `runChild`, records, executor and gates | lost events, abort, restart |
| A2ATasks | task, its background turn, cancels, a subscriber | restart; reads during a write in place; two upserts at once |
| Rollout | controller with the turns it selected for | failing turns |
| ModelStream | request: posts with retries, frames of three endpoint formats or an answer in one piece, calls put together, calls found in the text | refusals, calls without a name, broken frames, silence, abort |
| BashSessions | session of the bash tool, its shell and the calls on it | timers at any moment, a shell deaf to the signal, abort, output while its file is closed, the end of the process |
| FileMutations | file, jobs of two processes, a link | crash |
| WorkerPool | pool with its shards | exits, shutdown at any moment |
| PlanTodos | thread, and the plans of its workspace | two calls at once, edits by others, aborts |
| HybridThreads | thread: metadata file and index row | index writes that fail, restart |
| TaskRevisions | task state with writers and compactions | a writer that dies, seized lock, conflicts |
| UsageLedger | thread with its recorders, file, ledger and reports | failed writes, restart, usage the counter does not see |
| McpConnections | server with its providers, calls and refreshes | lost answers, refused connections, aborts, shutdown |
| CommandOutput | output of a command and its reader | |
| FileEdits | file and two threads | writes of a shell |
| FileSearch | workspace and one search | changes during the search, failing ripgrep or fd |
| SkillInstall | four drafts, two ids, two requests at a time | settings that are refused, a config file to be tidied, requests in any order |

### Operators that are only substituted

Some definitions, named in the header of each module (`AcceptedFromAnyone`,
`ReclaimableWhenOwnerless`, ...), are plausible errors in the definition that
follows them. Nothing uses them. With one put in place of its neighbour the run
that checks the property must fail, which shows that the property depends on
that piece of the code.

## 4. The runs

| Run | Instance | Result | States |
| --- | --- | --- | --- |
| `file_lock` | 2 callers in a server, 1 in a worker, 1 crash each, new pids | passes | 42 482 |
| `run_lease` | 2 processes, 4 epochs, 5 ticks, 2 crashes each | passes | 37 234 |
| `evented` | 2 runtimes, 2 workers, 1 task, 3 faults of 4 kinds, with leases and without, 2 with an edge for failures; and every kind of node, retry limit 1, 1 crash | passes | 149 563 |
| `kernel_recovery` | 2 processes, looping graph, 2 faults of 5 kinds | passes | 519 969 |
| `kernel_turn` | 2 processes, calls of 2 ids, 3 steps, 1 recovery, 1 fault, compaction up to revision 3 | passes | 1 262 245 |
| `event_stream` | 2 recorders, 1 client, 3 events, 1 restart, 1 heartbeat, compaction; and 2 plans, 3 calls or edits, 2 at once | passes | 2 786 394 |
| `thread_turns` | 2 turns, an editor, an interrupt, a steer, deletion, 3 runners | passes | 596 369 |
| `tool_loop` | up to 3 calls of 4 tools, 2 steps, batches of 2, guard of 3 in 3 | passes | 601 122 |
| `services` | 7 services, each for itself | passes | 182 491 |
| `stores` | 4 stores, each for itself, and every file of up to 4 items | passes | 1 767 656 |
| `tools` | 4 kinds of tools and the skills, each for itself, and every edit of short texts | passes | 2 592 170 |
| `a2a_end_lost` | a task and one cancel, no crash | `EndIsKept` violated | |

What the passing runs show:

* **file_lock.** Two operations overlap only after a reclaimer has removed
  another directory than the one it judged (`ExclusiveUnlessReclaimRaced`). As
  long as nobody has crashed, no lock is removed under its owner and no call
  fails (`OrderlyWithoutCrash`). A lock left by a dead process goes away and
  every call returns (`LockComesFree`).
* **run_lease.** Epochs identify fences, one fence is valid at a time, and a
  save that lands late never replaces the snapshot of a newer lease.
* **evented.** Mailbox and run record agree in both directions in spite
  of crashes and late workers (`RunAndMailboxAgree`), and one result is recorded
  (`AcceptedOnce`). One situation alone blocks an outbox or a task for good: a
  result committed under a claim that has been taken over. Before that a task stays
  open only if the graph refuses its results again and again, as the default graph does
  those of a specialist that fails, or if no claim leases are configured, which is the
  default, and the worker that had the message is done with it without a result
  (`ProgressIsLostAsTold`, over the default graph with leases, the same without, and one
  with an edge for the failure). In these runs and in one of a graph with every kind of
  node, the agent a run
  waits for has an open agent run, retry nodes respect their limit, and messages
  that are over and a completed run stay as they are, even if the terminate node
  has an edge (`RunsEndForGood`, that is `EndsAreStable` of both).
* **kernel_recovery.** Each step of the graph is completed once in the log and
  from where the log had got to; the snapshot is where a
  beginning of the log leads, the process with the lease works with the state of
  the whole log, and an outcome returned as final is stored (`LogTellsTheRun`);
  a terminal snapshot stays so, except a failure saved on a snapshot the log had
  overtaken (`FinalUnlessOvertaken`); and all processes together do what
  `RunSpec` says of one (`ProcessesRunAsOne`).
* **kernel_turn.** A tool runs a second time only if a process was disturbed at
  that proposal. Answers belong to their calls unless
  the model uses an id again in a later step, each executed call gets its ledger
  entry, task revisions conflict only after a disturbance
  (`CallsAreAccountedFor`); ledger entries and the end of the run are kept
  (`CommitsAreKept`); and every loop of the graph is bounded (`EveryRunStops`).
* **event_stream.** Unless something is appended under a compaction, two events share a
  seq only if they were recorded at once, and `recordOnce` leaves one event of its key
  (`RecordedOnceInOrder`), and a client
  misses only what was published before it subscribed and written after the
  file was read for it (`MissedOnlyInFlight`). The compaction of usage events
  loses only what is appended while it works (`LostOnlyByCompaction`). Todos have
  ids of their own and are about one plan, the boxes of the plan show them, a
  refined plan keeps the tasks it says again, an update ticks only the lines it
  is about, and a new plan takes a free name, up to what section 5 names
  (`TodosFollowThePlan`).
* **thread_turns.** Queued mutations never overwrite one another; what is left
  open, overwritten or buffered when nobody is at work is due to a direct write,
  a runner that did not finish its turn, or a steer that came before the turn
  had a controller (`QuietThreadIsSettled`). A turn that has ended runs again
  only if a copy is written that was read before somebody else wrote the record
  (`EndedStaysEnded`), and a turn ends, unless its runner waits for good for a person,
  who is asked for an approval or, in a turn nobody has interrupted, for input
  (`EveryTurnEnds`).
* **tool_loop.** Every call is closed before the model is asked again, also if a call of
  its batch is rejected; the prompt tells the results of exactly those whose first
  decision was not to deny them; and no tool is at work behind the turn
  (`EveryCallIsAnswered`). The guard stops the third equal call of a window, and
  no other; a gated tool starts only when its first decision allows it, none
  after an abort (`StartsAreAllowed`). The loop ends or waits for a
  person (`EndsOrWaits`).
* **services.** Seven questions, one per service, and one for all of them:
  - children: the count of running children is exact, the limits hold unless two
    calls pass the check at once, and records tell how a child ended, unless an
    event could not be recorded (`ChildrenAreAccountedFor`);
  - a task keeps its end if upserts do not overlap, and a cancelled task has its
    turn stopped (`TaskTellsItsEnd`);
  - the calls told of an answer are those the model made, whole, in each
    format, streamed or in one piece; those written into the text are told in order;
    and the reason to stop is told, with the exceptions of section 5
    (`StreamTellsItsCalls`);
  - status, exit and last output of a command agree with what became of it, and
    output throws only while the file of a long output is being closed
    (`CommandsEndAsTold`);
  - two jobs edit a file at once only under two names of it, or after a live lock
    was removed by one that had found a dead one there (`EditsAreExclusive`);
  - a shard has one worker, or a pause before the next; a worker that is left
    when the pool is over has been told to stop (`PoolKeepsItsWorkers`);
  - nobody waits for ever, but the caller of a child that asks a person, and a
    fallback of the rollout passes (`CallersAreReleased`).
* **stores.** Of every file of items, in whatever order, the prompt is well
  formed without the client's repair and leaves nothing out; and with two turns,
  steers, compactions and interrupts beside one another it has every message of
  the user and every answered call that was stored when the items were read,
  except what a write overtook and what a summary had no room for, which is never
  the last message of the user (`PromptsTellTheThread`). Lists show threads as
  they are stored or, after an index write failed or raced, do so again
  after a start (`ThreadIsListedAsStored`). The pointer of a task state names a
  revision that is there; a revision is committed once unless the lock was taken
  from a live writer; and the item of a compaction is in the session exactly if
  its revision was committed, unless a compaction that went back took it along
  (`RevisionsAgree`). The report of a thread's usage has all that was spent, and
  nothing twice, whatever is compacted, restarted or not written, unless two of
  its events were recorded at once; and the reports by day, by model and in
  total agree (`UsageIsReportedOnce`).
* **tools.** Five questions again:
  - only the provider in use has an open connection, and none is left after a
    shutdown, unless a close or a reconnect met a call; a call runs twice, or
    ends with an error, only after a failure, and one failure is made up for;
    catalogs do not go back (`CallsAndConnectionsAgree`);
  - the snapshot of an output is its end, its counts are true, the file has all
    of it, and pages read one after the other are the file (`AnswersAreTrue`);
  - an edit replaces what the thread has read in its turn, each old text once
    and nothing else, whatever the order of the edits, up to the exceptions of
    section 5 (`EditsDoAsTold`);
  - searches answer with what was there and matched, once, and with all that
    stayed there, unless they are cut off or the program they ask fails
    (`AnswersAreTrue`);
  - an installed skill has every file of its draft, in one piece; uploads and
    generated drafts are kept; the configuration, the owner's settings and the
    host know what was answered as installed, unless two requests overlapped in a
    way that section 5 names (`SkillsAreAsTold`).

### Bounds, and why they are enough

* Two processes (or three callers) are what each race needs: one that is late
  and one that took over. A third caller in FileLock makes the reclaim race
  possible with a live owner: one caller died, two reclaim. Three jobs in
  FileMutations do the same, and three writers in TaskRevisions.
* Faults are counted together (`MaxFaults`). Three in `evented` cover a
  worker that is late, one that crashes after it took over, and a lease that
  lapses during the flush that follows. Two in `kernel_recovery` cover a
  failure during the recovery from a failure. One in `kernel_turn`, at any of
  some twenty places of a handler, with a second process that may take over;
  `MaxRevision` 3 leaves room for compactions before and after a ledger's revision.
* The graph of `kernel_recovery` has a loop, a terminal node, a node that is
  saved and two that are not (so that a replay spans several events), which is
  more than the production graph allows; `MaxSteps` 2 is one turn of the loop.
* RunLease: `MaxTime` and `MaxEpoch` leave time for each lease to expire and for
  the one after it to be granted; the state constraint `Bounded` of MCRunLease
  allows two crashes and four tokens. The proofs do without all four.
* `Token` in EventedRuntime: claim tokens that nobody remembers are used again,
  so a small set stands for fresh ones without end.
* event_stream: plans of two tasks, refined once, meet a list or a second plan in
  three calls. Three events are one with a key, one recorded beside it and a
  usage event that supersedes another; files are compacted from two events on.
* thread_turns and tool_loop explore their environments one after the other
  (`environment`, `replies` in the MC modules): an edited thread has one turn,
  the only one that asks a person, two turns are of one runner. All combinations at once are beyond five minutes
  and relate parts that do not meet otherwise.
* tool_loop: three calls are needed to reach a threshold of three and to fill a
  batch of two and begin the next. The code's window of eight and threshold of
  three are a window of three here, so that calls also leave it.
* services: three children for two places in all and one at a time; two
  upserts are a race; calls of two pieces interleave; two calls in the text are told one after
  the other or meet in a frame (`Inlines` 2); five posts are two more than
  `PostsAreFew` allows. What a provider refuses, calls without a name and calls in the text are
  looked at apart (`Init` of MCServices), since they meet in no guard; all at once have been
  tried as well. Two pieces of output, of which none is kept in memory (`MaxKept` 0), are
  one that makes the file and one that comes too late; without output there is no file to close.
  The pool has a limit of restarts; without
  `--max-restarts` it has none, and does what one does whose limit is never reached.
* stores: four items are a call, its result, and one on either side, or two of
  each; six have been tried for `PromptIsComplete` alone, and it holds.
  `MaxAsides` 2 is an interrupt during a compaction, or a steer in each. A summary
  has 3 lines here, of more the first and the last, and room for 1 or all; in the code
  20, the first 4 and the last 14.
  Three usage events of two models over two days make a range of days, a
  compaction with something to keep, and a pair recorded at once.
* tools: two callers and a refresh meet in every pair; ten bytes in chunks of up
  to three, with limits of two lines and two bytes and two bytes held back, pass
  every limit and every rolling cut. The part "samples" tries every text of up to
  three characters (of five kinds) and of four (of four kinds) with every old
  text of up to three, and pairs of edits. Five paths and two limits let the cap of
  a walk fall before, at and behind the limit. Three requests of eight, two at a
  time, make a skill, replace it and disturb either.
* `kernel_recovery`, `event_stream` and the run of RunLease use symmetry of
  processes, recorders and clients; they check no liveness.
* Deadlock is checked in `kernel_recovery`, `event_stream`, `thread_turns` and
  `tool_loop`. In the others every call returns or a bound is used up, and
  nothing is left to do.

### Fairness

* FileLock: weak fairness for each call's own steps (a poll loop in a live
  process) and for the age of a directory. Nothing makes a process crash,
  restart or call. The steps of a dead process are not enabled.
* EventedRuntime: weak fairness for the steps of a mutation that has begun, for
  the polling loops of workers and for leases of the dead to run out; strong
  fairness for the reconciler's and the workers' turn at the run lock, because
  the lock is a queue in a process and the lease is polled every 5 ms for as
  long as it may be held by another. No fairness for clients or for faults.
* KernelTurn: weak fairness for each process at work. A process need not start.
* ThreadTurns: weak fairness for what the event loop runs on its own: the queue,
  calls that have begun, launches, an input that an abort cancels and what a runner does
  after its end; strong fairness for the end of a run that is not kept waiting for a person,
  which the budget of steps brings about (ToolLoop shows that the loop ends or waits for a
  person), though its steps are disabled while an item is put. None for people: the gates
  have no timeout, and an approval does not listen to the abort.
* ToolLoop: weak fairness for the loop and for the tools at work; none for people.
* services: see the comment of `Fairness` in MCServices. Calls that have begun go
  on, timers fire, a shell that may be stopped obeys; aborts, cancels, crashes
  and what a model says need not happen.
* RuntimeKernel, RunLease, EventStream, stores, tools: none, and no liveness. Nothing in
  the code calls `run` again after a retryable failure, and no client has to
  stay.

## 5. Findings

`a2a_end_lost` (`a2a-task-store.ts:18`): an upsert of a task reads the record,
keeps its end if it has one, and writes. Two upserts that read at the same time
both find none; a cancel stored by one is undone by the other, and the task
reads as working again.

Met while modelling, and told by a condition of the property that holds:

* A caller of `withFileLock` may remove by name the directory of another owner
  than the one it judged (`raced` in ExclusiveUnlessReclaimRaced,
  `file-lock.ts:36`); a lock whose pid is in use again is never reclaimed (the
  runs have `PidReused` FALSE). `file-mutation-queue.ts:87` has the same race (`stolen`).
* With `RestartKeepsHolder`, a process that crashed between the lease file and
  the epoch file is given the lease it finds, and after its release the next
  lease has the same epoch (`file-run-state-store.ts:53`).
* A worker that dies after the run commit leaves an intent with its claim; once
  the message is claimed again every flush rejects it
  (`evented-v2-multi-agent-runtime.ts:776`). In a graph that comes back to an
  agent a late worker of the first message ends the visit of the second, so that a
  message may have two results recorded (line 714; `AgentComesBack`); a handoff back to
  a node whose agent run has ended opens no new one (`hasTargetAgentRun`, line 550), so
  that the next completion is written over the older result (`HandedBack`); and a retry
  node whose way out leads back to it counts on beyond its limit (line 895). The default graph has no edge for a specialist that
  fails, so the failure is refused before it is recorded (`multi-agent-graph.ts:22`): the
  message is redelivered for as long as its specialist fails (`Refused`), or, without
  claim leases, by no one (`Abandoned`, `file-multi-agent-store.ts:457`).
* A hook that throws after `node.completed` was logged has its failure saved on
  the older snapshot; the next call replays the completion over it, and the run
  carries on (`Overtaken` in FinalUnlessOvertaken, `runtime-kernel.ts:752`).
* A turn that has ended may run again by a queued write too, not only by a direct one:
  an editor writes under a queued mutation that has read, so that the mutation is stale
  when it is written, and what it throws away may have been thrown away before. TLC needed
  three editors beside one turn and an interrupt to show it; the property speaks of
  the copy that is written (`StaleCopyIsWritten`).
* A model that uses an id again in kernel_v3, as adapters that number calls per
  reply do, is given the stored answer of the first call (`effect-commit.ts:49`).
* Events recorded at once after a restart may share a seq; an event published
  before a client subscribes and written after its replay was read is missed by
  it; one appended during a compaction is lost. With three callers two compactions may
  overlap: the first drops an event appended under it, so its seq is taken again and
  `recordOnce` records its key again, and the second, which had read it, puts it back
  (`raced`, `file-session-store.ts:218`).
* In the streams of a model, an error frame is overridden by calls that are open, and an id
  that comes late in chat_completions leaves deltas under the old one, which kernel_v3 takes for
  a protocol error. In the messages format `message_stop` makes `length` a stop
  (`model-compat-client.ts:1308`), and without a reason it knows the calls end as `stop`; a
  response that is incomplete ends as `length` or `error` though it has calls (`:1424`).
* A call without the name of a tool is dropped but for the reason to stop, which says
  `tool_calls` (`:903`, `:913`, `:1061`); only chat_completions in one piece tells it
  (`:1354`). kernel_v3 is left with its deltas.
* A call written into the text is not told if it comes after another in one frame of text, while
  calls are pending, or in an answer in one piece (`:984`, `:2420`; `overlooked`).
* The timeout of a bash command ends with the call that started it; a command
  that went to the background has none.
* Output of a command that comes while the answer for its end waits for the file of a long
  output to be closed passes the test of `finalized` and is appended to an accumulator that is
  finished (`builtin-bash-tool.ts:315`, `:547`, `output-accumulator.ts:157`); that throws in a
  `data` event, for which the process has no handler, and ends it (`threw`).
* A child that asks for an approval, or for input, waits for ever: its gates are
  reachable by no route.
* A summary of more than 20 items leaves out the middle ones (`context-compactor.ts:467`), and a
  summary of a summary tells 600 characters of it (`:456`): what a thread held may be in no
  prompt any more though no write overtook it (`omits`, `forgets`).
* A build that heals, a discard and POST compact write the whole file of items
  back, and with it over what others appended since they read it (`overtaken`).
* A call of an MCP server that fails after its provider was replaced and closed
  connects anew on the old provider, and that connection is never closed
  (`entangled`). So does, with nothing entangled, every call that begins at a provider that was
  replaced: those of child agents after the first refresh (`runtime-factory.ts:820`), and one that
  waited for its approval; a listing there fails (`late`, `FoundClosed`). Two lists of one provider that overlap may leave the older catalog.
* Two usage events of a thread recorded at once carry totals in another order
  than their numbers, and the differences count some usage twice or not at all
  (`together`); compaction keeps a day's last event only, with its model, so usage
  of one model is charged to another once the report comes from the file.
* A new task on the line of an old one takes over its todo, with the id and the status, also
  if the refined plan says the old task again further down; that one is new then, and
  reads as its box does (`IsDisplaced`, `todos.ts:190`). A sync keeps a status the new plan
  does not show. Two lines of one text, or a todo with another text, can give two todos
  one id, of which the next sync drops one. todo_write without sources detaches the
  todos from their plan, and so does the plan of another file.
* An update and a sync that overlap lose one another; two create_plan at once may choose
  one name, and the later plan replaces the earlier.
* The snapshot of an output whose last line alone is over the limit of bytes is
  empty when that line has ended.
* find and grep without fd or ripgrep stop after eight times the limit without
  a word, and a ripgrep that fails after some output is taken for one that found that.
* An edit that matches only after normalisation (quotes, spaces at line ends)
  normalises the whole file; an old text of blanks alone in a very short file,
  and one that overlaps itself, are counted as one match. An edit by a path
  outside of the workspace is always refused, because reads are recorded under
  the path inside. A read whose answer goes to a file leaves no record. What a
  shell writes between an edit's read and its write is lost.
* An upload `pkg/pkg/x` is deleted together with the root it is moved out of; the
  install of such a draft fails after the skill that was there has been removed.
  Scripts of one name overwrite one another.
* The skills of an owner with saved settings are written to the configuration of all,
  so a skill that another owner installed leaves it (`foreign`). Requests that
  overlap lose one another's configuration (`stale`), put an older one into memory
  (`behind`), load an older discovery (`crossed`), take the root of all installed skills out of the
  host with the configuration they put back (`Root`), mix two drafts in one directory
  (`mixed`), or save a draft that another has generated meanwhile (`raced`).

## 6. The proofs

The proofs follow one pattern: an inductive invariant `IInv` with `Init => IInv`,
`IInv /\ [Next]_vars => IInv'` (a step per action) and `IInv => property`, joined
by a temporal last step. What a history variable admits (`raced`, `stolen`,
`seized`, `collided`...) is a premise of the part of `IInv` that it disturbs. TLC
has checked each `IInv` on the small instance of its run first. The constants are
arbitrary; what a theorem needs of them is in the `ASSUME`s of the component, or, for
`Delegation`, `A2ATasks`, `FileMutations` and `TaskRevisions`, in a definition that the theorem
names: names that differ, sets that are finite where they are counted, bounds that are
numbers. The proofs of these four, of `WorkerPool`, `BashSessions` and `HybridThreads`
are in `Services_proofs`, those of `ThreadTurns` and `ToolLoop` in `Turns_proofs`, those of
`FileLock`, `McpConnections` and `ModelStream` in `Outside_proofs`; those of each other component
in a module of its own. A leaf that one prover takes long over names it and gives it time
(`SMTT`, `ZenonT`), so that the proofs do not depend on the speed of the machine.

**RunLease** (any processes, any time to live, no bound on time or epochs):
`TypeCorrect`, `FenceExclusive`, `EpochsUnique`, `SnapshotOrder`. The first two hold
whether or not a restarted process keeps its holder id: `CoreInv` adds to the types
that who is in a critical section has the lock, that the lease it persists is there and
its own, that it saves under a fence (`LockInv`, `SectionInv`), and that a fence names its
process (`OwnFence`). The other two assume `FreshHolders` (a restarted process has a new
holder id); section 5 says what happens without it. They are not inductive, because a lease
is known to be new only through two files. `IInv` adds: who is in a critical
section has the lock (`LockInv`); what a process in each half of `acquire` and
`save` knows (`CriticalInv`); the holder of the lease is of this or an
earlier incarnation (`HolderInv`); a lease ahead of the epoch file is one
that nobody has been given yet (`UnpersistedInv`, `PersistedInv`); a fence in
use was issued to this incarnation (`FenceInv`); an issued epoch is never above the epoch file
(`IssuedInv`); the snapshot is not ahead of the epochs (`SnapshotInv`); and the property
`EpochIdentifiesFence` itself. That
the next epoch is new is the lemma `NextEpochIsFresh`.

**FileLock** (any clients and processes, any number of crashes): `TypeCorrect`
and `Exclusion`, that is `ExclusiveUnlessReclaimRaced`. The invariant
says that the process of a call under way is up (`UpInv`) and that makers are
calls of this or an earlier life (`MakerInv`); and, while no reclaim has raced,
that a call that works made the directory that is there (`WorkInv`, which gives
exclusion), that a directory nobody works under has a maker that is over
(`LeftInv`), and so has what a reclaimer judged (`JudgedInv`). `ReclaimableIsOver` is the lemma that the code's test for
staleness is sound, `DirType` and `WorkingIsNotOver` serve it.

`Orderly` is `OrderlyWithoutCrash`. Its premise is about the present state only; that it
held all along is what lets the proof go step by step: a process that went down
stays down or returns in a later life, so a state that shows no crash has none
behind it. Then no call is over (`NothingIsOver`), every directory has
somebody working under it (`CalmIsWorkedUnder`), and neither a judgement nor a timeout
is possible.

**McpConnections** (any calls and finite set of refreshes, any faults and catalogs):
`Connections`, that is `CallsAndConnectionsAgree`. As long as nothing is `entangled`, whoever is at
work uses the provider of the tool host or began late, at most one call of a provider makes a
connection and at most one refresh a provider, and only they have open clients (`UseInv`), each
one of its own (`ClientsInv`). Without a fault a call that is not late
therefore has an open client to its end (`FaultInv`), so what runs twice or fails
has met one; and one that fails twice, alone with its provider, has met two (`AloneInv`), or one
if it began late, since the first time it found its client closed (`LateInv`). What is newer than
the catalog of a provider is with the one call at work (`SharedInv`).

**ModelStream** (any number of calls, of pieces and of calls in the text): `Streaming`, that is
`StreamTellsItsCalls`. `StreamAssumption` says that the three bounds are numbers and that no
reason to stop is the absent one.

* Which calls are open and not completed (`Unfinished`) is known from the stage of the stream,
  but in each format from something else: all of them until `finish_reason`, those not in
  `done`, the block that is open and those that had no name (`BlockInv`). The parser has what was
  sent of exactly these, each under the id or number it is known by then (`PendingInv`); what it
  knows by index is true (`IndexInv`).
* All others that have a name are in `completed`, each once and as it was sent (`HeardInv`), and
  the reason kept fits them and the one the provider gave (`ReasonInv`). What is kept of the text
  is the beginning of the next call in it, as long as the text is looked at (`TextInv`). With `AskedInv`, which counts the posts by what was stripped for
  them, that gives the property when the stream is over; nothing changes afterwards.
* A piece finds its call by id or by index, and an id that comes late renames the call and keeps
  its pieces (`DeltaFindsItsCall`). The order in which open calls are completed does not
  matter, since a list of a set (`SetToSeqLists`) behind a list of another is a list of both
  (`ListsTogether`).

**FileMutations** (any jobs and processes): `Exclusive`, that is
`EditsAreExclusive`. A job has the lock directory of its key from mkdir to rm unless
the key is `stolen` (`LockInv`); a dead process has no job that goes on (`DeadInv`);
what is about to be removed was made by a job of a dead process (`RemoveInv`), so that removing
it takes nothing from a live one (`DeadHoldNothing`).

**BashSessions** (any callers, any limits of the output): `Commands`, that is
`CommandsEndAsTold`. Only an answer for a session that is over closes its output
(`CloserInv`), and it is finalized with it unless it has a file to close (`CloseInv`). The two flags of a stop are set together, and the shell is there once the
first call has left its beginning (`StopInv`), so a stop that is recorded has reached the shell;
and who was told that the command is over was told so after the output was finalized
(`ToldInv`), after which `got` stands still.

**HybridThreads** (any finite set of calls, any number of faults): `Listing`, that is
`ThreadIsListedAsStored`. Upserts of one thread wait in the order of their versions, all of
them beyond the file's (`WaitInv`), so the file only moves on; a list that showed
the thread, or is at work while it is on disk, is in `seen` (`ListInv`). That index and file agree is not
inductive: while nothing has `raced` there is one call at work, and what it holds is
what the two differ by (`CalmInv`). Versions are bounded by the calls begun (`VersionInv`).

**TaskRevisions** (any finite set of writers): `Agreement`, that is `RevisionsAgree`. What
is committed was committed by its writer alone, after which nobody aborts it
(`RevisionInv`); while no lock was seized, its holder is alone and what it has compared
stays so, hence revisions grow (`LockInv`); while nobody has taken back the
items of others, a compaction's item is there from its append on (`ItemInv`).
That revisions are bounded by the number of writers takes a count of those that
have committed (`CountInv`, `StepCount`).

**Delegation** (any finite set of calls, any limits): `Accounting`, that is
`ChildrenAreAccountedFor`. The limits are not inductive over the children that
run: the invariant counts those from the look at the limit on (`LimitInv`), and says that of two
calls that are let in at once both are in `admitted` (`EnteringInv`). `StepRunning` shows that
`active` is exact on every way out, `RecordInv` relates the record to the end the
executor reported.

**A2ATasks** (any cancellers): `EndIsTold`, that is `TaskTellsItsEnd`. As long as no two upserts
were at work at once, the file is torn only while its one writer is filling it
or after a restart that left nobody, and who opens or fills it writes the end it
told first (`EndInv`); `UpsertAlone` and `GoesOnAside` serve it. A record that names the turn is of a
task whose turn cannot be started again (`Late`, `StepLate`), which makes
`CancelledTurnIsAsked` inductive (`TurnInv`).

**WorkerPool** (any shards, any limit of restarts): `Shards`, that is
`PoolKeepsItsWorkers`. The invariant numbers the workers a shard has had: one more
than it was restarted, or as many while it is in the pause before the next
(`CountInv`); at most one of them has an exit that has not been handled, and none
during the pause (`UnnoticedInv`); and no shard is without both while the pool is not
over (`PhaseInv`).

**EventedRuntime** (any graph, runtimes, workers and tasks, with and without claims):
`Agreement`, that is `RunAndMailboxAgree`, and `EndsStay`, that is `EndsAreStable`.

* The record by itself (`RunInv`): an intent of a kind is there once per message,
  exactly if the message was handed off or a result recorded (`OutboxInv`); a run that is
  running is at an agent that is on top of the stack and whose agent run is open,
  or that was handed back to (`StatusInv`). That needs to know that a node whose
  agent run has ended was left by an edge (`VisitInv`), that an exhausted retry node was
  left by its way out for that (`RetryInv`), and that who has answered a message was at its
  agent before (`AnsweredInv`). All three say from where edges lead to where the run
  is, so a graph that comes back needs no exception but the one it is.
* The record and the mailbox: a message that is over ended the way its intent says
  (`MailInv`); who has a message, or the result of one, has it from the mailbox
  (`HolderInv`); an intent is marked only when the mailbox shows its effect (`MarkInv`);
  and, without claims, one worker has each message and one result is recorded
  (`OnceInv`).
* TLC has checked the invariant on the graphs of the run, and on one with a cycle of
  agents, 2 711 075 and 2 200 000 states of two instances, and 3.7 million of a third. In a cycle of retry or join nodes the model, like any graph that
  `enterGraphNode` can be given, stops after as many calls as there are nodes.

**RuntimeKernel** (any processes, graph, outcomes and faults): `Account`, that is
`LogTellsTheRun`, `Final`, that is `FinalUnlessOvertaken`, and `Implements`, that is
`ProcessesRunAsOne`. The proof has four layers.

* Logs. `EventOK` is what `EachStepRunsOnce` says of one event with what it needs:
  a completion comes right after its start, and points on or has an outcome. `Follows(l, s)`
  says that state `s` is where the first `s.seq` events of `l` lead.
  `FollowsNext` shows that the reduction of the next event keeps this,
  `LogGrows` that appending changes nothing that was so.
* The replay. It is a recursive function over the log, so that what it computes
  for any log needs an induction. The provers cannot instantiate the induction
  theorems; the proof takes the least position at which the claim fails instead
  (`LeastMember`, from the well-foundedness of `<`), once to show that the
  function exists (`ReplayIsDefined`) and once for `ReplayFollows`.
* The invariant. The snapshot follows the log and never lies between a completion
  and its after event (`SnapshotInv`); what is told is how the run ended
  (`ToldInv`, `EndIs`: the first outcome in the log, or the snapshot's if a
  hook ended it before a node); an end that a process has in memory, even
  one that lost its lease long ago, is that end or a failure (`MemoryInv`); and the
  process with a valid lease has, per label of `pc`, the state the whole log leads to and
  an event that fits it (`HolderInv`). Only that process changes log or snapshot
  (`StepKeepsAccount`), which is why the others need no more.
* The refinement adds that completions take edges and hooks jump where they may
  (`WalkInv`). `CommittedIsTheEnd` identifies the outcome of `RunSpec` with `EndIs`;
  `AppendRefines` gives a step of `RunSpec` for each kind of event, `SameLogRefines`
  for each step that leaves the log alone.

**KernelTurn** (any processes and ids, any budgets and number of faults): `Accounts`, that is
`CallsAreAccountedFor`, and `Kept`, that is `CommitsAreKept`. `TypeInv`, `PhaseInv` and
`OrderInv` describe states and processes; what the argument rests on is this.

* A process without the lease has what it is at work on in `disturbed`, one with the
  lease works on the saved state (`LeaseInv`). So what is not disturbed is known from
  one process: what it has executed of its proposal, everything executed before is
  behind the saved state, and no call ran twice (`RanInv`); the revision it has read, in
  a handler or a compaction, is still the active one (`RevisionInv`).
* The saved states follow one another, and the copy of a process that goes on without
  the lease is one of them (`OrderInv`). A result that such a process stores late is
  therefore no younger than any state in which its id is committed (`ResultInv`), which
  is why an answer is another call's only if the model has used an id in two steps.
* From its first call to the node that follows, a proposal comes to be accounted for: the
  calls it has been through have answers, then the ledger it is about to write lists all
  of them and all that is listed already unless the revision has moved (`LedgerInv`).

Steps are sorted by what they do to the saved state before the parts are shown
(`StepKinds`: it advances, the run halts, a process starts, a lease lapses, or work is done
within a node); each part then has a lemma per kind. TLC has checked the
invariant with two faults as well (5 483 641 states).

**ThreadTurns** (any turns, editors, interrupts and runners; nothing is assumed):
`ThreadSettles`, that is `QuietThreadIsSettled`, and `EndIsKept`, that is `EndedStaysEnded`. The
queue has one job at a time that has read, and no queued write between its read and its
write (`QueueInv`), so two queued mutations never lose one another. A copy that
nobody overwrote is the record (`CopyInv`); controllers, entries and buffers are
those of turns at work (`ServiceInv`); a turn that is not stored yet is in no copy
(`UnstoredInv`); and as long as nothing was thrown away, who has written is seen in
the record (`RecordInv`). `Held` relates each copy after a step to one before it or to the
record (`QueueTo`, `DirectTo`), and `RecordWritten` says who may write it.

**ToolLoop** (any calls, limits, replies and decisions): `AnswersAreKept`, that is
`EveryCallIsAnswered`, and `Allowed`, that is `StartsAreAllowed`. `LoopAssumption` says of the
limits what the code enforces (a window of at least one call, a threshold of at least two) and
that the calls the guard exempts, which ask the user, change no file.

* `PhaseInv` relates each phase to where the calls are: at `check` and `build` all are closed; from
  the stream on those before `next` are closed, unless they are in the batch, and those from `next` on are open,
  and so is the one the guard suppressed behind a batch. `CallsInv` says that the tracker has
  exactly those at work. Why a batch that is kept leaves none behind is the lemma
  `KeptAreOfTheBatch`. `JudgedInv` says that what a closed call leaves agrees with the first
  decision about it: a step that nobody decides on keeps that (`MovesAgree`).
* `GateInv` follows a gated call from no request to its first decision: one that waits has none yet,
  one that may start has the decision to allow it. `RunsOnlyByStart` is the rest of `Allowed`.
* `WindowInv` is what makes `StormsAreBounded` inductive: the window holds let-through calls that
  no later call changed a file under (`Fresh`), and every one of these that at most `Window`
  counted calls came after or with. `LatestIsShort` says that cutting it keeps it within `Window`,
  `GuardLooks` that one more call keeps all of this.

**EventStream** (any recorders, clients, keys and bounds): `Recorded`, that is
`RecordedOnceInOrder`, `Missed`, that is `MissedOnlyInFlight`, and `Lost`, that is
`LostOnlyByCompaction`. The proof found the first two false as they had been stated for two
callers; the overlapping compactions of section 5 are why they speak of `raced`.

* What the operators return: a set of seqs has a greatest member (`MaxOf`,
  `HighestIs`), and compaction lists each kept event once (`CompactedIs`, from
  `RankIsTaken` and `RankIsUnique`), so that it keeps the same events when it comes
  again (`CompactedKeeps`).
* In every behaviour: ids are given once (`IdsAreGiven`), one `recordOnce` is past the queue
  and no event of its key is in the file (`OneAtATime`), and what a compaction has read is still
  the file, but for usage and for what was appended meanwhile (`ReadIsTheFile`). `Lost` and
  one event of a key (`OnceEverywhere`) follow.
* While nothing was appended under a compaction: compactions that overlap keep the same events,
  so a rewrite brings nothing back (`NothingComesBack`); the highest seq a call has read, and the seq
  it has taken, is beyond those of all events written before it began (`SeqsAreBeyond`), so
  equal seqs need overlapping calls (`AllApart`); and every event of the file was in the
  replay, was sent live, or is on the bus and was not in the file when that was read
  (`CalmStreams`).

Only model-checked:

* Liveness in all modules: `LockComesFree`, `ProgressIsLostAsTold`, `EveryRunStops`,
  `EveryTurnEnds`, `EndsOrWaits`, `CallersAreReleased`. With fairness it is out of
  TLAPS's reach.
* What recursive definitions, folds and filters compute for every input, which takes an
  induction over data: the text operators of the tools, the prompts of `SessionHistory`
  (`PromptsTellTheThread`), the differences of `UsageLedger` (`UsageIsReportedOnce`), and the
  todos of a plan (`TodosFollowThePlan`).
* `SkillsAreAsTold` of `SkillInstall`: nothing known stands in the way of a proof but its length.
* The finding.

## 7. What is not modelled

* In the modelled parts: torn writes (an append or a rename is an atomic step),
  failures of disk operations other than those named, the content of prompts,
  messages and tool results, timelines and metrics, migration of snapshots
  and graphs between versions, two concurrent calls of `run` in one process (they
  share a holder id), and evented_v2 runs other than the one considered: one
  whose outbox is stuck keeps those behind it from being flushed. A line of the
  run log that a crash cut off makes later reads fail; here an append is whole.
* In SessionHistory: estimates of tokens (which items a compaction keeps is a
  choice), instructions, attachments, the wording of summaries (a summary by the model, in
  place of the code's own, may tell anything; a message such as "continue" is no
  objective), and an id that
  a turn uses for two calls, whose items overwrite one another in the file.
* In ModelStream: calls written into the text as `<action>` or `<command>`, which have no end
  that is looked for, so that what has come by then is told; and the syntax of the others.
* Graphs that loop back to an agent: the runs have none, and the default graphs
  have none.
* Budgets of tokens and cost, searches of threads, goal texts and titles, peer
  cards and discovery: they decide when something ends, which is a choice here,
  or decorate it.
* In PlanTodos: lines that are no tasks, forks and plan ids chosen by the GUI; a hash is
  its text.
* In CommandOutput: characters of several bytes; in FileEdits: images,
  notebooks, `patch` output and diffs; in FileSearch: ignore files, patterns and
  symbolic links; in UsageLedger: costs and cache tokens, which are summed in the
  same way; in SkillInstall: what section 3 names, and the analysis of scripts.
* Left out for good: text processing (pruning, digests, token estimates), web
  and image tools (I/O), HTTP routing and authentication (wiring), which
  skills a prompt activates, caches, attachments and memory (file access and
  text), schemas and domain types (they appear as sets of records where
  they matter), the command line but for the worker pool, and presets.
