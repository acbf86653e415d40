---------------------------- MODULE ThreadTurns ----------------------------
(***************************************************************************)
(* The turns of one thread: TurnService starts, steers, interrupts and     *)
(* finishes them, a turn runner executes each, ThreadService edits and     *)
(* deletes the same thread record.                                         *)
(*                                                                         *)
(* One step is what runs between two awaits. TurnService queues its        *)
(* mutations of the record, one read and one write each; ThreadService and *)
(* the goal timer of the classic runner read and write it directly. A turn *)
(* has one item, open until it is closed or its turn is finished. Every    *)
(* copy of the record remembers who wrote it since it was read, so that    *)
(* what a write throws away is known.                                      *)
(*                                                                         *)
(* ReleasedOnly, ProjectedRunning and FinishItemOnly are ways to get the   *)
(* next definition wrong.                                                  *)
(***************************************************************************)
EXTENDS Naturals, FiniteSets, Sequences, SequencesExt

CONSTANTS
  Turn,         \* turns of the thread
  Editor,       \* calls of ThreadService that change the thread
  Interrupt,    \* calls of interruptTurn
  Mode,         \* the runners the rollout may select: "classic", "evented", "kernel"
  MaxSteers,    \* bound: calls of steerTurn
  CanDelete     \* bound: whether the thread is ever deleted

NoThread == [exists |-> FALSE]
Unread == [exists |-> "unread"]
Ended == {"completed", "failed", "aborted"}
ThreadRecord ==
  [exists : {TRUE}, status : {"idle", "running"}, turn : [Turn -> {"absent", "running"} \cup Ended],
   item : [Turn -> {"absent", "open", "closed"}], edits : SUBSET (Editor \cup Turn)]

VARIABLES
  thread,     \* the record in the thread store
  log,        \* the turns that have their item in the session store
  queue,      \* the queued mutations, with what the first of them has read
  registered, \* inflightTurns, the turns with a controller
  tracked,    \* InflightTracker
  buffer,     \* the steering buffers
  aborted,    \* the turns whose controller was aborted
  start,      \* the calls of startTurn
  run,        \* the runners
  direct,     \* ThreadService's calls and the goal timers, with what they have read
  intr,       \* the calls of interruptTurn
  steers,
  lost,       \* history: pairs of the writer and who wrote what it overwrote
  abandoned,  \* history: turns whose runner returned or threw without finishing them
  steeredLate \* history: turns that were steered when they had no controller

vars == <<thread, log, queue, registered, tracked, buffer, aborted, start, run, direct, intr,
          steers, lost, abandoned, steeredLate>>

service == <<registered, tracked, buffer, aborted>>
history == <<lost, abandoned, steeredLate>>

Init ==
  /\ thread = [exists |-> TRUE, status |-> "idle", turn |-> [t \in Turn |-> "absent"],
               item |-> [t \in Turn |-> "absent"], edits |-> {}]
  /\ log = {} /\ queue = <<>> /\ registered = {} /\ tracked = {} /\ aborted = {}
  /\ buffer = [t \in Turn |-> "none"]
  /\ start = [t \in Turn |-> "none"]
  /\ run = [t \in Turn |-> [pc |-> "none", mode |-> "none"]]
  /\ direct = [w \in Editor \cup Turn |-> [pc |-> "idle", copy |-> Unread, over |-> {}]]
  /\ intr = [i \in Interrupt |-> [pc |-> "idle", turn |-> "none", discard |-> FALSE, seen |-> {}]]
  /\ steers = 0 /\ lost = {} /\ abandoned = {} /\ steeredLate = {}
-----------------------------------------------------------------------------
(***************************************************************************)
(* upsertThread: the queue of the mutations and the writes of the record.  *)
(***************************************************************************)
Job(op, t, status, discard, caller) ==
  [op |-> op, turn |-> t, status |-> status, discard |-> discard, caller |-> caller,
   copy |-> Unread, over |-> {}]

Queued(job) == queue' = Append(queue, job)
Awaited(caller) == \A i \in DOMAIN queue : queue[i].caller # caller

MayRead(i) == i = 1

\* finalizeOpenItems.
Closed(item) == IF item = "open" THEN "closed" ELSE item

ProjectedRunning(job, r) ==
  IF r.turn[job.turn] = "absent" THEN r
  ELSE [r EXCEPT !.item[job.turn] = job.status, !.turn[job.turn] = "running"]

\* projectItem leaves out the item of a turn that is not there.
Projected(job, r) ==
  IF r.turn[job.turn] = "absent" THEN r ELSE [r EXCEPT !.item[job.turn] = job.status]

FinishItemOnly(job, r) == [r EXCEPT !.item[job.turn] = Closed(@), !.status = "idle"]

\* The mutators of interruptTurn, which discards all but what the user wrote, and of finishTurn.
Finished(job, r) ==
  [r EXCEPT !.turn[job.turn] = IF @ = "absent" THEN @ ELSE job.status,
            !.item[job.turn] = IF job.discard THEN "absent" ELSE Closed(@),
            !.status = "idle"]

Mutated(job, r) ==
  CASE job.op = "start" -> [r EXCEPT !.status = "running", !.turn[job.turn] = "running"]
    [] job.op = "project" -> Projected(job, r)
    [] job.op = "finish" -> Finished(job, r)
    [] job.op = "interrupt" -> IF r.turn[job.turn] = "absent" THEN r ELSE Finished(job, r)

\* Whoever holds a copy learns of a write.
NotedBy(kind, copies) ==
  [p \in DOMAIN copies |->
     IF copies[p].copy = Unread THEN copies[p] ELSE [copies[p] EXCEPT !.over = @ \cup {kind}]]

Lost(kind, over) == lost' = lost \cup ({kind} \X over)

\* A mutation of a thread that is gone is dropped.
ReadJob(i) ==
  /\ MayRead(i) /\ queue[i].copy = Unread
  /\ queue' = IF thread = NoThread THEN RemoveAt(queue, i) ELSE [queue EXCEPT ![i].copy = thread]
  /\ UNCHANGED <<thread, log, service, start, run, direct, intr, steers, history>>

WriteJob(i) ==
  /\ queue[i].copy # Unread
  /\ thread' = Mutated(queue[i], queue[i].copy)
  /\ Lost("queued", queue[i].over)
  /\ queue' = RemoveAt(NotedBy("queued", queue), i)
  /\ direct' = NotedBy("queued", direct)
  /\ UNCHANGED <<log, service, start, run, intr, steers, abandoned, steeredLate>>
-----------------------------------------------------------------------------
(***************************************************************************)
(* startTurn, and the route that launches the runner when it returns.      *)
(***************************************************************************)
StartTurn(t) ==
  /\ start[t] = "none"
  /\ IF thread = NoThread
       THEN start' = [start EXCEPT ![t] = "notFound"] /\ queue' = queue
       ELSE /\ start' = [start EXCEPT ![t] = "storing"]
            /\ Queued(Job("start", t, "running", FALSE, <<"start", t>>))
  /\ UNCHANGED <<thread, log, service, run, direct, intr, steers, history>>

\* The turn is in the record and turn_started is on the event stream.
Announce(t) ==
  /\ start[t] = "storing" /\ Awaited(<<"start", t>>)
  /\ start' = [start EXCEPT ![t] = "announced"]
  /\ UNCHANGED <<thread, log, queue, service, run, direct, intr, steers, history>>

Register(t) ==
  /\ start[t] = "announced"
  /\ start' = [start EXCEPT ![t] = "registered"]
  /\ registered' = registered \cup {t}
  /\ tracked' = tracked \cup {t}
  /\ buffer' = [buffer EXCEPT ![t] = IF @ = "none" THEN "empty" ELSE @]
  /\ UNCHANGED <<thread, log, queue, aborted, run, direct, intr, steers, history>>

ReleasedOnly(t) ==
  /\ registered' = registered \ {t}
  /\ tracked' = tracked \ {t}
  /\ UNCHANGED buffer

\* What finishTurn and interruptTurn do at once.
Released(t) ==
  /\ registered' = registered \ {t}
  /\ tracked' = tracked \ {t}
  /\ buffer' = [buffer EXCEPT ![t] = "none"]

Finish(t, status) ==
  /\ Released(t)
  /\ Queued(Job("finish", t, status, FALSE, <<"run", t>>))
  /\ run' = [run EXCEPT ![t].pc = "finishing"]

(***************************************************************************)
(* runTurn.  The classic runner fails a turn without a controller, the     *)
(* evented one leaves it, the kernel one looks at its first node.          *)
(***************************************************************************)
Launch(t, m) ==
  /\ start[t] = "registered" /\ run[t].pc = "none"
  /\ IF t \in registered \/ m = "kernel"
       THEN /\ run' = [run EXCEPT ![t] = [pc |-> "running", mode |-> m]]
            /\ UNCHANGED <<queue, registered, tracked, buffer, abandoned>>
       ELSE IF m = "classic"
         THEN /\ Released(t)
              /\ Queued(Job("finish", t, "failed", FALSE, <<"run", t>>))
              /\ run' = [run EXCEPT ![t] = [pc |-> "finishing", mode |-> m]]
              /\ abandoned' = abandoned
         ELSE /\ run' = [run EXCEPT ![t] = [pc |-> "done", mode |-> m]]
              /\ abandoned' = abandoned \cup {t}
              /\ UNCHANGED <<queue, registered, tracked, buffer>>
  /\ UNCHANGED <<thread, log, aborted, start, direct, intr, steers, lost, steeredLate>>

\* applyItem, or updateItem of the item once it is in the log.
PutItem(t, status) ==
  /\ run[t].pc = "running"
  /\ (status = "open") # (t \in log)
  /\ log' = IF status = "open" THEN log \cup {t} ELSE log
  /\ Queued(Job("project", t, status, FALSE, <<"run", t>>))
  /\ run' = [run EXCEPT ![t].pc = "putting"]
  /\ UNCHANGED <<thread, service, start, direct, intr, steers, history>>

ItemIsPut(t) ==
  /\ run[t].pc = "putting" /\ Awaited(<<"run", t>>)
  /\ run' = [run EXCEPT ![t].pc = "running"]
  /\ UNCHANGED <<thread, log, queue, service, start, direct, intr, steers, history>>

\* A tool asks a person: for an approval, which no abort ends the wait for, or for input,
\* which one does; the kernel runner listens to no abort once it has no controller.
Ask(t, waiting) ==
  /\ run[t].pc = "running"
  /\ waiting = "input" => run[t].mode # "kernel" \/ t \in registered
  /\ run' = [run EXCEPT ![t].pc = waiting]
  /\ UNCHANGED <<thread, log, queue, service, start, direct, intr, steers, history>>

WaitsForPerson(t) == run[t].pc \in {"approval", "input"}

PersonAnswers(t) ==
  /\ WaitsForPerson(t)
  /\ run' = [run EXCEPT ![t].pc = "running"]
  /\ UNCHANGED <<thread, log, queue, service, start, direct, intr, steers, history>>

CancelInput(t) == run[t].pc = "input" /\ t \in aborted /\ PersonAnswers(t)

\* drainSteering, which only the classic runner calls.
Drain(t) ==
  /\ run[t].pc = "running" /\ run[t].mode = "classic" /\ buffer[t] = "text"
  /\ buffer' = [buffer EXCEPT ![t] = "empty"]
  /\ UNCHANGED <<thread, log, queue, registered, tracked, aborted, start, run, direct, intr, steers, history>>

\* An abort is seen at the next check, and there is none after the last.
End(t, status) ==
  /\ run[t].pc = "running" /\ run[t].mode \in {"classic", "kernel"}
  /\ status = "aborted" => t \in aborted \/ (run[t].mode = "kernel" /\ t \notin registered)
  /\ Finish(t, status)
  /\ UNCHANGED <<thread, log, aborted, start, direct, intr, steers, history>>

\* The evented runner returns its status, the kernel throws out of runTurn: neither calls finishTurn.
LeaveUnfinished(t) ==
  /\ run[t].pc = "running" /\ run[t].mode \in {"evented", "kernel"}
  /\ run' = [run EXCEPT ![t].pc = "done"]
  /\ abandoned' = abandoned \cup {t}
  /\ UNCHANGED <<thread, log, queue, service, start, direct, intr, steers, lost, steeredLate>>

\* The classic runner may then add to the time of the goal, directly.
AfterFinish(t) ==
  /\ run[t].pc = "finishing" /\ Awaited(<<"run", t>>)
  /\ run' = [run EXCEPT ![t].pc = "done"]
  /\ \/ direct' = direct
     \/ /\ run[t].mode = "classic"
        /\ direct' = [direct EXCEPT ![t].pc = "called"]
  /\ UNCHANGED <<thread, log, queue, service, start, intr, steers, history>>
-----------------------------------------------------------------------------
(***************************************************************************)
(* steerTurn and interruptTurn, called by clients that know the turn.      *)
(***************************************************************************)
Known(t) == start[t] \in {"announced", "registered"}

SteerTurn(t) ==
  /\ Known(t) /\ steers < MaxSteers
  /\ steers' = steers + 1
  /\ buffer' = [buffer EXCEPT ![t] = "text"]
  /\ steeredLate' = IF t \in registered THEN steeredLate ELSE steeredLate \cup {t}
  /\ UNCHANGED <<thread, log, queue, registered, tracked, aborted, start, run, direct, intr, lost, abandoned>>

InterruptTurn(i, t, discard) ==
  /\ intr[i].pc = "idle" /\ Known(t)
  /\ intr' = [intr EXCEPT ![i] = [@ EXCEPT !.pc = "aborted", !.turn = t, !.discard = discard]]
  /\ aborted' = IF t \in registered THEN aborted \cup {t} ELSE aborted
  /\ Released(t)
  /\ UNCHANGED <<thread, log, queue, start, run, direct, steers, history>>

\* turn_aborted has been recorded; discarding loads the items.
LoadItems(i) ==
  /\ intr[i].pc = "aborted" /\ intr[i].discard
  /\ intr' = [intr EXCEPT ![i].pc = "loaded", ![i].seen = log]
  /\ UNCHANGED <<thread, log, queue, service, start, run, direct, steers, history>>

RewriteItems(i) ==
  /\ intr[i].pc = "loaded"
  /\ log' = intr[i].seen \ {intr[i].turn}
  /\ intr' = [intr EXCEPT ![i].pc = "rewritten"]
  /\ UNCHANGED <<thread, queue, service, start, run, direct, steers, history>>

MarkAborted(i) ==
  /\ \/ intr[i].pc = "aborted" /\ ~intr[i].discard
     \/ intr[i].pc = "rewritten"
  /\ intr' = [intr EXCEPT ![i].pc = "marking"]
  /\ Queued(Job("interrupt", intr[i].turn, "aborted", intr[i].discard, <<"intr", i>>))
  /\ UNCHANGED <<thread, log, service, start, run, direct, steers, history>>

InterruptReturns(i) ==
  /\ intr[i].pc = "marking" /\ Awaited(<<"intr", i>>)
  /\ intr' = [intr EXCEPT ![i].pc = "done"]
  /\ UNCHANGED <<thread, log, queue, service, start, run, direct, steers, history>>
-----------------------------------------------------------------------------
(***************************************************************************)
(* The direct writers: ThreadService's update, setGoal, setTodos and their *)
(* like, and the goal timer.                                               *)
(***************************************************************************)
CallEdit(w) ==
  /\ direct[w].pc = "idle"
  /\ direct' = [direct EXCEPT ![w].pc = "called"]
  /\ UNCHANGED <<thread, log, queue, service, start, run, intr, steers, history>>

ReadThread(w) ==
  /\ direct[w].pc = "called"
  /\ direct' = [direct EXCEPT ![w] =
                  IF thread = NoThread THEN [@ EXCEPT !.pc = "done"]
                  ELSE [@ EXCEPT !.pc = "read", !.copy = thread]]
  /\ UNCHANGED <<thread, log, queue, service, start, run, intr, steers, history>>

WriteThread(w) ==
  /\ direct[w].pc = "read"
  /\ thread' = [direct[w].copy EXCEPT !.edits = @ \cup {w}]
  /\ Lost("direct", direct[w].over)
  /\ queue' = NotedBy("direct", queue)
  /\ direct' = [NotedBy("direct", direct) EXCEPT ![w] = [pc |-> "done", copy |-> Unread, over |-> {}]]
  /\ UNCHANGED <<log, service, start, run, intr, steers, abandoned, steeredLate>>

DeleteThread ==
  /\ CanDelete /\ thread # NoThread
  /\ thread' = NoThread
  /\ queue' = NotedBy("direct", queue)
  /\ direct' = NotedBy("direct", direct)
  /\ UNCHANGED <<log, service, start, run, intr, steers, history>>
-----------------------------------------------------------------------------
RunStep(t) ==
  \/ \E m \in Mode : Launch(t, m)
  \/ \E s \in {"open", "closed"} : PutItem(t, s)
  \/ \E w \in {"approval", "input"} : Ask(t, w)
  \/ PersonAnswers(t) \/ CancelInput(t)
  \/ ItemIsPut(t) \/ Drain(t) \/ LeaveUnfinished(t) \/ AfterFinish(t)
  \/ \E s \in Ended : End(t, s)

DirectStep(w) == ReadThread(w) \/ WriteThread(w)
JobStep == \E i \in DOMAIN queue : ReadJob(i) \/ WriteJob(i)
StartStep(t) == Announce(t) \/ Register(t)
InterruptStep(i) == LoadItems(i) \/ RewriteItems(i) \/ MarkAborted(i) \/ InterruptReturns(i)

Quiet ==
  /\ queue = <<>>
  /\ \A t \in Turn : start[t] \in {"none", "notFound"} \/ run[t].pc = "done"
  /\ \A i \in Interrupt : intr[i].pc \in {"idle", "done"}
  /\ \A w \in DOMAIN direct : direct[w].pc \in {"idle", "done"}

Next ==
  \/ JobStep
  \/ \E t \in Turn :
       StartTurn(t) \/ StartStep(t) \/ RunStep(t) \/ SteerTurn(t)
  \/ \E i \in Interrupt :
       (\E t \in Turn, d \in BOOLEAN : InterruptTurn(i, t, d)) \/ InterruptStep(i)
  \/ \E w \in Editor : CallEdit(w)
  \/ \E w \in DOMAIN direct : DirectStep(w)
  \/ DeleteThread
  \/ Quiet /\ UNCHANGED vars

Spec == Init /\ [][Next]_vars

\* Promises settle; nobody need answer what a tool asks, but a runner that does not wait for
\* a person gets to an end, which its budget of steps sees to.
RunEnds(t) == (\E s \in Ended : End(t, s)) \/ LeaveUnfinished(t)
Fairness ==
  /\ WF_vars(JobStep)
  /\ \A t \in Turn :
       /\ WF_vars(StartStep(t))
       /\ WF_vars(\E m \in Mode : Launch(t, m)) /\ WF_vars(ItemIsPut(t)) /\ WF_vars(AfterFinish(t))
       /\ WF_vars(CancelInput(t))
       /\ SF_vars(RunEnds(t))

FairSpec == Spec /\ Fairness
-----------------------------------------------------------------------------
TypeOK ==
  /\ thread = NoThread \/ thread \in ThreadRecord
  /\ log \subseteq Turn /\ registered \subseteq Turn /\ tracked \subseteq Turn /\ aborted \subseteq Turn
  /\ buffer \in [Turn -> {"none", "empty", "text"}]
  /\ start \in [Turn -> {"none", "notFound", "storing", "announced", "registered"}]
  /\ \A t \in Turn : run[t].pc \in {"none", "running", "approval", "input", "putting", "finishing", "done"}
  /\ \A i \in DOMAIN queue :
       /\ queue[i].op \in {"start", "project", "finish", "interrupt"} /\ queue[i].turn \in Turn
       /\ queue[i].copy = Unread \/ queue[i].copy \in ThreadRecord
  /\ \A w \in DOMAIN direct : direct[w].copy = Unread \/ direct[w].copy \in ThreadRecord

\* The queue of upsertThread: what one queued mutation wrote no other one throws away.
QueuedWritesAreSerial == <<"queued", "queued">> \notin lost

\* When every call has returned, each turn that a runner finished has ended, has no open
\* item, controller or inflight entry, and the thread is idle, however starts, interrupts
\* and runners overlapped, unless a direct write threw away a mutation.
SettledWhenQuiet ==
  Quiet /\ lost = {} /\ thread # NoThread =>
    /\ \A t \in Turn \ abandoned : start[t] = "registered" =>
         thread.turn[t] \in Ended \cup {"absent"} /\ thread.item[t] # "open"
    /\ (registered \cup tracked) \subseteq abandoned
    /\ abandoned = {} => thread.status = "idle"

\* What an editor wrote is in the record for good, unless an overlapping write took it away.
EditsAreKept ==
  lost = {} /\ thread # NoThread => \A w \in Editor : direct[w].pc = "done" => w \in thread.edits

\* Somebody writes a copy that was overwritten since it was read.
StaleCopyIsWritten ==
  \/ \E i \in DOMAIN queue : queue[i].over # {} /\ Len(queue') < Len(queue)
  \/ \E w \in DOMAIN direct : direct[w].over # {} /\ direct'[w].pc = "done"

\* A turn that has ended runs again only because a stale copy was written back.
EndedStaysEnded ==
  [][\A t \in Turn :
       thread # NoThread /\ thread' # NoThread /\ thread.turn[t] \in Ended /\ thread'.turn[t] = "running"
         => StaleCopyIsWritten]_vars

\* A steering buffer outlives its turn only if the turn was steered without a controller.
BuffersAreCleared ==
  Quiet => \A t \in Turn \ (steeredLate \cup abandoned) : buffer[t] = "none"

\* A turn that runs ends, unless its runner waits for a person who never answers, or left
\* it, the thread was deleted or a stale copy was written back. That somebody is asked now
\* and then is no excuse, nor that the turn asks for input when it is interrupted.
EveryTurnEnds ==
  \A t \in Turn :
    (thread # NoThread /\ thread.turn[t] = "running")
      ~> \/ thread = NoThread \/ thread.turn[t] # "running" \/ lost # {} \/ t \in abandoned
         \/ [](run[t].pc = "approval" \/ (run[t].pc = "input" /\ t \notin aborted))

\* When nobody is at work nothing is left open, and no edit or queued mutation is lost
\* but to a direct write.
QuietThreadIsSettled ==
  TypeOK /\ QueuedWritesAreSerial /\ SettledWhenQuiet /\ EditsAreKept /\ BuffersAreCleared
=============================================================================
