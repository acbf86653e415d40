---------------------------- MODULE Turns_proofs ----------------------------
(***************************************************************************)
(* Proofs about ThreadTurns, for any turns, editors, interrupts and        *)
(* runners, and about ToolLoop, for any calls, limits and replies.         *)
(***************************************************************************)
EXTENDS ThreadTurns, ToolLoop, FiniteSetTheorems, SequenceTheorems, WellFoundedInduction, TLAPS

Caller == ({"start", "run"} \X Turn) \cup ({"intr"} \X Interrupt)
JobRecord ==
  [op : {"start", "project", "finish", "interrupt"}, turn : Turn,
   status : {"running", "open", "closed"} \cup Ended, discard : BOOLEAN, caller : Caller,
   copy : ThreadRecord \cup {Unread}, over : SUBSET {"queued", "direct"}]
CallRecord ==
  [pc : {"idle", "called", "read", "done"}, copy : ThreadRecord \cup {Unread},
   over : SUBSET {"queued", "direct"}]
RunRecord ==
  [pc : {"none", "running", "approval", "input", "putting", "finishing", "done"}, mode : Mode \cup {"none"}]
InterruptRecord ==
  [pc : {"idle", "aborted", "loaded", "rewritten", "marking", "done"}, turn : Turn \cup {"none"},
   discard : BOOLEAN, seen : SUBSET Turn]
-----------------------------------------------------------------------------
(***************************************************************************)
(* The inductive invariant.                                                *)
(***************************************************************************)
StateInv ==
  /\ thread \in ThreadRecord \cup {NoThread}
  /\ log \subseteq Turn /\ registered \subseteq Turn /\ tracked \subseteq Turn /\ aborted \subseteq Turn
  /\ buffer \in [Turn -> {"none", "empty", "text"}]
  /\ start \in [Turn -> {"none", "notFound", "storing", "announced", "registered"}]
  /\ run \in [Turn -> RunRecord]
  /\ direct \in [Editor \cup Turn -> CallRecord]
  /\ intr \in [Interrupt -> InterruptRecord]
  /\ \A i \in Interrupt : intr[i].pc # "idle" => intr[i].turn \in Turn

\* A job is queued by a call that waits for it.
JobInv(job) ==
  /\ job.op = "start" => job.caller = <<"start", job.turn>> /\ start[job.turn] = "storing"
  /\ job.op = "project" =>
       job.caller = <<"run", job.turn>> /\ run[job.turn].pc = "putting" /\ job.status \in {"open", "closed"}
  /\ job.op = "finish" =>
       job.caller = <<"run", job.turn>> /\ run[job.turn].pc = "finishing" /\ job.status \in Ended
  /\ job.op = "interrupt" => job.status = "aborted" /\ job.caller \in {"intr"} \X Interrupt

\* Only the first one has read the record, and no queued write comes in between; a call
\* waits for one job at a time.
Serial(s) ==
  /\ s \in Seq(JobRecord)
  /\ \A i \in DOMAIN s :
       /\ i # 1 => s[i].copy = Unread
       /\ "queued" \notin s[i].over
       /\ s[i].copy = Unread => s[i].over = {}
  /\ \A i, j \in DOMAIN s : s[i].op # "interrupt" /\ s[i].caller = s[j].caller => i = j

QueueInv ==
  /\ Serial(queue)
  /\ \A i \in DOMAIN queue : JobInv(queue[i])
  /\ <<"queued", "queued">> \notin lost

\* A copy that nobody overwrote is the record.
CopyInv ==
  /\ \A i \in DOMAIN queue : queue[i].copy # Unread /\ queue[i].over = {} => queue[i].copy = thread
  /\ \A w \in DOMAIN direct :
       /\ direct[w].pc = "read" => direct[w].copy # Unread
       /\ direct[w].copy # Unread /\ direct[w].over = {} => direct[w].copy = thread

AtWork == {"none", "running", "approval", "input", "putting"}
USE DEF AtWork

\* Controllers, inflight entries and buffers are those of turns that are at work.
ServiceInv ==
  \A t \in Turn :
    /\ run[t].pc # "none" => start[t] = "registered"
    /\ t \in registered \cup tracked =>
         start[t] = "registered" /\ (run[t].pc \in AtWork \/ t \in abandoned)
    /\ buffer[t] # "none" => t \in registered \cup steeredLate \cup abandoned

\* The finish of the turn has been written, or was left out.
IsOver(t) ==
  run[t].pc = "done" \/ (run[t].pc = "finishing" /\ Awaited(<<"run", t>>))

\* As long as nothing was thrown away.
RecordInv ==
  lost = {} /\ thread # NoThread =>
    /\ \A w \in Editor : direct[w].pc = "done" => w \in thread.edits
    /\ \A t \in Turn \ abandoned :
         IsOver(t) => thread.turn[t] \in Ended \cup {"absent"} /\ thread.item[t] # "open"
    /\ abandoned = {} /\ thread.status = "running" =>
         \E t \in Turn : start[t] \in {"storing", "announced", "registered"} /\ ~IsOver(t)

\* A turn that has not been stored is in no copy of the record.
Unstored(t) ==
  start[t] \in {"none", "notFound"} \/ \E i \in DOMAIN queue : queue[i].op = "start" /\ queue[i].turn = t

UnstoredInv ==
  \A t \in Turn : Unstored(t) =>
    /\ thread # NoThread => thread.turn[t] = "absent"
    /\ \A i \in DOMAIN queue : queue[i].copy # Unread => queue[i].copy.turn[t] = "absent"
    /\ \A w \in DOMAIN direct : direct[w].copy # Unread => direct[w].copy.turn[t] = "absent"

ThreadInv ==
  StateInv /\ QueueInv /\ CopyInv /\ ServiceInv /\ RecordInv /\ UnstoredInv
-----------------------------------------------------------------------------
(***************************************************************************)
(* The queue.                                                              *)
(***************************************************************************)
LEMMA FirstRemoved ==
  ASSUME NEW S, NEW s \in Seq(S), s # <<>>
  PROVE  /\ RemoveAt(s, 1) \in Seq(S)
         /\ Len(RemoveAt(s, 1)) = Len(s) - 1
         /\ \A k \in 1 .. Len(s) - 1 : RemoveAt(s, 1)[k] = s[k + 1]
<1>1. /\ Tail(s) \in Seq(S) /\ Len(Tail(s)) = Len(s) - 1
      /\ \A k \in 1 .. Len(Tail(s)) : Tail(s)[k] = s[k + 1]
  BY HeadTailProperties
<1>2. SubSeq(s, 1, 0) = <<>> /\ <<>> \o Tail(s) = Tail(s)
  BY <1>1, SubSeqEmpty
<1>3. RemoveAt(s, 1) = SubSeq(s, 1, 0) \o SubSeq(s, 2, Len(s))
  BY DEF RemoveAt
<1>4. RemoveAt(s, 1) = Tail(s)
  BY <1>2, <1>3, TailIsSubSeq
<1>5. QED
  BY <1>1, <1>4

\* NotedBy tells every job that has read the record, and changes nothing else.
LEMMA NotedQueue ==
  ASSUME NEW s \in Seq(JobRecord), NEW kind \in {"queued", "direct"}
  PROVE  /\ NotedBy(kind, s) \in Seq(JobRecord)
         /\ Len(NotedBy(kind, s)) = Len(s)
         /\ \A k \in 1 .. Len(s) :
              /\ s[k].copy = Unread => NotedBy(kind, s)[k] = s[k]
              /\ s[k].copy # Unread =>
                   NotedBy(kind, s)[k] = [s[k] EXCEPT !.over = @ \cup {kind}]
<1> DEFINE t == [p \in 1 .. Len(s) |->
                   IF s[p].copy = Unread THEN s[p] ELSE [s[p] EXCEPT !.over = @ \cup {kind}]]
<1>1. NotedBy(kind, s) = t
  BY DEF NotedBy
<1>2. \A k \in 1 .. Len(s) : t[k] \in JobRecord
  <2> SUFFICES ASSUME NEW k \in 1 .. Len(s) PROVE t[k] \in JobRecord
    OBVIOUS
  <2>1. s[k] \in JobRecord
    OBVIOUS
  <2>2. [s[k] EXCEPT !.over = @ \cup {kind}] \in JobRecord
    BY <2>1 DEF JobRecord
  <2>3. QED
    BY <2>1, <2>2
<1>3. t \in Seq(JobRecord) /\ Len(t) = Len(s)
  BY <1>2
<1>4. QED
  BY <1>1, <1>3

LEMMA NotedCalls ==
  ASSUME StateInv, NEW kind \in {"queued", "direct"}
  PROVE  /\ NotedBy(kind, direct) \in [Editor \cup Turn -> CallRecord]
         /\ \A w \in Editor \cup Turn :
              /\ direct[w].copy = Unread => NotedBy(kind, direct)[w] = direct[w]
              /\ direct[w].copy # Unread =>
                   NotedBy(kind, direct)[w] = [direct[w] EXCEPT !.over = @ \cup {kind}]
<1>1. DOMAIN direct = Editor \cup Turn
  BY DEF StateInv
<1>2. \A w \in Editor \cup Turn : direct[w] \in CallRecord
  BY DEF StateInv
<1>3. \A w \in Editor \cup Turn : [direct[w] EXCEPT !.over = @ \cup {kind}] \in CallRecord
  BY <1>2 DEF CallRecord
<1>4. QED
  BY <1>1, <1>2, <1>3 DEF NotedBy

\* What a mutation does to the turns of the record.
LEMMA MutatedRecord ==
  ASSUME NEW job \in JobRecord, JobInv(job), NEW r \in ThreadRecord
  PROVE  /\ Mutated(job, r) \in ThreadRecord
         /\ Mutated(job, r).edits = r.edits
         /\ \A t \in Turn : t # job.turn =>
              Mutated(job, r).turn[t] = r.turn[t] /\ Mutated(job, r).item[t] = r.item[t]
<1> USE DEF ThreadRecord, JobRecord, JobInv
<1>1. CASE job.op = "start"
  BY <1>1 DEF Mutated
<1>2. CASE job.op = "project"
  BY <1>2 DEF Mutated, Projected
<1>3. CASE job.op = "finish" \/ job.op = "interrupt"
  BY <1>3 DEF Mutated, Finished, Closed, Ended
<1>4. QED
  BY <1>1, <1>2, <1>3

\* ... and to its own one.
LEMMA MutatedTurn ==
  ASSUME NEW job \in JobRecord, JobInv(job), NEW r \in ThreadRecord
  PROVE  LET m == Mutated(job, r) IN
         /\ job.op = "start" => m.turn[job.turn] = "running"
         /\ job.op = "project" => m.turn[job.turn] = r.turn[job.turn] /\ m.status = r.status
         /\ job.op \in {"finish", "interrupt"} =>
              /\ m.turn[job.turn] \in Ended \cup {"absent"}
              /\ r.turn[job.turn] = "absent" => m.turn[job.turn] = "absent"
              /\ r.item[job.turn] # "open" => m.item[job.turn] # "open"
              /\ job.op = "finish" => m.item[job.turn] # "open" /\ m.status = "idle"
              /\ m.status = "running" => m = r
<1> USE DEF ThreadRecord, JobRecord, JobInv
<1>1. CASE job.op = "start"
  BY <1>1 DEF Mutated
<1>2. CASE job.op = "project"
  BY <1>2 DEF Mutated, Projected
<1>3. CASE job.op = "finish"
  BY ZenonT(60), <1>3 DEF Mutated, Finished, Closed, Ended
<1>4. CASE job.op = "interrupt"
  BY <1>4 DEF Mutated, Finished, Closed, Ended
<1>5. QED
  BY <1>1, <1>2, <1>3, <1>4

LEMMA SerialRemoved ==
  ASSUME NEW s, Serial(s), s # <<>>
  PROVE  /\ Serial(RemoveAt(s, 1))
         /\ \A k \in DOMAIN RemoveAt(s, 1) : k + 1 \in DOMAIN s /\ RemoveAt(s, 1)[k] = s[k + 1]
         /\ \A k \in DOMAIN s : k # 1 => k - 1 \in DOMAIN RemoveAt(s, 1) /\ RemoveAt(s, 1)[k - 1] = s[k]
<1> DEFINE r == RemoveAt(s, 1)
<1>1. s \in Seq(JobRecord)
  BY DEF Serial
<1>2. r \in Seq(JobRecord) /\ Len(r) = Len(s) - 1 /\ \A k \in 1 .. Len(s) - 1 : r[k] = s[k + 1]
  BY <1>1, FirstRemoved
<1> HIDE DEF r
<1>3. DOMAIN r = 1 .. Len(s) - 1 /\ DOMAIN s = 1 .. Len(s) /\ Len(s) \in Nat
  BY <1>1, <1>2
<1>4. \A k \in DOMAIN r : k + 1 \in DOMAIN s /\ r[k] = s[k + 1] /\ k + 1 # 1
  BY <1>2, <1>3
<1>5. \A k \in DOMAIN s : k # 1 => k - 1 \in DOMAIN r /\ r[k - 1] = s[k]
  <2> SUFFICES ASSUME NEW k \in DOMAIN s, k # 1 PROVE k - 1 \in DOMAIN r /\ r[k - 1] = s[k]
    OBVIOUS
  <2>1. k - 1 \in 1 .. Len(s) - 1 /\ (k - 1) + 1 = k
    BY <1>3
  <2>2. QED
    BY <2>1, <1>2, <1>3
<1>6. Serial(r)
  <2>1. \A i \in DOMAIN r : /\ r[i].copy = Unread /\ "queued" \notin r[i].over
                            /\ r[i].copy = Unread => r[i].over = {}
    BY <1>4 DEF Serial
  <2>2. ASSUME NEW i \in DOMAIN r, NEW j \in DOMAIN r,
               r[i].op # "interrupt", r[i].caller = r[j].caller
        PROVE  i = j
    <3>1. s[i + 1].op # "interrupt" /\ s[i + 1].caller = s[j + 1].caller
      BY <1>4, <2>2
    <3>2. i + 1 = j + 1
      BY <1>4, <3>1 DEF Serial
    <3>3. QED
      BY <3>2, <1>3
  <2>3. QED
    BY <1>2, <2>1, <2>2 DEF Serial
<1>7. QED
  BY <1>4, <1>5, <1>6 DEF r

LEMMA SerialNoted ==
  ASSUME NEW s, Serial(s), NEW kind \in {"queued", "direct"}
  PROVE  LET n == NotedBy(kind, s) IN
         /\ DOMAIN n = DOMAIN s
         /\ \A k \in DOMAIN s :
              /\ s[k].copy = Unread => n[k] = s[k]
              /\ s[k].copy # Unread => n[k] = [s[k] EXCEPT !.over = @ \cup {kind}]
         /\ kind = "direct" => Serial(n)
         /\ n \in Seq(JobRecord)
<1> DEFINE n == NotedBy(kind, s)
<1>1. s \in Seq(JobRecord) /\ DOMAIN s = 1 .. Len(s)
  BY DEF Serial
<1>2. /\ n \in Seq(JobRecord) /\ Len(n) = Len(s)
      /\ \A k \in 1 .. Len(s) :
           /\ s[k].copy = Unread => n[k] = s[k]
           /\ s[k].copy # Unread => n[k] = [s[k] EXCEPT !.over = @ \cup {kind}]
  BY <1>1, NotedQueue
<1> HIDE DEF n
<1>3. DOMAIN n = DOMAIN s
  BY <1>1, <1>2
<1>4. \A k \in DOMAIN s :
        /\ n[k].copy = s[k].copy /\ n[k].op = s[k].op /\ n[k].caller = s[k].caller
        /\ s[k].copy = Unread => n[k].over = s[k].over
        /\ n[k].over \subseteq s[k].over \cup {kind}
  <2> SUFFICES ASSUME NEW k \in DOMAIN s
               PROVE  /\ n[k].copy = s[k].copy /\ n[k].op = s[k].op /\ n[k].caller = s[k].caller
                      /\ s[k].copy = Unread => n[k].over = s[k].over
                      /\ n[k].over \subseteq s[k].over \cup {kind}
    OBVIOUS
  <2>1. s[k] \in JobRecord
    BY <1>1
  <2>2. QED
    BY <2>1, <1>1, <1>2 DEF JobRecord
<1>5. ASSUME kind = "direct" PROVE Serial(n)
  BY <1>2, <1>3, <1>4, <1>5 DEF Serial
<1>6. QED
  BY <1>1, <1>2, <1>3, <1>5 DEF n

\* What a direct write leaves of the queue.
LEMMA QueueNoted ==
  ASSUME Serial(queue), queue' = NotedBy("direct", queue)
  PROVE  /\ Serial(queue)' /\ DOMAIN queue' = DOMAIN queue
         /\ \A k \in DOMAIN queue :
              /\ queue[k].copy = Unread => queue'[k] = queue[k]
              /\ queue[k].copy # Unread => queue'[k] = [queue[k] EXCEPT !.over = @ \cup {"direct"}]
<1> DEFINE n == NotedBy("direct", queue)
<1>1. /\ Serial(n) /\ DOMAIN n = DOMAIN queue
      /\ \A k \in DOMAIN queue :
           /\ queue[k].copy = Unread => n[k] = queue[k]
           /\ queue[k].copy # Unread => n[k] = [queue[k] EXCEPT !.over = @ \cup {"direct"}]
  BY ZenonT(60), SerialNoted
<1>2. queue' = n
  OBVIOUS
<1> HIDE DEF n
<1>3. QED
  BY <1>1, <1>2

LEMMA SerialAppended ==
  ASSUME NEW s, Serial(s), NEW job \in JobRecord, job.copy = Unread, job.over = {},
         \A i \in DOMAIN s : s[i].caller = job.caller =>
           s[i].op = "interrupt" /\ job.op = "interrupt"
  PROVE  LET a == Append(s, job) IN
         /\ Serial(a) /\ DOMAIN a = DOMAIN s \cup {Len(s) + 1}
         /\ a[Len(s) + 1] = job /\ \A k \in DOMAIN s : a[k] = s[k]
<1> DEFINE a == Append(s, job)
<1>1. s \in Seq(JobRecord) /\ DOMAIN s = 1 .. Len(s) /\ Len(s) \in Nat
  BY DEF Serial
<1>2. /\ a \in Seq(JobRecord) /\ DOMAIN a = DOMAIN s \cup {Len(s) + 1} /\ Len(s) + 1 \notin DOMAIN s
      /\ a[Len(s) + 1] = job /\ \A k \in DOMAIN s : a[k] = s[k]
  BY <1>1
<1> HIDE DEF a
<1>3. Serial(a)
  BY <1>2 DEF Serial
<1>4. QED
  BY <1>2, <1>3 DEF a

-----------------------------------------------------------------------------
(***************************************************************************)
(* The steps.                                                              *)
(***************************************************************************)
LEMMA InitThreadInv == Init => ThreadInv
<1> SUFFICES ASSUME Init PROVE ThreadInv
  OBVIOUS
<1> USE DEF Init
<1>1. StateInv
  <2>1. thread \in ThreadRecord
    BY DEF ThreadRecord
  <2>2. direct \in [Editor \cup Turn -> CallRecord]
    BY DEF CallRecord
  <2>3. run \in [Turn -> RunRecord] /\ intr \in [Interrupt -> InterruptRecord]
    BY DEF RunRecord, InterruptRecord
  <2>4. QED
    BY <2>1, <2>2, <2>3 DEF StateInv
<1>2. QueueInv
  BY DEF QueueInv, Serial
<1>3. CopyInv /\ ServiceInv
  BY DEF CopyInv, ServiceInv
<1>4. RecordInv
  BY DEF RecordInv, IsOver
<1>5. UnstoredInv
  BY DEF UnstoredInv
<1>6. QED
  BY <1>1, <1>2, <1>3, <1>4, <1>5 DEF ThreadInv

\* Only jobs of the queue are read and written, and only the first one is.
LEMMA FirstJob ==
  ASSUME QueueInv, NEW i \in DOMAIN queue, ReadJob(i) \/ WriteJob(i)
  PROVE  /\ i = 1 /\ queue # <<>> /\ queue[1] \in JobRecord /\ JobInv(queue[1])
         /\ Len(queue) \in Nat /\ DOMAIN queue = 1 .. Len(queue)
<1>1. queue \in Seq(JobRecord)
  BY DEF QueueInv, Serial
<1>2. i = 1
  BY DEF QueueInv, Serial, ReadJob, WriteJob, MayRead
<1>3. queue # <<>> /\ queue[1] \in JobRecord
  BY <1>1, <1>2
<1>4. JobInv(queue[1])
  BY <1>2 DEF QueueInv
<1>5. QED
  BY <1>1, <1>2, <1>3, <1>4

PersonStep(t) == (\E w \in {"approval", "input"} : Ask(t, w)) \/ PersonAnswers(t) \/ CancelInput(t)

\* A question to a person and its answer move only the runner.
LEMMA PersonStepMoves ==
  ASSUME NEW t, PersonStep(t)
  PROVE  /\ run[t].pc \in {"running", "approval", "input"}
         /\ \E x \in {"running", "approval", "input"} : run' = [run EXCEPT ![t] = [run[t] EXCEPT !.pc = x]]
         /\ UNCHANGED <<thread, log, queue, service, start, direct, intr, steers, history>>
<1>1. CASE \E w \in {"approval", "input"} : Ask(t, w)
  BY <1>1 DEF Ask
<1>2. CASE PersonAnswers(t) \/ CancelInput(t)
  BY <1>2 DEF PersonAnswers, CancelInput, WaitsForPerson
<1>3. QED
  BY <1>1, <1>2 DEF PersonStep

\* Where a runner may be after its step.
LEMMA RunTypes ==
  ASSUME StateInv, NEW t \in Turn, RunStep(t)
  PROVE  run' \in [Turn -> RunRecord] /\ \A u \in Turn : u # t => run'[u] = run[u]
<1> USE DEF StateInv
<1>1. run[t] \in RunRecord
  OBVIOUS
<1>2. ASSUME NEW x \in {"running", "approval", "input", "putting", "finishing", "done"}
      PROVE  [run[t] EXCEPT !.pc = x] \in RunRecord
  BY <1>1 DEF RunRecord
<1>3. ASSUME NEW x \in {"running", "finishing", "done"}, NEW m \in Mode
      PROVE  [pc |-> x, mode |-> m] \in RunRecord
  BY DEF RunRecord
<1>4. CASE \E m \in Mode : Launch(t, m)
  <2>1. PICK m \in Mode : Launch(t, m)
    BY <1>4
  <2>2. \E x \in {"running", "finishing", "done"} : run' = [run EXCEPT ![t] = [pc |-> x, mode |-> m]]
    BY <2>1 DEF Launch
  <2>3. QED
    BY <2>2, <1>3
<1>5. CASE ~\E m \in Mode : Launch(t, m)
  <2>1. \/ run' = run
        \/ \E x \in {"running", "approval", "input", "putting", "finishing", "done"} :
             run' = [run EXCEPT ![t] = [run[t] EXCEPT !.pc = x]]
    <3>1. CASE \E k \in {"open", "closed"} : PutItem(t, k)
      BY <3>1 DEF PutItem
    <3>2. CASE ItemIsPut(t)
      BY <3>2 DEF ItemIsPut
    <3>3. CASE Drain(t)
      BY <3>3 DEF Drain
    <3>4. CASE LeaveUnfinished(t)
      BY <3>4 DEF LeaveUnfinished
    <3>5. CASE AfterFinish(t)
      BY <3>5 DEF AfterFinish
    <3>6. CASE \E k \in Ended : End(t, k)
      BY <3>6 DEF End, Finish
    <3>7. CASE PersonStep(t)
      BY <3>7, PersonStepMoves
    <3>8. QED
      BY <1>5, <3>1, <3>2, <3>3, <3>4, <3>5, <3>6, <3>7 DEF RunStep, PersonStep
  <2>2. QED
    BY <2>1, <1>2
<1>6. QED
  BY <1>4, <1>5

\* Types.
LEMMA StepState ==
  ASSUME StateInv, QueueInv, CopyInv, [Next]_vars
  PROVE  StateInv'
<1> USE DEF StateInv, service, history
<1>1. ASSUME NEW i \in DOMAIN queue, ReadJob(i) PROVE StateInv'
  BY <1>1 DEF ReadJob
<1>2. ASSUME NEW i \in DOMAIN queue, WriteJob(i) PROVE StateInv'
  <2>1. queue[i] \in JobRecord /\ JobInv(queue[i]) /\ queue[i].copy \in ThreadRecord
    <3>1. queue[i] \in JobRecord /\ JobInv(queue[i])
      BY <1>2, FirstJob
    <3>2. QED
      BY <3>1, <1>2 DEF WriteJob, JobRecord
  <2>2. thread' \in ThreadRecord
    BY <1>2, <2>1, MutatedRecord DEF WriteJob
  <2>3. direct' \in [Editor \cup Turn -> CallRecord]
    BY <1>2, NotedCalls DEF WriteJob
  <2>4. QED
    BY <1>2, <2>2, <2>3 DEF WriteJob
<1>3. ASSUME NEW t \in Turn, StartTurn(t) PROVE StateInv'
  BY <1>3 DEF StartTurn
<1>4. ASSUME NEW t \in Turn, StartStep(t) PROVE StateInv'
  <2>1. CASE Announce(t)
    BY <2>1 DEF Announce
  <2>2. CASE Register(t)
    BY <2>2 DEF Register
  <2>3. QED
    BY <1>4, <2>1, <2>2 DEF StartStep
<1>5. ASSUME NEW t \in Turn, SteerTurn(t) PROVE StateInv'
  BY <1>5 DEF SteerTurn
<1>6. ASSUME NEW t \in Turn, RunStep(t) PROVE StateInv'
  <2>1. run' \in [Turn -> RunRecord]
    BY <1>6, RunTypes
  <2>2. buffer' \in [Turn -> {"none", "empty", "text"}] /\ registered' \subseteq Turn /\ tracked' \subseteq Turn
    BY <1>6 DEF RunStep, Launch, Released, PutItem, ItemIsPut, Ask, PersonAnswers, CancelInput,
       Drain, End, Finish, LeaveUnfinished, AfterFinish
  <2>3. direct' \in [Editor \cup Turn -> CallRecord]
    <3>1. direct[t] \in CallRecord
      OBVIOUS
    <3>2. [direct[t] EXCEPT !.pc = "called"] \in CallRecord
      BY <3>1 DEF CallRecord
    <3>3. direct' = direct \/ direct' = [direct EXCEPT ![t] = [direct[t] EXCEPT !.pc = "called"]]
      BY <1>6 DEF RunStep, Launch, PutItem, ItemIsPut, Ask, PersonAnswers, CancelInput, Drain, End,
         LeaveUnfinished, AfterFinish
    <3>4. QED
      BY <3>2, <3>3
  <2>4. thread' = thread /\ log' \subseteq Turn /\ aborted' = aborted /\ start' = start /\ intr' = intr
    BY <1>6 DEF RunStep, Launch, PutItem, ItemIsPut, Ask, PersonAnswers, CancelInput, Drain, End,
       LeaveUnfinished, AfterFinish
  <2>5. QED
    BY <2>1, <2>2, <2>3, <2>4
<1>7. ASSUME NEW i \in Interrupt, NEW t \in Turn, NEW d \in BOOLEAN, InterruptTurn(i, t, d)
      PROVE  StateInv'
  <2>1. intr[i] \in InterruptRecord
    OBVIOUS
  <2>2. [intr[i] EXCEPT !.pc = "aborted", !.turn = t, !.discard = d] \in InterruptRecord
    BY <2>1 DEF InterruptRecord
  <2>3. intr' = [intr EXCEPT ![i] = [intr[i] EXCEPT !.pc = "aborted", !.turn = t, !.discard = d]]
    BY <1>7 DEF InterruptTurn
  <2>4. intr' \in [Interrupt -> InterruptRecord] /\ intr'[i].turn = t
    BY <2>1, <2>2, <2>3 DEF InterruptRecord
  <2>5. QED
    BY <1>7, <2>3, <2>4 DEF InterruptTurn, Released
<1>8. ASSUME NEW i \in Interrupt, InterruptStep(i) PROVE StateInv'
  <2>1. intr[i] \in InterruptRecord /\ intr[i].turn \in Turn
    BY <1>8 DEF InterruptStep, LoadItems, RewriteItems, MarkAborted, InterruptReturns
  <2>2. ASSUME NEW x \in {"loaded", "rewritten", "marking", "done"}, NEW l \in SUBSET Turn,
               \/ intr' = [intr EXCEPT ![i] = [intr[i] EXCEPT !.pc = x, !.seen = l]]
               \/ intr' = [intr EXCEPT ![i] = [intr[i] EXCEPT !.pc = x]]
        PROVE  intr' \in [Interrupt -> InterruptRecord] /\ intr'[i].turn = intr[i].turn
    <3>1. ASSUME NEW y \in InterruptRecord, y.turn = intr[i].turn, intr' = [intr EXCEPT ![i] = y]
          PROVE  intr' \in [Interrupt -> InterruptRecord] /\ intr'[i].turn = intr[i].turn
      BY <3>1
    <3>2. /\ [intr[i] EXCEPT !.pc = x, !.seen = l] \in InterruptRecord
          /\ [intr[i] EXCEPT !.pc = x, !.seen = l].turn = intr[i].turn
      BY <2>1 DEF InterruptRecord
    <3>3. /\ [intr[i] EXCEPT !.pc = x] \in InterruptRecord
          /\ [intr[i] EXCEPT !.pc = x].turn = intr[i].turn
      BY <2>1 DEF InterruptRecord
    <3>4. CASE intr' = [intr EXCEPT ![i] = [intr[i] EXCEPT !.pc = x, !.seen = l]]
      BY <3>1, <3>2, <3>4
    <3>5. CASE intr' = [intr EXCEPT ![i] = [intr[i] EXCEPT !.pc = x]]
      BY <3>1, <3>3, <3>5
    <3>6. QED
      BY <2>2, <3>4, <3>5
  <2>3. intr' \in [Interrupt -> InterruptRecord] /\ intr'[i].turn = intr[i].turn
    <3>1. PICK x \in {"loaded", "rewritten", "marking", "done"} :
            \/ intr' = [intr EXCEPT ![i] = [intr[i] EXCEPT !.pc = x, !.seen = log]]
            \/ intr' = [intr EXCEPT ![i] = [intr[i] EXCEPT !.pc = x]]
      <4>1. CASE LoadItems(i)
        BY <4>1 DEF LoadItems
      <4>2. CASE RewriteItems(i)
        BY <4>2 DEF RewriteItems
      <4>3. CASE MarkAborted(i)
        BY <4>3 DEF MarkAborted
      <4>4. CASE InterruptReturns(i)
        BY <4>4 DEF InterruptReturns
      <4>5. QED
        BY <1>8, <4>1, <4>2, <4>3, <4>4 DEF InterruptStep
    <3>2. QED
      BY <2>2, <3>1
  <2>4. log' \subseteq Turn
    BY <1>8, <2>1 DEF InterruptStep, LoadItems, RewriteItems, MarkAborted, InterruptReturns, InterruptRecord
  <2>5. \A k \in Interrupt : k # i => intr'[k] = intr[k]
    BY <1>8 DEF InterruptStep, LoadItems, RewriteItems, MarkAborted, InterruptReturns
  <2>6. thread' = thread /\ UNCHANGED service /\ start' = start /\ run' = run /\ direct' = direct
    BY <1>8 DEF InterruptStep, LoadItems, RewriteItems, MarkAborted, InterruptReturns
  <2>7. QED
    BY <2>1, <2>3, <2>4, <2>5, <2>6
<1>9. ASSUME NEW w \in DOMAIN direct, CallEdit(w) \/ ReadThread(w) PROVE StateInv'
  <2>1. direct[w] \in CallRecord
    OBVIOUS
  <2>2. /\ [direct[w] EXCEPT !.pc = "called"] \in CallRecord
        /\ [direct[w] EXCEPT !.pc = "done"] \in CallRecord
        /\ thread # NoThread => [direct[w] EXCEPT !.pc = "read", !.copy = thread] \in CallRecord
    BY <2>1 DEF CallRecord
  <2>3. direct' \in [Editor \cup Turn -> CallRecord]
    BY <1>9, <2>2 DEF CallEdit, ReadThread
  <2>4. QED
    BY <1>9, <2>3 DEF CallEdit, ReadThread
<1>10. ASSUME NEW w \in DOMAIN direct, WriteThread(w) PROVE StateInv'
  <2>1. direct[w].copy \in ThreadRecord
    BY <1>10 DEF WriteThread, CopyInv, CallRecord
  <2>2. thread' \in ThreadRecord
    BY <1>10, <2>1 DEF WriteThread, ThreadRecord
  <2>3. [pc |-> "done", copy |-> Unread, over |-> {}] \in CallRecord
    BY DEF CallRecord
  <2>4. direct' \in [Editor \cup Turn -> CallRecord]
    BY <1>10, <2>3, NotedCalls DEF WriteThread
  <2>5. QED
    BY <1>10, <2>2, <2>4 DEF WriteThread
<1>11. ASSUME DeleteThread PROVE StateInv'
  <2>1. direct' \in [Editor \cup Turn -> CallRecord]
    BY <1>11, NotedCalls DEF DeleteThread
  <2>2. QED
    BY <1>11, <2>1 DEF DeleteThread
<1>12. CASE UNCHANGED vars
  BY <1>12 DEF vars
<1>13. \A w \in Editor : w \in DOMAIN direct
  OBVIOUS
<1>14. QED
  BY <1>1, <1>2, <1>3, <1>4, <1>5, <1>6, <1>7, <1>8, <1>9, <1>10, <1>11, <1>12, <1>13
     DEF Next, JobStep, DirectStep, Quiet

\* A job that waits in the queue keeps its caller waiting, and the caller goes on only
\* when it is not there any more.
LEMMA CallersWait ==
  ASSUME StateInv, QueueInv, [Next]_vars, NEW i \in DOMAIN queue, NEW job \in JobRecord,
         job = queue[i]
  PROVE  JobInv(job)'
<1>1. JobInv(job)
  BY DEF QueueInv
<1> SUFFICES /\ job.op = "start" => start'[job.turn] = start[job.turn]
             /\ job.op \in {"project", "finish"} => run'[job.turn].pc = run[job.turn].pc
  BY <1>1 DEF JobInv
<1> USE <1>1 DEF StateInv, JobInv
<1>2. ASSUME NEW t \in Turn, StartTurn(t) PROVE start' = [start EXCEPT ![t] = start'[t]] /\ start[t] = "none" /\ run' = run
  BY <1>2 DEF StartTurn
<1>3. ASSUME NEW t \in Turn, Announce(t) PROVE job.op = "start" => job.turn # t
  BY <1>3 DEF Announce, Awaited
<1>4. ASSUME NEW t \in Turn, StartStep(t)
      PROVE  /\ run' = run /\ \A u \in Turn : u # t => start'[u] = start[u]
             /\ job.op = "start" => job.turn # t
  BY <1>3, <1>4 DEF StartStep, Announce, Register
<1>5. ASSUME NEW t \in Turn, RunStep(t)
      PROVE  start' = start /\ (job.op \in {"project", "finish"} /\ job.turn = t => run'[t].pc = run[t].pc)
  <2>1. start' = start
    BY <1>5 DEF RunStep, Launch, PutItem, ItemIsPut, Ask, PersonAnswers, CancelInput, Drain, End,
       LeaveUnfinished, AfterFinish
  <2>2. ASSUME job.op \in {"project", "finish"}, job.turn = t
        PROVE  run[t].pc \in {"putting", "finishing"} /\ ~Awaited(<<"run", t>>)
    BY <2>2 DEF Awaited
  <2>3. ASSUME run[t].pc \in {"putting", "finishing"}, ~Awaited(<<"run", t>>) PROVE FALSE
    <3>1. ~PersonStep(t)
      BY <2>3, PersonStepMoves
    <3>2. QED
      BY <1>5, <2>3, <3>1 DEF RunStep, PersonStep, Launch, PutItem, ItemIsPut, Drain, End,
         LeaveUnfinished, AfterFinish
  <2>4. QED
    BY <2>1, <2>2, <2>3
<1>6. CASE \E t \in Turn : StartTurn(t)
  BY <1>2, <1>6 DEF JobRecord
<1>7. CASE \E t \in Turn : StartStep(t)
  BY <1>4, <1>7 DEF JobRecord
<1>8. CASE \E t \in Turn : RunStep(t)
  <2>1. PICK t \in Turn : RunStep(t)
    BY <1>8
  <2>2. \A u \in Turn : u # t => run'[u] = run[u]
    BY <2>1, RunTypes
  <2>3. QED
    BY <2>1, <2>2, <1>5 DEF JobRecord
<1>9. CASE UNCHANGED <<start, run>>
  BY <1>9
<1>10. [Next]_vars => \/ \E t \in Turn : StartTurn(t) \/ StartStep(t) \/ RunStep(t)
                      \/ UNCHANGED <<start, run>>
  BY DEF Next, JobStep, ReadJob, WriteJob, SteerTurn, InterruptTurn, InterruptStep, LoadItems, RewriteItems,
         MarkAborted, InterruptReturns, CallEdit, DirectStep, ReadThread, WriteThread, DeleteThread, vars
<1>11. QED
  BY <1>6, <1>7, <1>8, <1>9, <1>10

\* A call that queues a job has none in the queue.
LEMMA JobIsQueued ==
  ASSUME StateInv, QueueInv, [Next]_vars, lost' = lost, NEW job \in JobRecord, Queued(job), JobInv(job)',
         job.copy = Unread, job.over = {},
         \/ job.op = "interrupt"
         \/ job.op = "start" /\ start[job.turn] = "none"
         \/ job.op \in {"project", "finish"} /\ run[job.turn].pc \in {"none", "running"}
  PROVE  QueueInv'
<1>1. Serial(queue) /\ \A i \in DOMAIN queue : queue[i] \in JobRecord /\ JobInv(queue[i])
  BY DEF QueueInv, Serial
<1>2. \A i \in DOMAIN queue : queue[i].caller = job.caller =>
        queue[i].op = "interrupt" /\ job.op = "interrupt"
  <2> SUFFICES ASSUME NEW i \in DOMAIN queue, queue[i].caller = job.caller
               PROVE  queue[i].op = "interrupt" /\ job.op = "interrupt"
    OBVIOUS
  <2>1. /\ job.op = "start" => job.caller = <<"start", job.turn>>
        /\ job.op \in {"project", "finish"} => job.caller = <<"run", job.turn>>
        /\ job.op = "interrupt" => job.caller \in {"intr"} \X Interrupt
    BY DEF JobInv
  <2>2. JobInv(queue[i]) /\ queue[i].op \in {"start", "project", "finish", "interrupt"}
    BY <1>1 DEF JobRecord
  <2>3. job.op \in {"start", "project", "finish", "interrupt"}
    BY DEF JobRecord
  <2>4. QED
    BY <2>1, <2>2, <2>3 DEF JobInv
<1> DEFINE a == Append(queue, job)
<1>3. /\ Serial(a) /\ DOMAIN a = DOMAIN queue \cup {Len(queue) + 1}
      /\ a[Len(queue) + 1] = job /\ \A k \in DOMAIN queue : a[k] = queue[k]
  BY <1>1, <1>2, SerialAppended
<1>4. queue' = a
  BY DEF Queued
<1> HIDE DEF a
<1>5. \A i \in DOMAIN queue' : JobInv(queue[i])'
  <2> SUFFICES ASSUME NEW i \in DOMAIN queue' PROVE JobInv(queue[i])'
    OBVIOUS
  <2>1. CASE i \in DOMAIN queue
    <3>1. PICK b \in JobRecord : b = queue[i]
      BY <1>1, <2>1
    <3>2. JobInv(b)' /\ queue'[i] = b
      BY <2>1, <3>1, <1>3, <1>4, CallersWait
    <3>3. QED
      BY <3>2 DEF JobInv
  <2>2. CASE i = Len(queue) + 1
    <3>1. queue'[i] = job
      BY <2>2, <1>3, <1>4
    <3>2. QED
      BY <3>1 DEF JobInv
  <2>3. QED
    BY <2>1, <2>2, <1>3, <1>4
<1>6. QED
  BY <1>3, <1>4, <1>5 DEF QueueInv

\* A queued write takes its job from the queue, where no other one has read the record.
LEMMA WriteRemoves ==
  ASSUME NEW s, Serial(s), s # <<>>
  PROVE  RemoveAt(NotedBy("queued", s), 1) = RemoveAt(s, 1)
<1> DEFINE n == NotedBy("queued", s)
<1>1. s \in Seq(JobRecord) /\ DOMAIN s = 1 .. Len(s) /\ Len(s) \in Nat /\ Len(s) >= 1
  BY DEF Serial
<1>2. n \in Seq(JobRecord) /\ Len(n) = Len(s) /\ \A k \in 1 .. Len(s) : k # 1 => n[k] = s[k]
  <2>1. /\ n \in Seq(JobRecord) /\ Len(n) = Len(s)
        /\ \A k \in 1 .. Len(s) : s[k].copy = Unread => n[k] = s[k]
    BY <1>1, NotedQueue
  <2>2. \A k \in 1 .. Len(s) : k # 1 => s[k].copy = Unread
    BY <1>1 DEF Serial
  <2> HIDE DEF n
  <2>3. QED
    BY <2>1, <2>2
<1> HIDE DEF n
<1>3. n # <<>>
  BY <1>1, <1>2
<1>4. /\ RemoveAt(n, 1) \in Seq(JobRecord) /\ Len(RemoveAt(n, 1)) = Len(s) - 1
      /\ \A k \in 1 .. Len(s) - 1 : RemoveAt(n, 1)[k] = n[k + 1]
  BY <1>2, <1>3, FirstRemoved
<1>5. /\ RemoveAt(s, 1) \in Seq(JobRecord) /\ Len(RemoveAt(s, 1)) = Len(s) - 1
      /\ \A k \in 1 .. Len(s) - 1 : RemoveAt(s, 1)[k] = s[k + 1]
  BY <1>1, FirstRemoved
<1>6. \A k \in 1 .. Len(s) - 1 : n[k + 1] = s[k + 1]
  BY <1>1, <1>2
<1> DEFINE a == RemoveAt(n, 1)
           b == RemoveAt(s, 1)
<1>7. a \in Seq(JobRecord) /\ b \in Seq(JobRecord) /\ Len(a) = Len(b) /\ \A k \in 1 .. Len(b) : a[k] = b[k]
  BY <1>4, <1>5, <1>6
<1> HIDE DEF a, b
<1>8. a = b
  BY <1>7
<1>9. QED
  BY <1>8 DEF a, b, n

LEMMA StepQueue ==
  ASSUME StateInv, QueueInv, CopyInv, [Next]_vars
  PROVE  QueueInv'
<1>0. Serial(queue) /\ queue \in Seq(JobRecord) /\ \A i \in DOMAIN queue : queue[i] \in JobRecord
  BY DEF QueueInv, Serial
<1>1. CASE queue' = queue /\ lost' = lost
  <2>1. \A i \in DOMAIN queue : JobInv(queue[i])'
    <3> SUFFICES ASSUME NEW i \in DOMAIN queue PROVE JobInv(queue[i])'
      OBVIOUS
    <3>1. PICK job \in JobRecord : job = queue[i]
      BY <1>0
    <3>2. JobInv(job)' /\ queue'[i] = job
      BY <3>1, <1>1, CallersWait
    <3>3. QED
      BY <3>2 DEF JobInv
  <2>2. QED
    BY <2>1, <1>1, <1>0 DEF QueueInv
<1>2. ASSUME NEW t \in Turn, StartTurn(t), thread # NoThread PROVE QueueInv'
  <2> DEFINE job == Job("start", t, "running", FALSE, <<"start", t>>)
  <2>1. job \in JobRecord /\ job.copy = Unread /\ job.over = {} /\ job.op = "start" /\ job.turn = t
        /\ job.caller = <<"start", t>>
    BY DEF Job, JobRecord, Caller
  <2>2. Queued(job) /\ start' = [start EXCEPT ![t] = "storing"] /\ start[t] = "none" /\ lost' = lost
    BY <1>2 DEF StartTurn, history
  <2> HIDE DEF job
  <2>3. JobInv(job)'
    BY <2>1, <2>2 DEF JobInv, StateInv
  <2>4. QED
    BY <2>1, <2>2, <2>3, JobIsQueued
<1>3. ASSUME NEW t \in Turn, NEW op \in {"project", "finish"}, NEW status \in {"open", "closed"} \cup Ended,
             RunStep(t), Queued(Job(op, t, status, FALSE, <<"run", t>>)), lost' = lost,
             run[t].pc \in {"none", "running"},
             \/ op = "project" /\ status \in {"open", "closed"} /\ run'[t].pc = "putting"
             \/ op = "finish" /\ status \in Ended /\ run'[t].pc = "finishing"
      PROVE  QueueInv'
  <2> DEFINE job == Job(op, t, status, FALSE, <<"run", t>>)
  <2>1. job \in JobRecord /\ job.copy = Unread /\ job.over = {} /\ job.op = op /\ job.turn = t
        /\ job.caller = <<"run", t>> /\ job.status = status
    BY DEF Job, JobRecord, Caller
  <2>2. Queued(job)
    BY <1>3
  <2> HIDE DEF job
  <2>3. JobInv(job)'
    BY <2>1, <1>3 DEF JobInv
  <2>4. [Next]_vars
    OBVIOUS
  <2>5. QED
    BY <1>3, <2>1, <2>2, <2>3, JobIsQueued
<1>4. ASSUME NEW t \in Turn, RunStep(t) PROVE QueueInv'
  <2>0. run[t] \in RunRecord /\ t \in DOMAIN run
    BY DEF StateInv
  <2>1. lost' = lost
    BY <1>4 DEF RunStep, Launch, PutItem, ItemIsPut, Ask, PersonAnswers, CancelInput, Drain, End,
       LeaveUnfinished, AfterFinish, history
  <2>2. CASE \E m \in Mode : Launch(t, m)
    <3>1. CASE queue' = queue
      BY <3>1, <2>1, <1>1
    <3>2. CASE queue' # queue
      <4>1. /\ Queued(Job("finish", t, "failed", FALSE, <<"run", t>>))
            /\ run[t].pc = "none" /\ run'[t].pc = "finishing"
        <5>1. PICK m \in Mode : Launch(t, m)
          BY <2>2
        <5>2. /\ Queued(Job("finish", t, "failed", FALSE, <<"run", t>>)) /\ run[t].pc = "none"
              /\ run' = [run EXCEPT ![t] = [pc |-> "finishing", mode |-> m]]
          BY <3>2, <5>1 DEF Launch
        <5>3. QED
          BY <5>2, <2>0
      <4>2. QED
        BY <4>1, <2>1, <1>3, <1>4 DEF Ended
    <3>3. QED
      BY <3>1, <3>2
  <2>3. ASSUME NEW s \in {"open", "closed"}, PutItem(t, s) PROVE QueueInv'
    <3>1. /\ Queued(Job("project", t, s, FALSE, <<"run", t>>))
          /\ run[t].pc = "running" /\ run'[t].pc = "putting"
      BY <2>0, <2>3 DEF PutItem, RunRecord
    <3>2. QED
      BY <3>1, <2>1, <1>3, <1>4
  <2>4. ASSUME NEW s \in Ended, End(t, s) PROVE QueueInv'
    <3>1. /\ Queued(Job("finish", t, s, FALSE, <<"run", t>>))
          /\ run[t].pc = "running" /\ run'[t].pc = "finishing"
      BY <2>0, <2>4 DEF End, Finish, RunRecord
    <3>2. QED
      BY <3>1, <2>1, <1>3, <1>4
  <2>5. CASE ItemIsPut(t) \/ Drain(t) \/ LeaveUnfinished(t) \/ AfterFinish(t)
    BY <2>1, <2>5, <1>1 DEF ItemIsPut, Drain, LeaveUnfinished, AfterFinish
  <2>6. CASE PersonStep(t)
    BY <2>1, <2>6, <1>1, PersonStepMoves
  <2>7. QED
    BY <1>4, <2>2, <2>3, <2>4, <2>5, <2>6 DEF RunStep, PersonStep
<1>5. ASSUME NEW i \in Interrupt, MarkAborted(i) PROVE QueueInv'
  <2> DEFINE job == Job("interrupt", intr[i].turn, "aborted", intr[i].discard, <<"intr", i>>)
  <2>1. intr[i] \in InterruptRecord /\ intr[i].turn \in Turn /\ intr[i].discard \in BOOLEAN
    BY <1>5 DEF MarkAborted, StateInv, InterruptRecord
  <2>2. job \in JobRecord /\ job.copy = Unread /\ job.over = {} /\ job.op = "interrupt"
        /\ job.caller = <<"intr", i>> /\ job.status = "aborted"
    BY <2>1 DEF Job, JobRecord, Caller, Ended
  <2>3. Queued(job) /\ lost' = lost
    BY <1>5 DEF MarkAborted, history
  <2>4. PICK b \in JobRecord : b = job
    BY <2>2
  <2>5. JobInv(b)'
    BY <2>2, <2>4 DEF JobInv
  <2> HIDE DEF job
  <2>6. QED
    BY <2>2, <2>3, <2>4, <2>5, JobIsQueued
<1>6. ASSUME NEW i \in DOMAIN queue, ReadJob(i) PROVE QueueInv'
  <2>1. /\ i = 1 /\ queue # <<>> /\ queue[1] \in JobRecord
        /\ Len(queue) \in Nat /\ DOMAIN queue = 1 .. Len(queue)
    BY <1>6, FirstJob
  <2>2. CASE thread = NoThread
    <3>1. queue' = RemoveAt(queue, 1) /\ lost' = lost
      BY <1>6, <2>1, <2>2 DEF ReadJob, history
    <3>2. /\ Serial(queue)'
          /\ \A k \in DOMAIN queue' : k + 1 \in DOMAIN queue /\ queue'[k] = queue[k + 1]
      BY <1>0, <2>1, <3>1, SerialRemoved
    <3>3. \A k \in DOMAIN queue' : JobInv(queue[k])'
      <4> SUFFICES ASSUME NEW k \in DOMAIN queue' PROVE JobInv(queue[k])'
        OBVIOUS
      <4>1. PICK job \in JobRecord : job = queue[k + 1]
        BY <1>0, <3>2
      <4>2. JobInv(job)' /\ queue'[k] = job
        BY <3>2, <4>1, CallersWait
      <4>3. QED
        BY <4>2 DEF JobInv
    <3>4. QED
      BY <3>1, <3>2, <3>3 DEF QueueInv
  <2>3. CASE thread # NoThread
    <3>1. queue' = [queue EXCEPT ![1] = [queue[1] EXCEPT !.copy = thread]] /\ lost' = lost
          /\ start' = start /\ run' = run /\ queue[1].copy = Unread
      BY <1>6, <2>1, <2>3 DEF ReadJob, history
    <3>2. [queue[1] EXCEPT !.copy = thread] \in JobRecord
      BY <2>1, <2>3 DEF JobRecord, StateInv
    <3>3. queue' \in Seq(JobRecord) /\ DOMAIN queue' = DOMAIN queue
      BY <1>0, <2>1, <3>1, <3>2
    <3>4. \A k \in DOMAIN queue :
            /\ queue'[k].op = queue[k].op /\ queue'[k].turn = queue[k].turn
            /\ queue'[k].caller = queue[k].caller /\ queue'[k].status = queue[k].status
            /\ queue'[k].over = queue[k].over
            /\ k # 1 => queue'[k].copy = queue[k].copy
      <4> SUFFICES ASSUME NEW k \in DOMAIN queue
                   PROVE  /\ queue'[k].op = queue[k].op /\ queue'[k].turn = queue[k].turn
                          /\ queue'[k].caller = queue[k].caller /\ queue'[k].status = queue[k].status
                          /\ queue'[k].over = queue[k].over
                          /\ k # 1 => queue'[k].copy = queue[k].copy
        OBVIOUS
      <4>1. CASE k = 1
        BY <4>1, <2>1, <3>1 DEF JobRecord
      <4>2. CASE k # 1
        BY <4>2, <3>1
      <4>3. QED
        BY <4>1, <4>2
    <3>5. Serial(queue)'
      BY <1>0, <3>1, <3>3, <3>4 DEF Serial
    <3>6. \A k \in DOMAIN queue' : JobInv(queue[k])'
      BY <3>1, <3>3, <3>4 DEF JobInv, QueueInv
    <3>7. QED
      BY <3>1, <3>5, <3>6 DEF QueueInv
  <2>4. QED
    BY <2>2, <2>3
<1>7. ASSUME NEW i \in DOMAIN queue, WriteJob(i) PROVE QueueInv'
  <2>1. /\ i = 1 /\ queue # <<>> /\ queue[1] \in JobRecord
        /\ Len(queue) \in Nat /\ DOMAIN queue = 1 .. Len(queue)
    BY <1>7, FirstJob
  <2> DEFINE n == NotedBy("queued", queue)
  <2>2. queue' = RemoveAt(n, 1) /\ lost' = lost \cup ({"queued"} \X queue[1].over)
        /\ start' = start /\ run' = run
    BY <1>7, <2>1 DEF WriteJob, Lost
  <2>3. RemoveAt(n, 1) = RemoveAt(queue, 1)
    BY WriteRemoves, <1>0, <2>1
  <2> HIDE DEF n
  <2>4. /\ Serial(queue)'
        /\ \A k \in DOMAIN queue' : k + 1 \in DOMAIN queue /\ queue'[k] = queue[k + 1]
    BY <1>0, <2>1, <2>2, <2>3, SerialRemoved
  <2>5. \A k \in DOMAIN queue' : JobInv(queue[k])'
    BY <2>2, <2>4 DEF JobInv, QueueInv
  <2>6. <<"queued", "queued">> \notin lost'
    BY <2>1, <2>2, <1>0 DEF QueueInv, Serial
  <2>7. QED
    BY <2>4, <2>5, <2>6 DEF QueueInv
<1>8. ASSUME queue' = NotedBy("direct", queue), start' = start, run' = run,
             lost' = lost \/ \E over : lost' = lost \cup ({"direct"} \X over)
      PROVE  QueueInv'
  <2>1. /\ Serial(queue)' /\ DOMAIN queue' = DOMAIN queue
        /\ \A k \in DOMAIN queue :
              /\ queue[k].copy = Unread => queue'[k] = queue[k]
              /\ queue[k].copy # Unread => queue'[k] = [queue[k] EXCEPT !.over = @ \cup {"direct"}]
    BY <1>0, <1>8, QueueNoted
  <2>2. \A k \in DOMAIN queue :
           /\ queue'[k].op = queue[k].op /\ queue'[k].turn = queue[k].turn
           /\ queue'[k].caller = queue[k].caller /\ queue'[k].status = queue[k].status
    BY <2>1, <1>0 DEF JobRecord
  <2>3. \A k \in DOMAIN queue' : JobInv(queue[k])'
    BY <1>8, <2>1, <2>2 DEF JobInv, QueueInv
  <2>4. <<"queued", "queued">> \notin lost'
    BY <1>8 DEF QueueInv
  <2>5. QED
    BY <2>1, <2>3, <2>4 DEF QueueInv
<1>9. ASSUME NEW w \in DOMAIN direct, DirectStep(w) PROVE QueueInv'
  <2>1. CASE ReadThread(w)
    BY <2>1, <1>1 DEF ReadThread, history
  <2>2. CASE WriteThread(w)
    BY <2>2, <1>8 DEF WriteThread, Lost
  <2>3. QED
    BY <1>9, <2>1, <2>2 DEF DirectStep
<1>10. CASE DeleteThread
  BY <1>10, <1>8 DEF DeleteThread, history
<1>11. ASSUME NEW t \in Turn, (StartTurn(t) /\ thread = NoThread) \/ StartStep(t) \/ SteerTurn(t)
       PROVE  QueueInv'
  BY <1>11, <1>1 DEF StartTurn, StartStep, Announce, Register, SteerTurn, history
<1>12. ASSUME NEW i \in Interrupt, \/ \E t \in Turn, d \in BOOLEAN : InterruptTurn(i, t, d)
                                   \/ LoadItems(i) \/ RewriteItems(i) \/ InterruptReturns(i)
       PROVE  QueueInv'
  BY <1>12, <1>1 DEF InterruptTurn, LoadItems, RewriteItems, InterruptReturns, history
<1>13. CASE (\E w \in Editor : CallEdit(w)) \/ UNCHANGED vars
  BY <1>13, <1>1 DEF CallEdit, vars, history
<1>14. QED
  BY <1>2, <1>4, <1>5, <1>6, <1>7, <1>9, <1>10, <1>11, <1>12, <1>13
     DEF Next, JobStep, InterruptStep, Quiet

-----------------------------------------------------------------------------
(***************************************************************************)
(* The copies of the record.                                               *)
(***************************************************************************)
\* A copy that is held after a step was held before it, or is one of the record; if the
\* record was written, its holder knows.
Held(copy, over, copyBefore, overBefore) ==
  \/ thread' = thread /\ copy = thread /\ thread # NoThread
  \/ /\ copyBefore # Unread /\ copy = copyBefore
     /\ (thread' = thread /\ over = overBefore) \/ over # {}

\* A job is queued.
QueuesJob ==
  \E op, t, status, discard, caller : Queued(Job(op, t, status, discard, caller))

LEMMA QueueTo ==
  ASSUME StateInv, QueueInv, [Next]_vars, NEW k \in DOMAIN queue', queue'[k].copy # Unread
  PROVE  \E j \in DOMAIN queue : Held(queue'[k].copy, queue'[k].over, queue[j].copy, queue[j].over)
<1>0. Serial(queue) /\ queue \in Seq(JobRecord) /\ \A i \in DOMAIN queue : queue[i] \in JobRecord
  BY DEF QueueInv, Serial
<1>1. ASSUME QueuesJob, thread' = thread
      PROVE  \E j \in DOMAIN queue : Held(queue'[k].copy, queue'[k].over, queue[j].copy, queue[j].over)
  <2>1. PICK op, t, status, discard, caller : Queued(Job(op, t, status, discard, caller))
    BY <1>1 DEF QueuesJob
  <2> DEFINE job == Job(op, t, status, discard, caller)
  <2>2. job.copy = Unread
    BY DEF Job
  <2>3. queue' = Append(queue, job)
    BY <2>1 DEF Queued
  <2> HIDE DEF job
  <2>4. k \in DOMAIN queue /\ queue'[k] = queue[k]
    BY <1>0, <2>2, <2>3
  <2>5. QED
    BY <1>1, <2>4 DEF Held
<1>2. CASE queue' = queue /\ thread' = thread
  BY <1>2 DEF Held
<1>3. ASSUME NEW i \in DOMAIN queue, ReadJob(i)
      PROVE  \E j \in DOMAIN queue : Held(queue'[k].copy, queue'[k].over, queue[j].copy, queue[j].over)
  <2>1. /\ i = 1 /\ queue # <<>> /\ queue[1] \in JobRecord
        /\ Len(queue) \in Nat /\ DOMAIN queue = 1 .. Len(queue)
    BY <1>3, FirstJob
  <2>2. CASE thread = NoThread
    <3>1. queue' = RemoveAt(queue, 1) /\ thread' = thread
      BY <1>3, <2>1, <2>2 DEF ReadJob
    <3>2. k + 1 \in DOMAIN queue /\ queue'[k] = queue[k + 1]
      BY <1>0, <2>1, <3>1, SerialRemoved
    <3>3. QED
      BY <3>1, <3>2 DEF Held
  <2>3. CASE thread # NoThread
    <3>1. queue' = [queue EXCEPT ![1] = [queue[1] EXCEPT !.copy = thread]] /\ thread' = thread
      BY <1>3, <2>1, <2>3 DEF ReadJob
    <3>2. CASE k = 1
      <4>1. queue'[1].copy = thread
        BY <3>1, <2>1 DEF JobRecord
      <4>2. QED
        BY <3>1, <3>2, <4>1, <2>1, <2>3 DEF Held
    <3>3. CASE k # 1
      <4>1. k \in DOMAIN queue /\ queue'[k] = queue[k]
        BY <3>1, <3>3
      <4>2. QED
        BY <3>1, <4>1 DEF Held
    <3>4. QED
      BY <3>2, <3>3
  <2>4. QED
    BY <2>2, <2>3
<1>4. ASSUME NEW i \in DOMAIN queue, WriteJob(i) PROVE FALSE
  <2>1. /\ i = 1 /\ queue # <<>> /\ queue[1] \in JobRecord
        /\ Len(queue) \in Nat /\ DOMAIN queue = 1 .. Len(queue)
    BY <1>4, FirstJob
  <2>2. queue' = RemoveAt(queue, 1)
    BY <1>0, <1>4, <2>1, WriteRemoves DEF WriteJob
  <2>3. k + 1 \in DOMAIN queue /\ queue'[k] = queue[k + 1] /\ k \in DOMAIN queue'
    BY <1>0, <2>1, <2>2, SerialRemoved
  <2>4. queue' \in Seq(JobRecord)
    BY <1>0, <2>1, <2>2, FirstRemoved
  <2>5. k + 1 # 1
    BY <2>3, <2>4
  <2>6. QED
    BY <1>0, <2>3, <2>5 DEF Serial
<1>5. CASE queue' = NotedBy("direct", queue)
  <2>1. /\ k \in DOMAIN queue
        /\ queue[k].copy = Unread => queue'[k] = queue[k]
        /\ queue[k].copy # Unread => queue'[k] = [queue[k] EXCEPT !.over = @ \cup {"direct"}]
    BY <1>0, <1>5, QueueNoted
  <2>2. queue[k].copy # Unread /\ queue'[k].copy = queue[k].copy /\ "direct" \in queue'[k].over
    BY <2>1, <1>0 DEF JobRecord
  <2>3. QED
    BY <2>1, <2>2 DEF Held
<1>6. \/ queue' = queue /\ thread' = thread
      \/ queue' = NotedBy("direct", queue)
      \/ QueuesJob /\ thread' = thread
      \/ \E i \in DOMAIN queue : ReadJob(i) \/ WriteJob(i)
  <2>1. ASSUME NEW op, NEW t, NEW status, NEW discard, NEW caller,
               Queued(Job(op, t, status, discard, caller))
        PROVE  QueuesJob
    BY <2>1 DEF QueuesJob
  <2>2. CASE \E t \in Turn : RunStep(t)
    BY <2>1, <2>2 DEF RunStep, Launch, PutItem, ItemIsPut, Ask, PersonAnswers, CancelInput, Drain,
       End, Finish, LeaveUnfinished, AfterFinish
  <2>3. CASE \E t \in Turn : StartTurn(t) \/ StartStep(t) \/ SteerTurn(t)
    BY <2>1, <2>3 DEF StartTurn, StartStep, Announce, Register, SteerTurn
  <2>4. CASE \E i \in Interrupt : (\E t \in Turn, d \in BOOLEAN : InterruptTurn(i, t, d)) \/ InterruptStep(i)
    BY <2>1, <2>4 DEF InterruptTurn, InterruptStep, LoadItems, RewriteItems, MarkAborted, InterruptReturns
  <2>5. CASE (\E w \in Editor : CallEdit(w)) \/ (\E w \in DOMAIN direct : DirectStep(w)) \/ DeleteThread \/ UNCHANGED vars
    BY <2>5 DEF CallEdit, DirectStep, ReadThread, WriteThread, DeleteThread, vars
  <2>6. QED
    BY <2>2, <2>3, <2>4, <2>5 DEF Next, JobStep
<1>7. QED
  BY <1>1, <1>2, <1>3, <1>4, <1>5, <1>6

LEMMA DirectTo ==
  ASSUME StateInv, [Next]_vars, NEW w \in Editor \cup Turn, direct'[w].copy # Unread
  PROVE  Held(direct'[w].copy, direct'[w].over, direct[w].copy, direct[w].over)
<1>0. direct \in [Editor \cup Turn -> CallRecord] /\ direct[w] \in CallRecord
  BY DEF StateInv
<1>1. CASE thread' = thread /\ direct'[w] = direct[w]
  BY <1>1 DEF Held
<1>2. ASSUME NEW t \in Turn, AfterFinish(t) PROVE thread' = thread /\ direct'[w].copy = direct[w].copy /\ direct'[w].over = direct[w].over
  BY <1>0, <1>2 DEF AfterFinish, CallRecord
<1>3. ASSUME NEW v \in Editor, CallEdit(v) PROVE thread' = thread /\ direct'[w].copy = direct[w].copy /\ direct'[w].over = direct[w].over
  BY <1>0, <1>3 DEF CallEdit, CallRecord
<1>4. ASSUME NEW v \in DOMAIN direct, ReadThread(v)
      PROVE  Held(direct'[w].copy, direct'[w].over, direct[w].copy, direct[w].over)
  <2>1. thread' = thread
    BY <1>4 DEF ReadThread
  <2>2. CASE v # w
    BY <1>0, <1>4, <2>1, <2>2 DEF ReadThread, Held
  <2>3. CASE v = w
    <3>1. CASE thread = NoThread
      <4>1. direct'[w] = [direct[w] EXCEPT !.pc = "done"]
        BY <1>0, <1>4, <2>3, <3>1 DEF ReadThread
      <4>2. direct'[w].copy = direct[w].copy /\ direct'[w].over = direct[w].over
        BY <1>0, <4>1 DEF CallRecord
      <4>3. QED
        BY <2>1, <4>2 DEF Held
    <3>2. CASE thread # NoThread
      <4>1. direct'[w] = [direct[w] EXCEPT !.pc = "read", !.copy = thread]
        BY <1>0, <1>4, <2>3, <3>2 DEF ReadThread
      <4>2. direct'[w].copy = thread
        BY <1>0, <4>1 DEF CallRecord
      <4>3. QED
        BY <2>1, <3>2, <4>2 DEF Held
    <3>3. QED
      BY <3>1, <3>2
  <2>4. QED
    BY <2>2, <2>3
<1>5. ASSUME NEW kind \in {"queued", "direct"}, direct'[w] = NotedBy(kind, direct)[w]
      PROVE  Held(direct'[w].copy, direct'[w].over, direct[w].copy, direct[w].over)
  <2>1. /\ direct[w].copy = Unread => direct'[w] = direct[w]
        /\ direct[w].copy # Unread => direct'[w] = [direct[w] EXCEPT !.over = @ \cup {kind}]
    BY <1>5, NotedCalls
  <2>2. direct[w].copy # Unread /\ direct'[w].copy = direct[w].copy /\ kind \in direct'[w].over
    BY <2>1, <1>0 DEF CallRecord
  <2>3. QED
    BY <2>2 DEF Held
<1>6. ASSUME NEW v \in DOMAIN direct, WriteThread(v)
      PROVE  Held(direct'[w].copy, direct'[w].over, direct[w].copy, direct[w].over)
  <2>1. direct' = [NotedBy("direct", direct) EXCEPT ![v] = [pc |-> "done", copy |-> Unread, over |-> {}]]
    BY <1>6 DEF WriteThread
  <2>2. NotedBy("direct", direct) \in [Editor \cup Turn -> CallRecord]
    BY NotedCalls
  <2>3. v # w
    BY <2>1, <2>2
  <2>4. direct'[w] = NotedBy("direct", direct)[w]
    BY <2>1, <2>2, <2>3
  <2>5. QED
    BY <2>4, <1>5
<1>7. \/ thread' = thread /\ direct' = direct
      \/ direct' = NotedBy("direct", direct) \/ direct' = NotedBy("queued", direct)
      \/ \E v \in DOMAIN direct : DirectStep(v)
      \/ \E t \in Turn : AfterFinish(t)
      \/ \E v \in Editor : CallEdit(v)
  <2>1. CASE \E t \in Turn : RunStep(t)
    BY <2>1 DEF RunStep, Launch, PutItem, ItemIsPut, Ask, PersonAnswers, CancelInput, Drain, End,
       LeaveUnfinished
  <2>2. CASE \E t \in Turn : StartTurn(t) \/ StartStep(t) \/ SteerTurn(t)
    BY <2>2 DEF StartTurn, StartStep, Announce, Register, SteerTurn
  <2>3. CASE \E i \in Interrupt : (\E t \in Turn, d \in BOOLEAN : InterruptTurn(i, t, d)) \/ InterruptStep(i)
    BY <2>3 DEF InterruptTurn, InterruptStep, LoadItems, RewriteItems, MarkAborted, InterruptReturns
  <2>4. CASE JobStep \/ DeleteThread \/ UNCHANGED vars
    BY <2>4 DEF JobStep, ReadJob, WriteJob, DeleteThread, vars
  <2>5. QED
    BY <2>1, <2>2, <2>3, <2>4 DEF Next
<1>8. QED
  BY <1>1, <1>2, <1>3, <1>4, <1>5, <1>6, <1>7 DEF Held, DirectStep

\* A record of the store is neither of the other two values.
LEMMA RecordIsRead == \A r \in ThreadRecord : r # Unread /\ r # NoThread
BY DEF ThreadRecord, Unread, NoThread

\* How a direct writer comes to have read the record, and to be done.
LEMMA DirectMoves ==
  ASSUME StateInv, [Next]_vars, NEW w \in Editor \cup Turn
  PROVE  \/ direct'[w].pc = direct[w].pc /\ direct'[w].copy = direct[w].copy
         \/ direct'[w].pc = "called"
         \/ ReadThread(w) /\ direct'[w].pc = "read" /\ direct'[w].copy = thread /\ thread # NoThread
         \/ ReadThread(w) /\ direct'[w].pc = "done" /\ thread = NoThread
         \/ WriteThread(w) /\ direct'[w].pc = "done"
<1>0. /\ direct \in [Editor \cup Turn -> CallRecord] /\ direct[w] \in CallRecord
      /\ DOMAIN direct = Editor \cup Turn
  BY DEF StateInv
<1>1. ASSUME NEW v \in Editor \cup Turn, direct' = [direct EXCEPT ![v].pc = "called"]
      PROVE  \/ direct'[w].pc = direct[w].pc /\ direct'[w].copy = direct[w].copy
             \/ direct'[w].pc = "called"
  BY <1>0, <1>1 DEF CallRecord
<1>2. ASSUME NEW kind \in {"queued", "direct"}, direct'[w] = NotedBy(kind, direct)[w]
      PROVE  direct'[w].pc = direct[w].pc /\ direct'[w].copy = direct[w].copy
  <2>1. /\ direct[w].copy = Unread => direct'[w] = direct[w]
        /\ direct[w].copy # Unread => direct'[w] = [direct[w] EXCEPT !.over = @ \cup {kind}]
    BY <1>2, NotedCalls
  <2>2. QED
    BY <2>1, <1>0 DEF CallRecord
<1>3. ASSUME NEW v \in DOMAIN direct, ReadThread(v)
      PROVE  \/ direct'[w] = direct[w]
             \/ ReadThread(w) /\ direct'[w].pc = "read" /\ direct'[w].copy = thread /\ thread # NoThread
             \/ ReadThread(w) /\ direct'[w].pc = "done" /\ thread = NoThread
  <2>1. CASE v # w
    BY <1>0, <1>3, <2>1 DEF ReadThread
  <2>2. CASE v = w /\ thread = NoThread
    <3>1. direct'[w] = [direct[w] EXCEPT !.pc = "done"]
      BY <1>0, <1>3, <2>2 DEF ReadThread
    <3>2. QED
      BY <1>0, <1>3, <2>2, <3>1 DEF CallRecord
  <2>3. CASE v = w /\ thread # NoThread
    <3>1. direct'[w] = [direct[w] EXCEPT !.pc = "read", !.copy = thread]
      BY <1>0, <1>3, <2>3 DEF ReadThread
    <3>2. QED
      BY <1>0, <1>3, <2>3, <3>1 DEF CallRecord
  <2>4. QED
    BY <2>1, <2>2, <2>3
<1>4. ASSUME NEW v \in DOMAIN direct, WriteThread(v)
      PROVE  \/ direct'[w].pc = direct[w].pc /\ direct'[w].copy = direct[w].copy
             \/ WriteThread(w) /\ direct'[w].pc = "done"
  <2>1. direct' = [NotedBy("direct", direct) EXCEPT ![v] = [pc |-> "done", copy |-> Unread, over |-> {}]]
    BY <1>4 DEF WriteThread
  <2>2. NotedBy("direct", direct) \in [Editor \cup Turn -> CallRecord]
    BY NotedCalls
  <2>3. CASE v = w
    BY <1>4, <2>1, <2>2, <2>3
  <2>4. CASE v # w
    <3>1. direct'[w] = NotedBy("direct", direct)[w]
      BY <2>1, <2>2, <2>4
    <3>2. QED
      BY <3>1, <1>2
  <2>5. QED
    BY <2>3, <2>4
<1>5. \/ direct' = direct
      \/ direct' = NotedBy("direct", direct) \/ direct' = NotedBy("queued", direct)
      \/ \E v \in DOMAIN direct : DirectStep(v)
      \/ \E v \in Editor \cup Turn : direct' = [direct EXCEPT ![v].pc = "called"]
  <2>1. CASE \E t \in Turn : RunStep(t)
    BY <2>1 DEF RunStep, Launch, PutItem, ItemIsPut, Ask, PersonAnswers, CancelInput, Drain, End,
       LeaveUnfinished, AfterFinish
  <2>2. CASE \E t \in Turn : StartTurn(t) \/ StartStep(t) \/ SteerTurn(t)
    BY <2>2 DEF StartTurn, StartStep, Announce, Register, SteerTurn
  <2>3. CASE \E i \in Interrupt : (\E t \in Turn, d \in BOOLEAN : InterruptTurn(i, t, d)) \/ InterruptStep(i)
    BY <2>3 DEF InterruptTurn, InterruptStep, LoadItems, RewriteItems, MarkAborted, InterruptReturns
  <2>4. CASE JobStep \/ DeleteThread \/ UNCHANGED vars
    BY <2>4 DEF JobStep, ReadJob, WriteJob, DeleteThread, vars
  <2>5. CASE \E v \in Editor : CallEdit(v)
    BY <2>5 DEF CallEdit
  <2>6. QED
    BY <2>1, <2>2, <2>3, <2>4, <2>5 DEF Next
<1>6. QED
  BY <1>1, <1>2, <1>3, <1>4, <1>5 DEF DirectStep

LEMMA StepCopy ==
  ASSUME StateInv, QueueInv, CopyInv, [Next]_vars
  PROVE  CopyInv'
<1>0. DOMAIN direct = Editor \cup Turn /\ DOMAIN direct' = Editor \cup Turn
  BY StepState DEF StateInv
<1>1. ASSUME NEW k \in DOMAIN queue', queue'[k].copy # Unread, queue'[k].over = {}
      PROVE  queue'[k].copy = thread'
  BY <1>1, QueueTo DEF Held, CopyInv
<1>2. ASSUME NEW w \in DOMAIN direct', direct'[w].copy # Unread, direct'[w].over = {}
      PROVE  direct'[w].copy = thread'
  BY <1>0, <1>2, DirectTo DEF Held, CopyInv
<1>3. ASSUME NEW w \in DOMAIN direct', direct'[w].pc = "read" PROVE direct'[w].copy # Unread
  <2>1. thread # NoThread => thread # Unread
    BY RecordIsRead DEF StateInv
  <2>2. QED
    BY <1>0, <1>3, <2>1, DirectMoves DEF CopyInv
<1>4. QED
  BY <1>1, <1>2, <1>3 DEF CopyInv

-----------------------------------------------------------------------------
(***************************************************************************)
(* The controllers, and when a turn is over.                               *)
(***************************************************************************)
LEMMA StepService ==
  ASSUME StateInv, ServiceInv, [Next]_vars
  PROVE  ServiceInv'
<1> SUFFICES ASSUME NEW t \in Turn
             PROVE  /\ run'[t].pc # "none" => start'[t] = "registered"
                    /\ t \in registered' \cup tracked' =>
                         /\ start'[t] = "registered"
                         /\ run'[t].pc \in AtWork \/ t \in abandoned'
                    /\ buffer'[t] # "none" => t \in registered' \cup steeredLate' \cup abandoned'
  BY DEF ServiceInv
<1>0. /\ start \in [Turn -> {"none", "notFound", "storing", "announced", "registered"}]
      /\ run \in [Turn -> RunRecord] /\ run[t] \in RunRecord
      /\ buffer \in [Turn -> {"none", "empty", "text"}]
  BY DEF StateInv
<1>1. /\ run[t].pc # "none" => start[t] = "registered"
      /\ t \in registered \cup tracked =>
           start[t] = "registered" /\ (run[t].pc \in AtWork \/ t \in abandoned)
      /\ buffer[t] # "none" => t \in registered \cup steeredLate \cup abandoned
  BY DEF ServiceInv
<1> USE DEF service, history
<1>2. CASE UNCHANGED <<start, run, registered, tracked, buffer, steeredLate, abandoned>>
  BY <1>1, <1>2
<1>3. ASSUME NEW u \in Turn, StartTurn(u) \/ StartStep(u)
      PROVE  ServiceInv'
  <2>1. CASE StartTurn(u) \/ Announce(u)
    <3>1. /\ start[u] # "registered" /\ \A v \in Turn : v # u => start'[v] = start[v]
          /\ UNCHANGED <<run, registered, tracked, buffer, steeredLate, abandoned>>
      BY <1>0, <2>1 DEF StartTurn, Announce
    <3>2. QED
      BY <3>1 DEF ServiceInv
  <2>2. CASE Register(u)
    <3>1. /\ start[u] # "registered" /\ start'[u] = "registered" /\ u \in registered'
          /\ \A v \in Turn : v # u => start'[v] = start[v] /\ buffer'[v] = buffer[v]
          /\ registered' = registered \cup {u} /\ tracked' = tracked \cup {u}
          /\ UNCHANGED <<run, steeredLate, abandoned>>
      BY <1>0, <2>2 DEF Register
    <3>2. run[u].pc = "none"
      BY <3>1 DEF ServiceInv
    <3>3. QED
      BY <3>1, <3>2 DEF ServiceInv
  <2>3. QED
    BY <1>3, <2>1, <2>2 DEF StartStep
<1>4. ASSUME NEW u \in Turn, SteerTurn(u)
      PROVE  ServiceInv'
  BY <1>0, <1>4 DEF SteerTurn, ServiceInv
<1>5. ASSUME NEW u \in Turn, RunStep(u), u # t
      PROVE  /\ run'[t].pc # "none" => start'[t] = "registered"
             /\ t \in registered' \cup tracked' =>
                  /\ start'[t] = "registered"
                  /\ run'[t].pc \in AtWork \/ t \in abandoned'
             /\ buffer'[t] # "none" => t \in registered' \cup steeredLate' \cup abandoned'
  <2>1. run'[t] = run[t] /\ start' = start
    BY <1>5, RunTypes DEF RunStep, Launch, PutItem, ItemIsPut, Ask, PersonAnswers, CancelInput,
       Drain, End, LeaveUnfinished, AfterFinish
  <2>2. /\ t \in registered' <=> t \in registered
        /\ t \in tracked' <=> t \in tracked
        /\ buffer'[t] = buffer[t]
    BY <1>0, <1>5 DEF RunStep, Launch, Released, PutItem, ItemIsPut, Ask, PersonAnswers,
       CancelInput, Drain, End, Finish, LeaveUnfinished, AfterFinish
  <2>3. steeredLate' = steeredLate /\ abandoned \subseteq abandoned'
    BY <1>5 DEF RunStep, Launch, PutItem, ItemIsPut, Ask, PersonAnswers, CancelInput, Drain, End,
       LeaveUnfinished, AfterFinish
  <2>4. QED
    BY <1>1, <2>1, <2>2, <2>3
<1>6. ASSUME RunStep(t)
      PROVE  /\ run'[t].pc # "none" => start'[t] = "registered"
             /\ t \in registered' \cup tracked' =>
                  /\ start'[t] = "registered"
                  /\ run'[t].pc \in AtWork \/ t \in abandoned'
             /\ buffer'[t] # "none" => t \in registered' \cup steeredLate' \cup abandoned'
  <2>1. start' = start /\ start[t] = "registered"
    <3>1. CASE PersonStep(t)
      BY <1>1, <3>1, PersonStepMoves
    <3>2. CASE ~PersonStep(t)
      BY <1>1, <1>6, <3>2 DEF RunStep, PersonStep, Launch, PutItem, ItemIsPut, Drain, End,
         LeaveUnfinished, AfterFinish
    <3>3. QED
      BY <3>1, <3>2
  <2>2. ASSUME NEW m \in Mode, Launch(t, m)
        PROVE  /\ t \in registered' \cup tracked' => run'[t].pc \in AtWork \/ t \in abandoned'
               /\ buffer'[t] # "none" => t \in registered' \cup steeredLate' \cup abandoned'
    <3>1. CASE run' = [run EXCEPT ![t] = [pc |-> "running", mode |-> m]]
               /\ UNCHANGED <<registered, tracked, buffer, abandoned>>
      BY <1>0, <1>1, <2>2, <3>1 DEF Launch
    <3>2. CASE Released(t)
      BY <1>0, <3>2 DEF Released
    <3>3. CASE abandoned' = abandoned \cup {t}
      BY <3>3
    <3>4. QED
      BY <2>2, <3>1, <3>2, <3>3 DEF Launch
  <2>3. ASSUME NEW s \in Ended, End(t, s)
        PROVE  t \notin registered' \cup tracked' /\ buffer'[t] = "none"
    BY <1>0, <2>3 DEF End, Finish, Released
  <2>4. CASE Drain(t)
    BY <1>0, <1>1, <2>1, <2>4 DEF Drain
  <2>5. CASE LeaveUnfinished(t)
    BY <1>1, <2>1, <2>5 DEF LeaveUnfinished
  <2>6. CASE AfterFinish(t) \/ ItemIsPut(t) \/ \E s \in {"open", "closed"} : PutItem(t, s)
    <3>1. UNCHANGED <<registered, tracked, buffer, steeredLate, abandoned>>
      BY <2>6 DEF AfterFinish, ItemIsPut, PutItem
    <3>2. CASE AfterFinish(t)
      BY <1>1, <2>1, <3>1, <3>2 DEF AfterFinish
    <3>3. CASE ItemIsPut(t) \/ \E s \in {"open", "closed"} : PutItem(t, s)
      <4>1. run'[t].pc \in {"running", "putting"}
        <5>1. run \in [Turn -> RunRecord]
          BY <1>0
        <5>2. run' = [run EXCEPT ![t].pc = "running"] \/ run' = [run EXCEPT ![t].pc = "putting"]
          BY <3>3 DEF ItemIsPut, PutItem
        <5>3. run'[t].pc = "running" \/ run'[t].pc = "putting"
          BY <5>1, <5>2 DEF RunRecord
        <5> QED
          BY <5>3
      <4>2. run[t].pc \in {"running", "putting"}
        BY <3>3 DEF ItemIsPut, PutItem
      <4>3. QED
        BY <1>1, <2>1, <3>1, <4>1, <4>2
    <3>4. QED
      BY <2>6, <3>2, <3>3
  <2>7. CASE PersonStep(t)
    <3>1. run[t].pc \in AtWork /\ run'[t].pc \in AtWork
      BY <1>0, <2>7, PersonStepMoves DEF RunRecord
    <3>2. UNCHANGED <<registered, tracked, buffer, steeredLate, abandoned>>
      BY <2>7, PersonStepMoves DEF service, history
    <3>3. QED
      BY <1>1, <2>1, <3>1, <3>2
  <2>8. QED
    BY <1>6, <2>1, <2>2, <2>3, <2>4, <2>5, <2>6, <2>7 DEF RunStep, PersonStep
<1>7. ASSUME NEW i \in Interrupt, NEW u \in Turn, NEW d \in BOOLEAN, InterruptTurn(i, u, d)
      PROVE  ServiceInv'
  BY <1>0, <1>7 DEF InterruptTurn, Released, ServiceInv
<1>8. \/ UNCHANGED <<start, run, registered, tracked, buffer, steeredLate, abandoned>>
      \/ \E u \in Turn : StartTurn(u) \/ StartStep(u) \/ SteerTurn(u) \/ RunStep(u)
      \/ \E i \in Interrupt, u \in Turn, d \in BOOLEAN : InterruptTurn(i, u, d)
  BY DEF Next, JobStep, ReadJob, WriteJob, InterruptStep, LoadItems, RewriteItems, MarkAborted, InterruptReturns,
         CallEdit, DirectStep, ReadThread, WriteThread, DeleteThread, vars
<1>9. QED
  BY <1>2, <1>3, <1>4, <1>5, <1>6, <1>7, <1>8 DEF ServiceInv

\* A turn comes to be over when its finish is written.
LEMMA OverStep ==
  ASSUME StateInv, QueueInv, [Next]_vars, NEW t \in Turn, IsOver(t)'
  PROVE  \/ IsOver(t)
         \/ t \in abandoned'
         \/ thread' = NoThread
         \/ /\ run[t].pc = "finishing"
            /\ \E i \in DOMAIN queue : WriteJob(i) /\ queue[i].caller = <<"run", t>>
<1>0. /\ queue \in Seq(JobRecord) /\ run \in [Turn -> RunRecord] /\ run[t] \in RunRecord
      /\ \A i \in DOMAIN queue : queue[i] \in JobRecord
  BY DEF StateInv, QueueInv, Serial
<1>1. CASE UNCHANGED <<run, queue>>
  BY <1>1 DEF IsOver, Awaited
<1>2. ASSUME run' = run, NEW job, queue' = Append(queue, job) PROVE IsOver(t)
  <2>1. \A i \in DOMAIN queue : i \in DOMAIN queue' /\ queue'[i] = queue[i]
    BY <1>0, <1>2
  <2>2. QED
    BY <2>1, <1>2 DEF IsOver, Awaited
<1>3. ASSUME NEW u \in Turn, RunStep(u), u # t PROVE IsOver(t)
  <2>1. run'[t] = run[t]
    BY <1>3, RunTypes
  <2>2. queue' = queue \/ QueuesJob
    <3>1. ASSUME NEW op, NEW s, NEW status, NEW discard, NEW caller,
                 Queued(Job(op, s, status, discard, caller))
          PROVE  QueuesJob
      BY <3>1 DEF QueuesJob
    <3>2. QED
      BY <1>3, <3>1 DEF RunStep, Launch, PutItem, ItemIsPut, Ask, PersonAnswers, CancelInput,
         Drain, End, Finish, LeaveUnfinished, AfterFinish
  <2>3. \A i \in DOMAIN queue : i \in DOMAIN queue' /\ queue'[i] = queue[i]
    <3>1. CASE queue' = queue
      BY <3>1
    <3>2. ASSUME NEW job, queue' = Append(queue, job)
          PROVE  \A i \in DOMAIN queue : i \in DOMAIN queue' /\ queue'[i] = queue[i]
      BY <1>0, <3>2
    <3>3. QED
      BY <2>2, <3>1, <3>2 DEF QueuesJob, Queued
  <2>4. QED
    BY <2>1, <2>3 DEF IsOver, Awaited
<1>4. ASSUME RunStep(t) PROVE IsOver(t) \/ t \in abandoned'
  <2>1. ASSUME NEW s, Queued(Job("finish", t, s, FALSE, <<"run", t>>)), run'[t].pc = "finishing" PROVE FALSE
    <3> DEFINE job == Job("finish", t, s, FALSE, <<"run", t>>)
    <3>1. job.caller = <<"run", t>>
      BY DEF Job
    <3>2. queue' = Append(queue, job)
      BY <2>1 DEF Queued
    <3> HIDE DEF job
    <3>3. Len(queue) + 1 \in DOMAIN queue' /\ queue'[Len(queue) + 1] = job
      BY <1>0, <3>2
    <3>4. QED
      BY <2>1, <3>1, <3>3 DEF IsOver, Awaited
  <2>2. ASSUME NEW m \in Mode, Launch(t, m) PROVE t \in abandoned'
    <3>1. CASE Queued(Job("finish", t, "failed", FALSE, <<"run", t>>))
               /\ run' = [run EXCEPT ![t] = [pc |-> "finishing", mode |-> m]]
      BY <1>0, <2>1, <3>1
    <3>2. CASE run' = [run EXCEPT ![t] = [pc |-> "running", mode |-> m]]
      BY <1>0, <3>2 DEF IsOver
    <3>3. QED
      BY <2>2, <3>1, <3>2 DEF Launch
  <2>3. ASSUME NEW s \in Ended, End(t, s) PROVE FALSE
    BY <1>0, <2>1, <2>3 DEF End, Finish, RunRecord
  <2>4. CASE LeaveUnfinished(t)
    BY <2>4 DEF LeaveUnfinished
  <2>5. CASE AfterFinish(t)
    BY <2>5 DEF AfterFinish, IsOver
  <2>6. CASE ItemIsPut(t) \/ Drain(t) \/ \E s \in {"open", "closed"} : PutItem(t, s)
    <3>1. run'[t].pc \in {"running", "putting"}
      BY <1>0, <2>6 DEF ItemIsPut, Drain, PutItem, RunRecord
    <3>2. QED
      BY <3>1 DEF IsOver
  <2>7. CASE PersonStep(t)
    <3>1. run'[t].pc \in AtWork
      BY <1>0, <2>7, PersonStepMoves DEF RunRecord
    <3>2. QED
      BY <3>1 DEF IsOver
  <2>8. QED
    BY <1>4, <2>2, <2>3, <2>4, <2>5, <2>6, <2>7 DEF RunStep, PersonStep
<1>5. ASSUME NEW i \in DOMAIN queue, ReadJob(i) PROVE IsOver(t) \/ thread' = NoThread
  <2>1. CASE thread = NoThread
    BY <1>5, <2>1 DEF ReadJob
  <2>2. CASE thread # NoThread
    <3>1. queue' = [queue EXCEPT ![i] = [queue[i] EXCEPT !.copy = thread]] /\ run' = run
      BY <1>5, <2>2 DEF ReadJob
    <3>2. \A k \in DOMAIN queue : k \in DOMAIN queue' /\ queue'[k].caller = queue[k].caller
      BY <1>0, <3>1 DEF JobRecord
    <3>3. QED
      BY <3>1, <3>2 DEF IsOver, Awaited
  <2>3. QED
    BY <2>1, <2>2
<1>6. ASSUME NEW i \in DOMAIN queue, WriteJob(i)
      PROVE  IsOver(t) \/ (run[t].pc = "finishing" /\ queue[i].caller = <<"run", t>>)
  <2>1. i = 1 /\ queue # <<>> /\ Serial(queue)
    BY <1>6, FirstJob DEF QueueInv
  <2>2. queue' = RemoveAt(queue, 1) /\ run' = run
    BY <1>6, <2>1, WriteRemoves DEF WriteJob
  <2>3. \A k \in DOMAIN queue : k # 1 => k - 1 \in DOMAIN queue' /\ queue'[k - 1] = queue[k]
    BY <2>1, <2>2, SerialRemoved
  <2>4. QED
    BY <2>1, <2>2, <2>3 DEF IsOver, Awaited
<1>7. ASSUME queue' = NotedBy("direct", queue), run' = run PROVE IsOver(t)
  <2>1. /\ DOMAIN queue' = DOMAIN queue
        /\ \A k \in DOMAIN queue :
             /\ queue[k].copy = Unread => queue'[k] = queue[k]
             /\ queue[k].copy # Unread => queue'[k] = [queue[k] EXCEPT !.over = @ \cup {"direct"}]
    BY <1>7, QueueNoted DEF QueueInv
  <2>2. \A k \in DOMAIN queue : queue'[k].caller = queue[k].caller
    BY <1>0, <2>1 DEF JobRecord
  <2>3. QED
    BY <1>7, <2>1, <2>2 DEF IsOver, Awaited
<1>8. \/ UNCHANGED <<run, queue>>
      \/ \E job : run' = run /\ queue' = Append(queue, job)
      \/ \E u \in Turn : RunStep(u)
      \/ \E i \in DOMAIN queue : ReadJob(i) \/ WriteJob(i)
      \/ queue' = NotedBy("direct", queue) /\ run' = run
  <2>1. CASE \E u \in Turn : StartTurn(u)
    BY <2>1 DEF StartTurn, Queued
  <2>2. CASE \E u \in Turn : StartStep(u) \/ SteerTurn(u)
    BY <2>2 DEF StartStep, Announce, Register, SteerTurn
  <2>3. CASE \E i \in Interrupt : MarkAborted(i)
    BY <2>3 DEF MarkAborted, Queued
  <2>4. CASE \E i \in Interrupt : \/ \E u \in Turn, d \in BOOLEAN : InterruptTurn(i, u, d)
                                  \/ LoadItems(i) \/ RewriteItems(i) \/ InterruptReturns(i)
    BY <2>4 DEF InterruptTurn, LoadItems, RewriteItems, InterruptReturns
  <2>5. CASE (\E v \in Editor : CallEdit(v)) \/ (\E v \in DOMAIN direct : DirectStep(v)) \/ DeleteThread \/ UNCHANGED vars
    BY <2>5 DEF CallEdit, DirectStep, ReadThread, WriteThread, DeleteThread, vars
  <2>6. QED
    BY <2>1, <2>2, <2>3, <2>4, <2>5 DEF Next, JobStep, InterruptStep
<1>9. QED
  BY <1>1, <1>2, <1>3, <1>4, <1>5, <1>6, <1>7, <1>8

-----------------------------------------------------------------------------
(***************************************************************************)
(* What the record says of the turns.                                      *)
(***************************************************************************)
\* The record changes by three actions; when a write throws nothing away it is the record
\* itself that is changed.
LEMMA RecordWritten ==
  ASSUME StateInv, QueueInv, CopyInv, [Next]_vars
  PROVE  \/ thread' = thread
         \/ thread' = NoThread
         \/ \E i \in DOMAIN queue : WriteJob(i)
         \/ \E w \in Editor \cup Turn : WriteThread(w)
<1>1. DOMAIN direct = Editor \cup Turn
  BY DEF StateInv
<1>2. CASE \E t \in Turn : RunStep(t)
  BY <1>2 DEF RunStep, Launch, PutItem, ItemIsPut, Ask, PersonAnswers, CancelInput, Drain, End,
     LeaveUnfinished, AfterFinish
<1>3. CASE \E t \in Turn : StartTurn(t) \/ StartStep(t) \/ SteerTurn(t)
  BY <1>3 DEF StartTurn, StartStep, Announce, Register, SteerTurn
<1>4. CASE \E i \in Interrupt : (\E t \in Turn, d \in BOOLEAN : InterruptTurn(i, t, d)) \/ InterruptStep(i)
  BY <1>4 DEF InterruptTurn, InterruptStep, LoadItems, RewriteItems, MarkAborted, InterruptReturns
<1>5. CASE DeleteThread \/ (\E w \in Editor : CallEdit(w)) \/ UNCHANGED vars
  BY <1>5 DEF DeleteThread, CallEdit, vars
<1>6. CASE JobStep \/ \E w \in DOMAIN direct : DirectStep(w)
  BY <1>1, <1>6 DEF JobStep, ReadJob, DirectStep, ReadThread
<1>7. QED
  BY <1>2, <1>3, <1>4, <1>5, <1>6 DEF Next

LEMMA NothingLost ==
  ASSUME NEW kind, NEW over, Lost(kind, over), lost' = {}
  PROVE  lost = {} /\ over = {}
<1>1. \A x \in over : <<kind, x>> \in lost'
  BY DEF Lost
<1>2. QED
  BY <1>1 DEF Lost

LEMMA JobWrites ==
  ASSUME StateInv, QueueInv, CopyInv, NEW i \in DOMAIN queue, WriteJob(i)
  PROVE  /\ i = 1 /\ queue[i] \in JobRecord /\ JobInv(queue[i]) /\ queue[i].copy \in ThreadRecord
         /\ thread' = Mutated(queue[i], queue[i].copy)
         /\ UNCHANGED <<run, start, abandoned>>
         /\ queue[i].over = {} => queue[i].copy = thread
         /\ lost' = {} => lost = {} /\ queue[i].over = {}
<1>1. i = 1 /\ queue[i] \in JobRecord /\ JobInv(queue[i])
  BY FirstJob
<1>2. queue[i].copy \in ThreadRecord
  BY <1>1 DEF WriteJob, JobRecord
<1>3. queue[i].over = {} => queue[i].copy = thread
  BY DEF WriteJob, CopyInv
<1>4. lost' = {} => lost = {} /\ queue[i].over = {}
  BY NothingLost DEF WriteJob
<1>5. QED
  BY <1>1, <1>2, <1>3, <1>4 DEF WriteJob

LEMMA CallWrites ==
  ASSUME StateInv, CopyInv, NEW w \in Editor \cup Turn, WriteThread(w)
  PROVE  /\ direct[w].copy \in ThreadRecord
         /\ thread' \in ThreadRecord
         /\ thread'.turn = direct[w].copy.turn /\ thread'.item = direct[w].copy.item
         /\ thread'.status = direct[w].copy.status
         /\ thread'.edits = direct[w].copy.edits \cup {w}
         /\ UNCHANGED <<run, start, abandoned>>
         /\ direct'[w].pc = "done"
         /\ direct[w].over = {} => direct[w].copy = thread
         /\ lost' = {} => lost = {} /\ direct[w].over = {}
<1>1. DOMAIN direct = Editor \cup Turn /\ direct[w] \in CallRecord
  BY DEF StateInv
<1>2. direct[w].copy \in ThreadRecord
  BY <1>1 DEF WriteThread, CopyInv, CallRecord
<1>3. thread' = [direct[w].copy EXCEPT !.edits = @ \cup {w}]
  BY DEF WriteThread
<1>4. direct'[w].pc = "done"
  <2>1. direct' = [NotedBy("direct", direct) EXCEPT ![w] = [pc |-> "done", copy |-> Unread, over |-> {}]]
    BY DEF WriteThread
  <2>2. NotedBy("direct", direct) \in [Editor \cup Turn -> CallRecord]
    BY NotedCalls
  <2>3. QED
    BY <2>1, <2>2
<1>5. direct[w].over = {} => direct[w].copy = thread
  BY <1>1 DEF WriteThread, CopyInv
<1>6. lost' = {} => lost = {} /\ direct[w].over = {}
  BY NothingLost DEF WriteThread
<1>7. thread' \in ThreadRecord
  BY <1>2, <1>3 DEF ThreadRecord
<1>8. QED
  BY <1>2, <1>3, <1>4, <1>5, <1>6, <1>7 DEF WriteThread, ThreadRecord

LEMMA LostGrows ==
  ASSUME [Next]_vars
  PROVE  lost \subseteq lost' /\ abandoned \subseteq abandoned'
<1> USE DEF history
<1>1. CASE \E t \in Turn : RunStep(t)
  BY <1>1 DEF RunStep, Launch, PutItem, ItemIsPut, Ask, PersonAnswers, CancelInput, Drain, End,
     LeaveUnfinished, AfterFinish
<1>2. CASE \E t \in Turn : StartTurn(t) \/ StartStep(t) \/ SteerTurn(t)
  BY <1>2 DEF StartTurn, StartStep, Announce, Register, SteerTurn
<1>3. CASE \E i \in Interrupt : (\E t \in Turn, d \in BOOLEAN : InterruptTurn(i, t, d)) \/ InterruptStep(i)
  BY <1>3 DEF InterruptTurn, InterruptStep, LoadItems, RewriteItems, MarkAborted, InterruptReturns
<1>4. CASE JobStep \/ (\E w \in DOMAIN direct : DirectStep(w))
  BY <1>4 DEF JobStep, ReadJob, WriteJob, DirectStep, ReadThread, WriteThread, Lost
<1>5. CASE DeleteThread \/ (\E w \in Editor : CallEdit(w)) \/ UNCHANGED vars
  BY <1>5 DEF DeleteThread, CallEdit, vars
<1>6. QED
  BY <1>1, <1>2, <1>3, <1>4, <1>5 DEF Next

\* A call of startTurn goes on.
LEMMA StartsGoOn ==
  ASSUME StateInv, [Next]_vars, NEW t \in Turn
  PROVE  /\ start[t] \in {"storing", "announced", "registered"} =>
              start'[t] \in {"storing", "announced", "registered"}
         /\ start'[t] \in {"none", "notFound"} => start[t] \in {"none", "notFound"}
<1>0. start \in [Turn -> {"none", "notFound", "storing", "announced", "registered"}]
  BY DEF StateInv
<1>1. ASSUME NEW u \in Turn, StartTurn(u) \/ StartStep(u)
      PROVE  /\ start[t] \in {"storing", "announced", "registered"} =>
                  start'[t] \in {"storing", "announced", "registered"}
             /\ start'[t] \in {"none", "notFound"} => start[t] \in {"none", "notFound"}
  <2>1. CASE StartTurn(u)
    BY <1>0, <2>1 DEF StartTurn
  <2>2. CASE StartStep(u)
    BY <1>0, <2>2 DEF StartStep, Announce, Register
  <2>3. QED
    BY <1>1, <2>1, <2>2
<1>2. start' = start \/ \E u \in Turn : StartTurn(u) \/ StartStep(u)
  BY DEF Next, RunStep, Launch, PutItem, ItemIsPut, Ask, PersonAnswers, CancelInput, Drain, End,
     LeaveUnfinished, AfterFinish, JobStep, ReadJob,
         WriteJob, SteerTurn, InterruptTurn, InterruptStep, LoadItems, RewriteItems, MarkAborted,
         InterruptReturns, CallEdit, DirectStep, ReadThread, WriteThread, DeleteThread, vars
<1>3. QED
  BY <1>0, <1>1, <1>2

LEMMA StepRecord ==
  ASSUME StateInv, QueueInv, CopyInv, ServiceInv, RecordInv, [Next]_vars
  PROVE  RecordInv'
<1> SUFFICES ASSUME lost' = {}, thread' # NoThread
             PROVE  /\ \A w \in Editor : direct'[w].pc = "done" => w \in thread'.edits
                    /\ \A t \in Turn \ abandoned' : IsOver(t)' =>
                         thread'.turn[t] \in Ended \cup {"absent"} /\ thread'.item[t] # "open"
                    /\ abandoned' = {} /\ thread'.status = "running" =>
                         \E t \in Turn : start'[t] \in {"storing", "announced", "registered"} /\ ~IsOver(t)'
  BY DEF RecordInv
<1>0. lost = {} /\ abandoned \subseteq abandoned' /\ DOMAIN direct = Editor \cup Turn
  BY LostGrows DEF StateInv
<1>1. \A t \in Turn : IsOver(t)' /\ t \notin abandoned' =>
        \/ IsOver(t)
        \/ /\ run[t].pc = "finishing"
           /\ \E i \in DOMAIN queue : WriteJob(i) /\ queue[i].caller = <<"run", t>>
  BY OverStep
<1>2. CASE thread' = thread
  <2>1. /\ \A w \in Editor : direct[w].pc = "done" => w \in thread.edits
        /\ \A t \in Turn \ abandoned :
             IsOver(t) => thread.turn[t] \in Ended \cup {"absent"} /\ thread.item[t] # "open"
        /\ abandoned = {} /\ thread.status = "running" =>
             \E t \in Turn : start[t] \in {"storing", "announced", "registered"} /\ ~IsOver(t)
    BY <1>0, <1>2 DEF RecordInv
  <2>2. ASSUME NEW t \in Turn, IsOver(t)', t \notin abandoned', ~IsOver(t)
        PROVE  /\ thread.turn[t] \in Ended \cup {"absent"} /\ thread.item[t] # "open"
               /\ thread.status = "idle"
    <3>1. PICK i \in DOMAIN queue : run[t].pc = "finishing" /\ WriteJob(i) /\ queue[i].caller = <<"run", t>>
      BY <1>1, <2>2
    <3>2. /\ queue[i] \in JobRecord /\ JobInv(queue[i]) /\ queue[i].copy \in ThreadRecord
          /\ thread' = Mutated(queue[i], queue[i].copy)
      BY <3>1, JobWrites
    <3>3. queue[i].op = "finish" /\ queue[i].turn = t
      BY <3>1, <3>2 DEF JobInv, JobRecord
    <3>4. QED
      BY <1>2, <3>2, <3>3, MutatedTurn
  <2>3. \A t \in Turn : IsOver(t)' /\ t \notin abandoned' =>
          /\ thread.turn[t] \in Ended \cup {"absent"} /\ thread.item[t] # "open"
          /\ ~IsOver(t) => thread.status = "idle"
    <3> SUFFICES ASSUME NEW t \in Turn, IsOver(t)', t \notin abandoned'
                 PROVE  /\ thread.turn[t] \in Ended \cup {"absent"} /\ thread.item[t] # "open"
                        /\ ~IsOver(t) => thread.status = "idle"
      OBVIOUS
    <3>1. CASE IsOver(t)
      BY <1>0, <2>1, <3>1
    <3>2. CASE ~IsOver(t)
      BY <2>2, <3>2
    <3>3. QED
      BY <3>1, <3>2
  <2>4. \A w \in Editor : direct'[w].pc = "done" => w \in thread.edits
    <3> SUFFICES ASSUME NEW w \in Editor, direct'[w].pc = "done" PROVE w \in thread.edits
      OBVIOUS
    <3>1. direct[w].pc = "done" \/ WriteThread(w)
      BY <1>2, DirectMoves
    <3>2. CASE WriteThread(w)
      BY <1>2, <3>2, CallWrites
    <3>3. QED
      BY <2>1, <3>1, <3>2
  <2>5. ASSUME abandoned' = {}, thread.status = "running"
        PROVE  \E t \in Turn : start'[t] \in {"storing", "announced", "registered"} /\ ~IsOver(t)'
    <3>1. PICK t \in Turn : start[t] \in {"storing", "announced", "registered"} /\ ~IsOver(t)
      BY <1>0, <2>1, <2>5
    <3>2. start'[t] \in {"storing", "announced", "registered"}
      BY <3>1, StartsGoOn
    <3>3. ~IsOver(t)'
      BY <3>1, <2>3, <2>5
    <3>4. QED
      BY <3>2, <3>3
  <2>6. QED
    BY <1>2, <2>3, <2>4, <2>5
<1>3. ASSUME NEW i \in DOMAIN queue, WriteJob(i)
      PROVE  /\ \A w \in Editor : direct'[w].pc = "done" => w \in thread'.edits
             /\ \A t \in Turn \ abandoned' : IsOver(t)' =>
                  thread'.turn[t] \in Ended \cup {"absent"} /\ thread'.item[t] # "open"
             /\ abandoned' = {} /\ thread'.status = "running" =>
                  \E t \in Turn : start'[t] \in {"storing", "announced", "registered"} /\ ~IsOver(t)'
  <2>0. PICK job \in JobRecord : job = queue[i] /\ job.copy = thread /\ thread \in ThreadRecord
    BY <1>3, JobWrites
  <2>1. /\ i = 1 /\ JobInv(job) /\ thread' = Mutated(job, thread) /\ UNCHANGED <<run, start, abandoned>>
    BY <1>3, <2>0, JobWrites
  <2>2. thread # NoThread
    BY <2>0, RecordIsRead
  <2>3. /\ \A w \in Editor : direct[w].pc = "done" => w \in thread.edits
        /\ \A t \in Turn \ abandoned :
             IsOver(t) => thread.turn[t] \in Ended \cup {"absent"} /\ thread.item[t] # "open"
        /\ abandoned = {} /\ thread.status = "running" =>
             \E t \in Turn : start[t] \in {"storing", "announced", "registered"} /\ ~IsOver(t)
    BY <1>0, <2>2 DEF RecordInv
  <2>4. /\ thread' \in ThreadRecord /\ thread'.edits = thread.edits
        /\ \A t \in Turn : t # job.turn => thread'.turn[t] = thread.turn[t] /\ thread'.item[t] = thread.item[t]
    BY <2>0, <2>1, MutatedRecord
  <2>5. /\ job.op = "project" => thread'.turn[job.turn] = thread.turn[job.turn] /\ thread'.status = thread.status
        /\ job.op \in {"finish", "interrupt"} =>
              /\ thread'.turn[job.turn] \in Ended \cup {"absent"}
              /\ thread.item[job.turn] # "open" => thread'.item[job.turn] # "open"
              /\ job.op = "finish" => thread'.item[job.turn] # "open" /\ thread'.status = "idle"
              /\ thread'.status = "running" => thread' = thread
    BY <2>0, <2>1, MutatedTurn
  <2>6. \A t \in Turn : IsOver(t)' /\ t \notin abandoned' =>
          \/ IsOver(t)
          \/ run[t].pc = "finishing" /\ job.caller = <<"run", t>>
    <3> SUFFICES ASSUME NEW t \in Turn, IsOver(t)', t \notin abandoned', ~IsOver(t)
                 PROVE  run[t].pc = "finishing" /\ job.caller = <<"run", t>>
      OBVIOUS
    <3>1. PICK k \in DOMAIN queue : run[t].pc = "finishing" /\ WriteJob(k) /\ queue[k].caller = <<"run", t>>
      BY <1>1
    <3>2. k = i
      BY <3>1, <2>1, JobWrites
    <3>3. QED
      BY <3>1, <3>2, <2>0
  <2>7. \A w \in Editor : direct'[w].pc = "done" => w \in thread'.edits
    <3> SUFFICES ASSUME NEW w \in Editor, direct'[w].pc = "done" PROVE w \in thread'.edits
      OBVIOUS
    <3>1. direct[w].pc = "done" \/ WriteThread(w)
      BY <2>2, DirectMoves
    <3>2. CASE WriteThread(w)
      BY <3>2, CallWrites
    <3>3. QED
      BY <2>3, <2>4, <3>1, <3>2
  <2>8. ASSUME NEW t \in Turn \ abandoned', IsOver(t)'
        PROVE  thread'.turn[t] \in Ended \cup {"absent"} /\ thread'.item[t] # "open"
    <3>1. CASE t # job.turn
      <4>1. IsOver(t)
        BY <2>6, <2>8, <2>1, <3>1 DEF JobInv, JobRecord
      <4>2. QED
        BY <2>1, <2>3, <2>4, <2>8, <3>1, <4>1
    <3>2. CASE t = job.turn /\ job.op = "start"
      <4>1. run'[t].pc = "none"
        BY <2>1, <3>2 DEF JobInv, ServiceInv
      <4>2. QED
        BY <2>8, <4>1 DEF IsOver
    <3>3. CASE t = job.turn /\ job.op = "project"
      <4>1. run'[t].pc = "putting"
        BY <2>1, <3>3 DEF JobInv
      <4>2. QED
        BY <2>8, <4>1 DEF IsOver
    <3>4. CASE t = job.turn /\ job.op = "finish"
      BY <2>5, <3>4
    <3>5. CASE t = job.turn /\ job.op = "interrupt"
      <4>1. IsOver(t)
        BY <2>6, <2>8, <2>1, <3>5 DEF JobInv
      <4>2. QED
        BY <2>1, <2>3, <2>5, <2>8, <3>5, <4>1
    <3>6. QED
      BY <3>1, <3>2, <3>3, <3>4, <3>5 DEF JobRecord
  <2>9. ASSUME abandoned' = {}, thread'.status = "running"
        PROVE  \E t \in Turn : start'[t] \in {"storing", "announced", "registered"} /\ ~IsOver(t)'
    <3>1. CASE job.op = "start"
      <4>1. start'[job.turn] = "storing" /\ run'[job.turn].pc = "none"
        BY <2>1, <3>1 DEF JobInv, ServiceInv, JobRecord
      <4>2. QED
        BY <4>1 DEF IsOver, JobRecord
    <3>2. CASE job.op \in {"project", "interrupt"}
      <4>1. thread.status = "running"
        BY <2>5, <2>9, <3>2
      <4>2. PICK t \in Turn : start[t] \in {"storing", "announced", "registered"} /\ ~IsOver(t)
        BY <2>1, <2>3, <2>9, <4>1
      <4>3. ~(run[t].pc = "finishing" /\ job.caller = <<"run", t>>)
        BY <2>1, <3>2 DEF JobInv
      <4>4. ~IsOver(t)'
        BY <2>6, <2>9, <4>2, <4>3
      <4>5. QED
        BY <2>1, <4>2, <4>4
    <3>3. CASE job.op = "finish"
      BY <2>5, <2>9, <3>3
    <3>4. QED
      BY <3>1, <3>2, <3>3 DEF JobRecord
  <2>10. QED
    BY <2>7, <2>8, <2>9
<1>4. ASSUME NEW v \in Editor \cup Turn, WriteThread(v), ~\E i \in DOMAIN queue : WriteJob(i)
      PROVE  /\ \A w \in Editor : direct'[w].pc = "done" => w \in thread'.edits
             /\ \A t \in Turn \ abandoned' : IsOver(t)' =>
                  thread'.turn[t] \in Ended \cup {"absent"} /\ thread'.item[t] # "open"
             /\ abandoned' = {} /\ thread'.status = "running" =>
                  \E t \in Turn : start'[t] \in {"storing", "announced", "registered"} /\ ~IsOver(t)'
  <2>1. /\ thread \in ThreadRecord /\ UNCHANGED <<run, start, abandoned>>
        /\ thread'.turn = thread.turn /\ thread'.item = thread.item /\ thread'.status = thread.status
        /\ thread'.edits = thread.edits \cup {v}
    BY <1>4, CallWrites
  <2>2. thread # NoThread
    BY <2>1, RecordIsRead
  <2>3. /\ \A w \in Editor : direct[w].pc = "done" => w \in thread.edits
        /\ \A t \in Turn \ abandoned :
             IsOver(t) => thread.turn[t] \in Ended \cup {"absent"} /\ thread.item[t] # "open"
        /\ abandoned = {} /\ thread.status = "running" =>
             \E t \in Turn : start[t] \in {"storing", "announced", "registered"} /\ ~IsOver(t)
    BY <1>0, <2>2 DEF RecordInv
  <2>4. \A t \in Turn : IsOver(t)' /\ t \notin abandoned' => IsOver(t)
    BY <1>1, <1>4
  <2>5. \A w \in Editor : direct'[w].pc = "done" => w \in thread'.edits
    <3> SUFFICES ASSUME NEW w \in Editor, direct'[w].pc = "done" PROVE w \in thread'.edits
      OBVIOUS
    <3>1. direct[w].pc = "done" \/ WriteThread(w)
      BY <2>2, DirectMoves
    <3>2. CASE WriteThread(w)
      BY <3>2, CallWrites
    <3>3. QED
      BY <2>1, <2>3, <3>1, <3>2
  <2>6. QED
    BY <2>1, <2>3, <2>4, <2>5
<1>5. QED
  BY <1>2, <1>3, <1>4, RecordWritten

\* Where the jobs of the queue come from.
LEMMA JobFrom ==
  ASSUME StateInv, QueueInv, [Next]_vars, NEW k \in DOMAIN queue', queue'[k].op = "start"
  PROVE  \/ start[queue'[k].turn] = "none"
         \/ \E j \in DOMAIN queue : /\ queue[j].op = "start" /\ queue[j].turn = queue'[k].turn
                                    /\ \A i \in DOMAIN queue : WriteJob(i) => j # i
<1>0. Serial(queue) /\ queue \in Seq(JobRecord) /\ \A i \in DOMAIN queue : queue[i] \in JobRecord
  BY DEF QueueInv, Serial
<1>1. ASSUME NEW op, NEW t, NEW status, NEW discard, NEW caller, Queued(Job(op, t, status, discard, caller)),
             op = "start" => start[t] = "none",
             ~\E i \in DOMAIN queue : WriteJob(i)
      PROVE  \/ start[queue'[k].turn] = "none"
             \/ \E j \in DOMAIN queue : /\ queue[j].op = "start" /\ queue[j].turn = queue'[k].turn
                                        /\ \A i \in DOMAIN queue : WriteJob(i) => j # i
  <2> DEFINE job == Job(op, t, status, discard, caller)
  <2>1. job.op = op /\ job.turn = t
    BY DEF Job
  <2>2. queue' = Append(queue, job)
    BY <1>1 DEF Queued
  <2> HIDE DEF job
  <2>3. /\ DOMAIN queue = 1 .. Len(queue) /\ DOMAIN queue' = 1 .. Len(queue) + 1 /\ Len(queue) \in Nat
        /\ queue'[Len(queue) + 1] = job /\ \A j \in DOMAIN queue : queue'[j] = queue[j]
    BY <1>0, <2>2
  <2>4. k = Len(queue) + 1 \/ k \in DOMAIN queue
    BY <2>3
  <2>5. CASE k = Len(queue) + 1
    BY <1>1, <2>1, <2>3, <2>5
  <2>6. CASE k \in DOMAIN queue
    BY <1>1, <2>3, <2>6
  <2>7. QED
    BY <2>4, <2>5, <2>6
<1>2. ASSUME NEW i \in DOMAIN queue, WriteJob(i)
      PROVE  \E j \in DOMAIN queue : /\ queue[j].op = "start" /\ queue[j].turn = queue'[k].turn
                                     /\ \A h \in DOMAIN queue : WriteJob(h) => j # h
  <2>1. i = 1 /\ queue # <<>> /\ Len(queue) \in Nat /\ DOMAIN queue = 1 .. Len(queue)
    BY <1>2, FirstJob
  <2>2. queue' = RemoveAt(queue, 1)
    BY <1>0, <1>2, <2>1, WriteRemoves DEF WriteJob
  <2>3. k + 1 \in DOMAIN queue /\ queue'[k] = queue[k + 1]
    BY <1>0, <2>1, <2>2, SerialRemoved
  <2>4. queue' \in Seq(JobRecord)
    BY <1>0, <2>1, <2>2, FirstRemoved
  <2>5. k + 1 # 1
    BY <2>4
  <2>6. \A h \in DOMAIN queue : WriteJob(h) => h = 1
    BY FirstJob
  <2>7. QED
    BY <2>3, <2>5, <2>6
<1>3. ASSUME NEW j \in DOMAIN queue, queue[j].op = queue'[k].op, queue[j].turn = queue'[k].turn,
             ~\E i \in DOMAIN queue : WriteJob(i)
      PROVE  \E h \in DOMAIN queue : /\ queue[h].op = "start" /\ queue[h].turn = queue'[k].turn
                                     /\ \A i \in DOMAIN queue : WriteJob(i) => h # i
  BY <1>3
<1>4. ASSUME NEW i \in DOMAIN queue, ReadJob(i)
      PROVE  \E j \in DOMAIN queue : queue[j].op = queue'[k].op /\ queue[j].turn = queue'[k].turn
  <2>1. /\ i = 1 /\ queue # <<>> /\ queue[1] \in JobRecord
        /\ Len(queue) \in Nat /\ DOMAIN queue = 1 .. Len(queue)
    BY <1>4, FirstJob
  <2>2. CASE thread = NoThread
    <3>1. queue' = RemoveAt(queue, 1)
      BY <1>4, <2>1, <2>2 DEF ReadJob
    <3>2. QED
      BY <1>0, <2>1, <3>1, SerialRemoved
  <2>3. CASE thread # NoThread
    <3>1. queue' = [queue EXCEPT ![i] = [queue[i] EXCEPT !.copy = thread]]
      BY <1>4, <2>3 DEF ReadJob
    <3>2. queue'[k].op = queue[k].op /\ queue'[k].turn = queue[k].turn /\ k \in DOMAIN queue
      BY <1>0, <3>1 DEF JobRecord
    <3>3. QED
      BY <3>2
  <2>4. QED
    BY <2>2, <2>3
<1>5. ASSUME queue' = NotedBy("direct", queue)
      PROVE  \E j \in DOMAIN queue : queue[j].op = queue'[k].op /\ queue[j].turn = queue'[k].turn
  <2>1. /\ k \in DOMAIN queue
        /\ queue[k].copy = Unread => queue'[k] = queue[k]
        /\ queue[k].copy # Unread => queue'[k] = [queue[k] EXCEPT !.over = @ \cup {"direct"}]
    BY <1>0, <1>5, QueueNoted
  <2>2. QED
    BY <2>1, <1>0 DEF JobRecord
<1>6. CASE ~\E i \in DOMAIN queue : WriteJob(i)
  <2>1. CASE \E t \in Turn : RunStep(t)
    BY <1>1, <1>3, <1>6, <2>1
       DEF RunStep, Launch, PutItem, ItemIsPut, Ask, PersonAnswers, CancelInput, Drain, End,
          Finish, LeaveUnfinished, AfterFinish
  <2>2. CASE \E t \in Turn : StartTurn(t) \/ StartStep(t) \/ SteerTurn(t)
    BY <1>1, <1>3, <1>6, <2>2 DEF StartTurn, StartStep, Announce, Register, SteerTurn
  <2>3. CASE \E i \in Interrupt : (\E t \in Turn, d \in BOOLEAN : InterruptTurn(i, t, d)) \/ InterruptStep(i)
    BY <1>1, <1>3, <1>6, <2>3 DEF InterruptTurn, InterruptStep, LoadItems, RewriteItems, MarkAborted, InterruptReturns
  <2>4. CASE \E i \in DOMAIN queue : ReadJob(i)
    BY <1>3, <1>4, <1>6, <2>4
  <2>5. CASE queue' = queue \/ queue' = NotedBy("direct", queue)
    BY <1>3, <1>5, <1>6, <2>5
  <2>6. CASE (\E w \in Editor : CallEdit(w)) \/ (\E w \in DOMAIN direct : DirectStep(w)) \/ DeleteThread \/ UNCHANGED vars
    BY <2>5, <2>6 DEF CallEdit, DirectStep, ReadThread, WriteThread, DeleteThread, vars
  <2>7. QED
    BY <1>6, <2>1, <2>2, <2>3, <2>4, <2>6 DEF Next, JobStep
<1>7. QED
  BY <1>2, <1>6

LEMMA StepUnstored ==
  ASSUME StateInv, QueueInv, CopyInv, UnstoredInv, [Next]_vars
  PROVE  UnstoredInv'
<1>0. DOMAIN direct = Editor \cup Turn /\ DOMAIN direct' = Editor \cup Turn
  BY StepState DEF StateInv
<1> SUFFICES ASSUME NEW t \in Turn, Unstored(t)'
             PROVE  /\ thread' # NoThread => thread'.turn[t] = "absent"
                    /\ \A i \in DOMAIN queue' : queue'[i].copy # Unread => queue'[i].copy.turn[t] = "absent"
                    /\ \A w \in DOMAIN direct' : direct'[w].copy # Unread => direct'[w].copy.turn[t] = "absent"
  BY DEF UnstoredInv
<1>1. /\ Unstored(t)
      /\ \A i \in DOMAIN queue : WriteJob(i) => ~(queue[i].op = "start" /\ queue[i].turn = t)
  <2>1. CASE start'[t] \in {"none", "notFound"}
    <3>1. start[t] \in {"none", "notFound"}
      BY <2>1, StartsGoOn
    <3>2. QED
      BY <3>1 DEF Unstored, QueueInv, JobInv
  <2>2. ASSUME NEW k \in DOMAIN queue', queue'[k].op = "start", queue'[k].turn = t
        PROVE  /\ Unstored(t)
               /\ \A i \in DOMAIN queue : WriteJob(i) => ~(queue[i].op = "start" /\ queue[i].turn = t)
    <3>1. CASE start[t] = "none"
      BY <3>1 DEF Unstored, QueueInv, JobInv
    <3>2. ASSUME NEW j \in DOMAIN queue, queue[j].op = "start", queue[j].turn = t,
                 \A i \in DOMAIN queue : WriteJob(i) => j # i
          PROVE  /\ Unstored(t)
                 /\ \A i \in DOMAIN queue : WriteJob(i) => ~(queue[i].op = "start" /\ queue[i].turn = t)
      <4>1. Unstored(t)
        BY <3>2 DEF Unstored
      <4>2. \A i \in DOMAIN queue : queue[i].op = "start" /\ queue[i].turn = t => i = j
        <5>1. \A i \in DOMAIN queue : queue[i].op = "start" => queue[i].caller = <<"start", queue[i].turn>>
          BY DEF QueueInv, JobInv
        <5>2. \A i \in DOMAIN queue : queue[i].op = "start" /\ queue[i].caller = queue[j].caller => i = j
          BY DEF QueueInv, Serial
        <5>3. QED
          BY <3>2, <5>1, <5>2
      <4>3. QED
        BY <3>2, <4>1, <4>2
    <3>3. QED
      BY <2>2, <3>1, <3>2, JobFrom
  <2>3. QED
    BY <2>1, <2>2 DEF Unstored
<1>2. /\ thread # NoThread => thread.turn[t] = "absent"
      /\ \A i \in DOMAIN queue : queue[i].copy # Unread => queue[i].copy.turn[t] = "absent"
      /\ \A w \in DOMAIN direct : direct[w].copy # Unread => direct[w].copy.turn[t] = "absent"
  BY <1>1 DEF UnstoredInv
<1>3. ASSUME NEW i \in DOMAIN queue', queue'[i].copy # Unread PROVE queue'[i].copy.turn[t] = "absent"
  BY <1>2, <1>3, QueueTo DEF Held
<1>4. ASSUME NEW w \in DOMAIN direct', direct'[w].copy # Unread PROVE direct'[w].copy.turn[t] = "absent"
  BY <1>0, <1>2, <1>4, DirectTo DEF Held
<1>5. ASSUME NEW i \in DOMAIN queue, WriteJob(i) PROVE thread'.turn[t] = "absent"
  <2>1. PICK job \in JobRecord : job = queue[i]
    BY <1>5, JobWrites
  <2>2. JobInv(job) /\ job.copy \in ThreadRecord /\ thread' = Mutated(job, job.copy)
    BY <1>5, <2>1, JobWrites
  <2>3. job.copy.turn[t] = "absent" /\ ~(job.op = "start" /\ job.turn = t)
    BY <1>1, <1>2, <1>5, <2>1, <2>2, RecordIsRead
  <2>4. CASE job.turn # t
    BY <2>2, <2>3, <2>4, MutatedRecord
  <2>5. CASE job.turn = t
    <3>1. job.op \in {"project", "finish", "interrupt"}
      BY <2>3, <2>5 DEF JobRecord
    <3>2. QED
      BY <2>2, <2>3, <2>5, <3>1, MutatedTurn
  <2>6. QED
    BY <2>4, <2>5
<1>6. ASSUME NEW w \in Editor \cup Turn, WriteThread(w) PROVE thread'.turn[t] = "absent"
  BY <1>0, <1>2, <1>6, CallWrites, RecordIsRead
<1>7. thread' # NoThread => thread'.turn[t] = "absent"
  BY <1>2, <1>5, <1>6, RecordWritten
<1>8. QED
  BY <1>3, <1>4, <1>7
-----------------------------------------------------------------------------
(***************************************************************************)
(* The theorems.                                                           *)
(***************************************************************************)
LEMMA ThreadInvHolds == Spec => []ThreadInv
<1>1. ThreadInv /\ [Next]_vars => ThreadInv'
  BY StepState, StepQueue, StepCopy, StepService, StepRecord, StepUnstored DEF ThreadInv
<1>2. QED
  BY <1>1, InitThreadInv, PTL DEF Spec

LEMMA InvTypes == ThreadInv => TypeOK
<1> SUFFICES ASSUME ThreadInv PROVE TypeOK
  OBVIOUS
<1>1. StateInv /\ \A i \in DOMAIN queue : queue[i] \in JobRecord
  BY DEF ThreadInv, QueueInv, Serial
<1>2. \A t \in Turn : run[t].pc \in {"none", "running", "approval", "input", "putting", "finishing", "done"}
  BY <1>1 DEF StateInv, RunRecord
<1>3. \A i \in DOMAIN queue :
        /\ queue[i].op \in {"start", "project", "finish", "interrupt"} /\ queue[i].turn \in Turn
        /\ queue[i].copy = Unread \/ queue[i].copy \in ThreadRecord
  BY <1>1 DEF JobRecord
<1>4. \A w \in DOMAIN direct : direct[w].copy = Unread \/ direct[w].copy \in ThreadRecord
  BY <1>1 DEF StateInv, CallRecord
<1>5. QED
  BY <1>1, <1>2, <1>3, <1>4 DEF StateInv, TypeOK

\* Every copy is either the record or was noted to be overwritten, and every runner is over
\* only when its finish was written: when all calls have returned, what their writes left is
\* in the record.
THEOREM ThreadSettles == Spec => []QuietThreadIsSettled
<1>1. ASSUME ThreadInv PROVE QuietThreadIsSettled
  <2> USE DEF ThreadInv
  <2>1. TypeOK /\ QueuedWritesAreSerial /\ EditsAreKept
    BY <1>1, InvTypes DEF QueueInv, QueuedWritesAreSerial, EditsAreKept, RecordInv
  <2>2. ASSUME Quiet, NEW t \in Turn, start[t] \notin {"none", "notFound"} PROVE IsOver(t) /\ run[t].pc = "done"
    BY <2>2 DEF Quiet, IsOver
  <2>3. SettledWhenQuiet
    <3> SUFFICES ASSUME Quiet, lost = {}, thread # NoThread
                 PROVE  /\ \A t \in Turn \ abandoned : start[t] = "registered" =>
                             thread.turn[t] \in Ended \cup {"absent"} /\ thread.item[t] # "open"
                        /\ (registered \cup tracked) \subseteq abandoned
                        /\ abandoned = {} => thread.status = "idle"
      BY DEF SettledWhenQuiet
    <3>1. \A t \in Turn \ abandoned : start[t] = "registered" =>
            thread.turn[t] \in Ended \cup {"absent"} /\ thread.item[t] # "open"
      BY <1>1, <2>2 DEF RecordInv
    <3>2. (registered \cup tracked) \subseteq abandoned
      BY <1>1, <2>2 DEF ServiceInv, StateInv
    <3>3. ASSUME abandoned = {} PROVE thread.status = "idle"
      <4>1. thread.status # "running"
        BY <1>1, <2>2, <3>3 DEF RecordInv
      <4>2. QED
        BY <1>1, <4>1 DEF StateInv, ThreadRecord
    <3>4. QED
      BY <3>1, <3>2, <3>3
  <2>4. BuffersAreCleared
    <3> SUFFICES ASSUME Quiet, NEW t \in Turn \ (steeredLate \cup abandoned) PROVE buffer[t] = "none"
      BY DEF BuffersAreCleared
    <3>1. t \notin registered
      BY <1>1, <2>2 DEF ServiceInv
    <3>2. QED
      BY <1>1, <3>1 DEF ServiceInv
  <2>5. QED
    BY <2>1, <2>3, <2>4 DEF QuietThreadIsSettled
<1>2. ThreadInv => QuietThreadIsSettled
  BY <1>1
<1>3. QED
  BY <1>2, ThreadInvHolds, PTL

\* Only the mutation of startTurn sets a turn to running, and as long as it waits the turn
\* is in no copy: a write can bring an ended turn back only with a copy of an earlier record.
THEOREM EndIsKept == Spec => EndedStaysEnded
<1>1. ASSUME ThreadInv, [Next]_vars, NEW t \in Turn, thread # NoThread, thread' # NoThread,
             thread.turn[t] \in Ended, thread'.turn[t] = "running"
      PROVE  StaleCopyIsWritten
  <2> USE DEF ThreadInv
  <2>1. DOMAIN direct = Editor \cup Turn
    BY <1>1 DEF StateInv
  <2>2. ASSUME NEW i \in DOMAIN queue, WriteJob(i) PROVE StaleCopyIsWritten
    <3>1. PICK job \in JobRecord : job = queue[i]
      BY <1>1, <2>2, JobWrites
    <3>2. /\ i = 1 /\ JobInv(job) /\ job.copy \in ThreadRecord /\ thread' = Mutated(job, job.copy)
          /\ job.over = {} => job.copy = thread
      BY <1>1, <2>2, <3>1, JobWrites
    <3>3. CASE job.over # {}
      <4>1. queue # <<>> /\ Serial(queue) /\ queue \in Seq(JobRecord)
        BY <1>1, <2>2, FirstJob DEF QueueInv, Serial
      <4>2. queue' = RemoveAt(queue, 1)
        BY <2>2, <3>2, <4>1, WriteRemoves DEF WriteJob
      <4>3. Len(queue') = Len(queue) - 1 /\ Len(queue) \in Nat
        BY <4>1, <4>2, FirstRemoved
      <4>4. Len(queue') < Len(queue)
        BY <4>3
      <4>5. QED
        BY <3>1, <3>3, <4>4 DEF StaleCopyIsWritten
    <3>4. CASE job.over = {}
      <4>1. job.copy.turn[t] \in Ended
        BY <1>1, <3>2, <3>4
      <4>2. job.op = "start" => job.turn # t
        BY <1>1, <3>1 DEF UnstoredInv, Unstored, Ended
      <4>3. thread'.turn[t] # "running"
        <5>1. CASE job.turn # t
          BY <3>2, <4>1, <5>1, MutatedRecord DEF Ended
        <5>2. CASE job.turn = t
          <6>1. job.op \in {"project", "finish", "interrupt"}
            BY <4>2, <5>2 DEF JobRecord
          <6>2. QED
            BY <3>2, <4>1, <5>2, <6>1, MutatedTurn DEF Ended
        <5>3. QED
          BY <5>1, <5>2
      <4>4. QED
        BY <1>1, <4>3
    <3>5. QED
      BY <3>3, <3>4
  <2>3. ASSUME NEW w \in Editor \cup Turn, WriteThread(w) PROVE StaleCopyIsWritten
    <3>1. /\ thread'.turn = direct[w].copy.turn /\ direct'[w].pc = "done"
          /\ direct[w].over = {} => direct[w].copy = thread
      BY <1>1, <2>3, CallWrites
    <3>2. direct[w].over # {}
      BY <1>1, <3>1 DEF Ended
    <3>3. QED
      BY <2>1, <3>1, <3>2 DEF StaleCopyIsWritten
  <2>4. thread' # thread
    BY <1>1 DEF Ended
  <2>5. QED
    BY <1>1, <2>2, <2>3, <2>4, RecordWritten
<1>2. ThreadInv /\ [Next]_vars =>
        [\A t \in Turn :
           thread # NoThread /\ thread' # NoThread /\ thread.turn[t] \in Ended /\ thread'.turn[t] = "running"
             => StaleCopyIsWritten]_vars
  BY <1>1
<1>3. QED
  BY <1>2, ThreadInvHolds, PTL DEF Spec, EndedStaysEnded
-----------------------------------------------------------------------------
(***************************************************************************)
(* ToolLoop.                                                               *)
(***************************************************************************)
Place == {"open", "called", "announced", "waiting", "allowed", "asking0", "running", "asking", "closed"} \cup Over
Busy == Place \ ({"open", "closed"} \cup Over)
LoopCall == [call : Call \cup {Plan}, at : Place, answer : Over \cup {"none", "suppressed"}]
Inspection == [call : Call \cup {Plan}, admitted : BOOLEAN]
-----------------------------------------------------------------------------
(***************************************************************************)
(* The inductive invariant.                                                *)
(***************************************************************************)
LoopTypeInv ==
  /\ runner \in {"classic", "evented"}
  /\ pc \in {"check", "build", "stream", "dispatch", "form", "wait", "ended"}
  /\ step \in 0 .. MaxSteps /\ retries \in 0 .. MaxRetries
  /\ calls \in Seq(LoopCall) /\ Len(calls) <= MaxCalls
  /\ next \in 1 .. Len(calls) + 1 /\ suppressedNext \in Nat
  /\ batch \in Seq(1 .. next - 1) /\ Len(batch) <= ParallelLimit
  /\ abortSignal \in BOOLEAN
  /\ outcome \in {"none", "completed", "failed", "aborted"}
  /\ approvals \in [1 .. MaxCalls -> {"none", "pending", "allow", "deny"}]
  /\ decisions \in [1 .. MaxCalls -> {"none", "allow", "deny"}]
  /\ inspected \in Seq(Inspection)

\* What the tracker has is at work, and a call that is closed has its answer.
CallsInv ==
  /\ inflight = {i \in DOMAIN calls : calls[i].at \in Busy}
  /\ \A i \in DOMAIN calls : calls[i].at = "closed" => calls[i].answer # "none"

\* Where the calls of a reply are when the loop is at pc.
InBatchNow(i) == \E k \in DOMAIN batch : batch[k] = i

PhaseInv ==
  /\ pc \notin {"check", "ended"} => step < MaxSteps
  /\ pc \notin {"form", "wait"} => batch = <<>> /\ suppressedNext = 0
  /\ pc = "form" => suppressedNext = 0
  /\ suppressedNext < next
  /\ pc \in {"check", "build"} => \A i \in DOMAIN calls : calls[i].at = "closed"
  /\ pc = "stream" => next = 1
  /\ pc \in {"stream", "dispatch", "form", "wait"} =>
       \A i \in DOMAIN calls :
         /\ calls[i].at = "open" <=> i >= next \/ i = suppressedNext
         /\ i < next /\ i # suppressedNext /\ ~InBatchNow(i) => calls[i].at = "closed"
  /\ pc = "ended" => \A i \in DOMAIN calls : calls[i].at \in {"open", "closed"} \cup Over

\* What a person has said to a call that needs an approval.
GateInv ==
  \A i \in 1 .. MaxCalls :
    /\ i \notin DOMAIN calls => approvals[i] = "none" /\ decisions[i] = "none"
    /\ i \in DOMAIN calls =>
         /\ calls[i].at \in {"open", "called", "announced"} => approvals[i] = "none" /\ decisions[i] = "none"
         /\ calls[i].at = "waiting" => approvals[i] = "pending" /\ decisions[i] = "none"
         /\ calls[i].at = "allowed" /\ calls[i].call \in Gated => decisions[i] = "allow"

\* The calls that count for the guard, and of these the ones no change of a file came after.
Counted == {j \in DOMAIN inspected : inspected[j].admitted /\ inspected[j].call \notin Asking}
Fresh == {j \in Counted : inspected[j].call \in Mutating
                            \/ \A k \in j .. Len(inspected) : inspected[k].call \notin Mutating}

\* The window has fresh calls, and each that fewer than Window came after.
WindowInv ==
  /\ recent \subseteq DOMAIN inspected /\ Cardinality(recent) <= Window
  /\ runner = "classic" =>
       /\ recent \subseteq Fresh
       /\ \A j \in Fresh : Since(j, Len(inspected) + 1) <= Window => j \in recent
  /\ runner = "evented" => recent = {}

GuardInv == WindowInv /\ StormsAreBounded

LoopInv == LoopTypeInv /\ CallsInv /\ PhaseInv /\ GateInv /\ GuardInv
-----------------------------------------------------------------------------
\* The invariant holds at first.
LEMMA LoopBegins ==
  ASSUME LoopInit
  PROVE  LoopInv
<1> USE LoopAssumption DEF LoopInit
<1>1. LoopTypeInv
  <2>1. calls \in Seq(LoopCall) /\ batch \in Seq(1 .. next - 1) /\ inspected \in Seq(Inspection)
    OBVIOUS
  <2>2. Len(calls) = 0 /\ Len(batch) = 0
    OBVIOUS
  <2>3. /\ approvals \in [1 .. MaxCalls -> {"none", "pending", "allow", "deny"}]
        /\ decisions \in [1 .. MaxCalls -> {"none", "allow", "deny"}]
    BY DEF NoDecision
  <2>4. /\ step \in 0 .. MaxSteps /\ retries \in 0 .. MaxRetries /\ next \in 1 .. Len(calls) + 1
        /\ suppressedNext \in Nat /\ Len(batch) <= ParallelLimit /\ Len(calls) <= MaxCalls
    BY <2>2
  <2>5. abortSignal \in BOOLEAN /\ outcome \in {"none", "completed", "failed", "aborted"}
    OBVIOUS
  <2>6. pc = "check" /\ runner \in {"classic", "evented"}
    OBVIOUS
  <2>7. QED
    BY <2>1, <2>2, <2>3, <2>4, <2>5, <2>6 DEF LoopTypeInv
<1>2. CallsInv /\ PhaseInv /\ GateInv
  BY DEF CallsInv, PhaseInv, GateInv, NoDecision, InBatchNow
<1>3. Cardinality({}) = 0
  BY FS_EmptySet
<1>4. GuardInv
  BY <1>3 DEF GuardInv, WindowInv, StormsAreBounded, Fresh, Counted
<1>5. QED
  BY <1>1, <1>2, <1>4 DEF LoopInv

\* Nothing but a call that is dispatched matters to the guard.
LEMMA GuardIsLeft ==
  ASSUME LoopInv, UNCHANGED <<runner, recent, inspected>>
  PROVE  GuardInv'
BY ZenonT(60) DEF LoopInv, GuardInv, WindowInv, StormsAreBounded, Fresh, Counted, Since, SameBefore

\* A call at work goes on.
LEMMA CallGoesOn ==
  ASSUME LoopInv, NEW i \in DOMAIN calls, calls[i].at \in Busy,
         NEW at \in Busy \cup Over, To(i, at), at \notin {"open", "closed"}
  PROVE  /\ i \in 1 .. MaxCalls /\ Len(calls') = Len(calls) /\ DOMAIN calls' = DOMAIN calls
         /\ \A j \in DOMAIN calls : calls'[j].call = calls[j].call
         /\ \A j \in DOMAIN calls : calls'[j].at = IF j = i THEN at ELSE calls[j].at
         /\ approvals' \in [1 .. MaxCalls -> {"none", "pending", "allow", "deny"}] /\
            decisions' \in [1 .. MaxCalls -> {"none", "allow", "deny"}] => LoopTypeInv'
         /\ CallsInv' /\ PhaseInv' /\ GuardInv'
<1> USE DEF To, LoopInv, LoopTypeInv
<1>1. at \in Place /\ calls \in Seq(LoopCall)
  BY DEF Busy, Place
<1>2. /\ Len(calls') = Len(calls) /\ DOMAIN calls' = DOMAIN calls
      /\ \A j \in DOMAIN calls : calls'[j] = IF j = i THEN [calls[j] EXCEPT !.at = at] ELSE calls[j]
      /\ calls' \in Seq(LoopCall)
  <2>1. calls' = [calls EXCEPT ![i] = [calls[i] EXCEPT !.at = at]]
    OBVIOUS
  <2>2. DOMAIN calls = 1 .. Len(calls) /\ Len(calls) \in Nat /\ calls[i] \in LoopCall
    BY <1>1, LenProperties
  <2>3. [calls[i] EXCEPT !.at = at] \in LoopCall
    BY <1>1, <2>2 DEF LoopCall
  <2>4. /\ calls' \in Seq(LoopCall) /\ Len(calls') = Len(calls)
        /\ \A j \in 1 .. Len(calls) : calls'[j] = IF j = i THEN [calls[i] EXCEPT !.at = at] ELSE calls[j]
    BY <1>1, <2>1, <2>2, <2>3, ExceptSeq
  <2>5. DOMAIN calls' = 1 .. Len(calls)
    BY <2>1, <2>2
  <2>6. QED
    BY <2>2, <2>4, <2>5
<1>3. \A j \in DOMAIN calls : calls[j] \in LoopCall
  BY <1>1
<1>4. \A j \in DOMAIN calls :
        /\ calls'[j] \in LoopCall /\ calls'[j].answer = calls[j].answer /\ calls'[j].call = calls[j].call
        /\ calls'[j].at = IF j = i THEN at ELSE calls[j].at
  BY <1>1, <1>2, <1>3 DEF LoopCall
<1>5. calls' \in Seq(LoopCall)
  BY <1>2
<1>6. DOMAIN calls = 1 .. Len(calls) /\ Len(calls) \in Nat /\ i \in 1 .. MaxCalls
  BY <1>1, LoopAssumption
<1>7. CallsInv'
  BY <1>2, <1>4 DEF CallsInv, Busy, Over
<1>8. PhaseInv'
  <2>1. UNCHANGED <<pc, step, batch, suppressedNext, next>>
    BY DEF loop, dispatching
  <2>2. pc \in {"form", "wait"} /\ at \notin {"open", "closed"} /\ calls[i].at \notin {"open", "closed"}
    <3>1. pc \notin {"form", "wait"} => ~InBatchNow(i) /\ i # suppressedNext
      BY <1>6 DEF PhaseInv, InBatchNow
    <3>2. calls[i].at \notin {"open", "closed"} \cup Over
      BY DEF Busy
    <3>3. QED
      BY <1>6, <3>1, <3>2 DEF PhaseInv
  <2>3. \A j \in DOMAIN calls : InBatchNow(j)' <=> InBatchNow(j)
    BY <2>1 DEF InBatchNow
  <2>4. QED
    BY <1>2, <1>4, <1>6, <2>1, <2>2, <2>3 DEF PhaseInv
<1>9. GuardInv'
  BY GuardIsLeft DEF loop, dispatching
<1>10. QED
  BY <1>2, <1>4, <1>5, <1>6, <1>7, <1>8, <1>9 DEF loop, dispatching

\* A step of a tool call, and an answer of the user, keeps the invariant.
LEMMA ToolStepKeeps ==
  ASSUME LoopInv, NEW i \in 1 .. MaxCalls, ToolStep(i) \/ ResolveInput(i)
  PROVE  LoopInv'
<1>1. PICK at \in (Busy \cup Over) \ {"open", "closed"} :
        /\ i \in DOMAIN calls /\ calls[i].at \in Busy /\ To(i, at)
        /\ \/ RequestApproval(i) /\ at = "waiting"
           \/ /\ UNCHANGED gates /\ at \notin {"open", "called", "waiting"}
              /\ at = "announced" => calls[i].at = "called"
              /\ at = "allowed" => calls[i].call \notin Gated
  <2> USE DEF Busy, Place, Over, Underway
  <2>1. CASE Prepare(i)
    BY <2>1 DEF Prepare
  <2>2. CASE Start(i)
    BY <2>2 DEF Start
  <2>3. CASE RequestApproval(i)
    BY <2>3 DEF RequestApproval
  <2>4. CASE RequestInput(i)
    BY <2>4 DEF RequestInput
  <2>5. CASE \E at \in {"ok", "failed", "rejected"} : Return(i, at)
    BY <2>5 DEF Return
  <2>6. CASE ResolveInput(i)
    BY <2>6 DEF ResolveInput
  <2>7. QED
    BY <2>1, <2>2, <2>3, <2>4, <2>5, <2>6 DEF ToolStep
<1>2. approvals' \in [1 .. MaxCalls -> {"none", "pending", "allow", "deny"}] /\
      decisions' \in [1 .. MaxCalls -> {"none", "allow", "deny"}]
  BY <1>1 DEF RequestApproval, gates, LoopInv, LoopTypeInv
<1>3. LoopTypeInv' /\ CallsInv' /\ PhaseInv' /\ GuardInv'
  BY <1>1, <1>2, CallGoesOn
<1>4. /\ DOMAIN calls' = DOMAIN calls
      /\ \A j \in DOMAIN calls : /\ calls'[j].call = calls[j].call
                                 /\ calls'[j].at = IF j = i THEN at ELSE calls[j].at
  BY <1>1, CallGoesOn
<1>5. GateInv'
  <2>1. CASE UNCHANGED gates /\ at \notin {"open", "called", "waiting"}
    <3>1. UNCHANGED <<approvals, decisions>>
      BY <2>1 DEF gates
    <3>2. \A j \in 1 .. MaxCalls \ {i} : j \in DOMAIN calls => calls'[j].at = calls[j].at
      BY <1>4
    <3>3. at \in {"announced", "allowed"} => at # "waiting"
      OBVIOUS
    <3>4. calls[i].at = "called" => approvals[i] = "none" /\ decisions[i] = "none"
      BY <1>1 DEF GateInv, LoopInv
    <3>5. at = "announced" => approvals'[i] = "none" /\ decisions'[i] = "none"
      BY <1>1, <2>1, <3>1, <3>4 DEF RequestApproval
    <3>6. at = "allowed" => calls[i].call \notin Gated
      BY <1>1, <2>1
    <3>7. QED
      BY <1>1, <1>4, <2>1, <3>1, <3>2, <3>5, <3>6 DEF GateInv, LoopInv
  <2>2. CASE RequestApproval(i)
    BY ZenonT(60), <1>4, <2>2, <1>1 DEF RequestApproval, GateInv, LoopInv, LoopTypeInv, Over
  <2>3. QED
    BY <1>1, <2>1, <2>2
<1>6. QED
  BY <1>3, <1>5 DEF LoopInv

\* A set of numbers has a least one.
LEMMA LeastMember ==
  ASSUME NEW T, T \subseteq Nat, T # {}
  PROVE  \E x \in T : \A y \in T : x <= y
<1>1. PICK x \in T : \A y \in T : ~(<<y, x>> \in OpToRel(<, Nat))
  BY WFMin, NatLessThanWellFounded
<1>2. ASSUME NEW y \in T PROVE ~(y < x)
  <2>1. y \in Nat /\ x \in Nat
    OBVIOUS
  <2>2. QED
    BY <1>1, <2>1, Zenon DEF OpToRel
<1>3. QED
  BY <1>2

\* A window that is cut to its latest calls is no longer than it may be.
LEMMA LatestIsShort ==
  ASSUME NEW S, S \subseteq Nat, IsFiniteSet(S)
  PROVE  Cardinality(Latest(S)) <= Window /\ Cardinality(Latest(S)) \in Nat
<1>1. /\ Latest(S) \subseteq S /\ IsFiniteSet(Latest(S))
      /\ Cardinality(Latest(S)) \in Nat
  BY FS_Subset, FS_CardinalityType DEF Latest
<1>2. CASE Latest(S) = {}
  BY <1>1, <1>2, FS_EmptySet, LoopAssumption
<1>3. CASE Latest(S) # {}
  <2>1. PICK m \in Latest(S) : \A k \in Latest(S) : m <= k
    BY <1>1, <1>3, LeastMember
  <2>2. Latest(S) \subseteq {k \in S : k >= m}
    BY <1>1, <2>1
  <2>3. Cardinality({k \in S : k >= m}) <= Window
    BY DEF Latest
  <2>4. IsFiniteSet({k \in S : k >= m})
    BY FS_Subset
  <2>5. Cardinality(Latest(S)) <= Cardinality({k \in S : k >= m}) /\ Cardinality({k \in S : k >= m}) \in Nat
    BY <2>2, <2>4, FS_Subset, FS_CardinalityType
  <2>6. QED
    BY <1>1, <2>3, <2>5, LoopAssumption
<1>4. QED
  BY <1>2, <1>3

\* The calls a window counts from one on, before another.
CountedIn(j, i) == {k \in j .. i - 1 : inspected[k].admitted /\ inspected[k].call \notin Asking}

\* Since counts a finite set.
LEMMA SinceIs ==
  ASSUME NEW j \in Nat, NEW i \in Nat
  PROVE  Since(j, i) = Cardinality(CountedIn(j, i)) /\ IsFiniteSet(CountedIn(j, i)) /\ Since(j, i) \in Nat
<1>1. IsFiniteSet(j .. i - 1)
  BY FS_Interval
<1>2. IsFiniteSet(CountedIn(j, i))
  BY <1>1, FS_Subset DEF CountedIn
<1>3. Since(j, i) = Cardinality(CountedIn(j, i))
  BY DEF Since, CountedIn
<1>4. QED
  BY <1>2, <1>3, FS_CardinalityType

\* The guard looks at one more call.
LEMMA GuardLooks ==
  ASSUME LoopInv, NEW c \in Call \cup {Plan}, Inspect(c), runner' = runner
  PROVE  GuardInv' /\ inspected' \in Seq(Inspection)
<1>0. PICK n : n = Len(inspected)
  OBVIOUS
<1> DEFINE i == n + 1
           Mine == {j \in Cleared(c) : inspected[j].call = c}
<1>1. /\ inspected \in Seq(Inspection) /\ n \in Nat /\ Len(inspected) = n /\ DOMAIN inspected = 1 .. n
      /\ runner \in {"classic", "evented"} /\ GuardInv
  BY <1>0, LenProperties DEF LoopInv, LoopTypeInv
<1>2. /\ inspected' \in Seq(Inspection) /\ Len(inspected') = i /\ DOMAIN inspected' = 1 .. i
      /\ inspected'[i] = [call |-> c, admitted |-> ~Suppressed(c)]
      /\ \A j \in 1 .. n : inspected'[j] = inspected[j]
  <2>1. [call |-> c, admitted |-> ~Suppressed(c)] \in Inspection
    BY DEF Inspection
  <2>2. inspected' = Append(inspected, [call |-> c, admitted |-> ~Suppressed(c)])
    BY DEF Inspect
  <2>3. QED
    BY <1>1, <2>1, <2>2
<1>2a. inspected'[i].call = c /\ (inspected'[i].admitted <=> ~Suppressed(c))
  <2>1. CASE Suppressed(c)
    <3>1. inspected'[i] = [call |-> c, admitted |-> FALSE]
      BY <1>2, <2>1
    <3>2. QED
      BY <2>1, <3>1
  <2>2. CASE ~Suppressed(c)
    <3>1. inspected'[i] = [call |-> c, admitted |-> TRUE]
      BY <1>2, <2>2
    <3>2. QED
      BY <2>2, <3>1
  <2>3. QED
    BY <2>1, <2>2
<1>3. recent \subseteq 1 .. n /\ Cleared(c) \subseteq recent /\ IsFiniteSet(recent) /\ IsFiniteSet(Cleared(c))
  <2>1. recent \subseteq 1 .. n /\ Cleared(c) \subseteq recent
    BY <1>1 DEF GuardInv, WindowInv, Cleared
  <2>2. IsFiniteSet(1 .. n)
    BY <1>1, FS_Interval
  <2>3. QED
    BY <2>1, <2>2, FS_Subset
<1>3a. Cleared(c) \subseteq 1 .. n /\ 1 .. n \subseteq 1 .. i /\ i \in 1 .. i /\ i >= i
  <2>1. Cleared(c) \subseteq 1 .. n
    BY <1>3
  <2>2. 1 .. n \subseteq 1 .. i /\ i \in 1 .. i /\ i >= i
    BY <1>1
  <2>3. QED
    BY <2>1, <2>2
<1>4. \A j \in 1 .. n, k \in 1 .. i : CountedIn(j, k)' = CountedIn(j, k) /\ Since(j, k)' = Since(j, k)
  <2>1. ASSUME NEW j \in 1 .. n, NEW k \in 1 .. i
        PROVE  CountedIn(j, k)' = CountedIn(j, k) /\ Since(j, k)' = Since(j, k)
    <3>1. \A m \in j .. k - 1 : inspected'[m] = inspected[m]
      BY <1>1, <1>2
    <3>2. QED
      BY <3>1 DEF CountedIn, Since
  <2>2. QED
    BY <2>1
<1>5. ASSUME runner = "classic"
      PROVE  /\ recent \subseteq Fresh
             /\ \A j \in Fresh : Since(j, i) <= Window => j \in recent
  BY <1>1, <1>5 DEF GuardInv, WindowInv
<1>6. c \in Asking => c \notin Mutating
  BY LoopAssumption
<1>7. Counted' = IF c \notin Asking /\ ~Suppressed(c) THEN Counted \cup {i} ELSE Counted
  <2>1. /\ i \in DOMAIN inspected' /\ inspected'[i].call = c
        /\ inspected'[i].admitted <=> ~Suppressed(c)
    BY <1>1, <1>2, <1>2a
  <2>2. \A j \in 1 .. n : j \in Counted' <=> j \in Counted
    BY <1>1, <1>2 DEF Counted
  <2>3. i \in Counted' <=> c \notin Asking /\ ~Suppressed(c)
    BY <2>1 DEF Counted
  <2>4. Counted' \subseteq 1 .. i /\ Counted \subseteq 1 .. n /\ 1 .. i = 1 .. n \cup {i} /\ i \notin 1 .. n
    BY <1>1, <1>2 DEF Counted
  <2>5. CASE c \notin Asking /\ ~Suppressed(c)
    <3>1. i \in Counted'
      BY <2>3, <2>5
    <3>2. Counted' = Counted \cup {i}
      BY <2>2, <2>4, <3>1
    <3>3. QED
      BY <2>5, <3>2
  <2>6. CASE ~(c \notin Asking /\ ~Suppressed(c))
    <3>1. i \notin Counted'
      BY <2>3, <2>6
    <3>2. Counted' = Counted
      BY <2>2, <2>4, <3>1
    <3>3. QED
      BY <2>6, <3>2
  <2>7. QED
    BY <2>5, <2>6
<1>8. Fresh' = {j \in Fresh : c \in Mutating => inspected[j].call \in Mutating} \cup (Counted' \ Counted)
  <2>1. Counted \subseteq 1 .. n /\ i \notin 1 .. n
    BY <1>1 DEF Counted
  <2>2. ASSUME NEW j \in Counted
        PROVE  j \in Fresh' <=> j \in Fresh /\ (c \in Mutating => inspected[j].call \in Mutating)
    <3>1. j \in 1 .. n /\ j \in Counted' /\ inspected'[j] = inspected[j]
      BY <1>2, <1>7, <2>1, <2>2
    <3>2. (\A k \in j .. i : inspected'[k].call \notin Mutating) <=>
            c \notin Mutating /\ \A k \in j .. n : inspected[k].call \notin Mutating
      BY <1>1, <1>2, <3>1
    <3>3. QED
      BY <1>1, <1>2, <2>2, <3>1, <3>2 DEF Fresh
  <2>3. i \in Counted' => i \in Fresh'
    BY <1>1, <1>2, <2>1 DEF Fresh
  <2>4. QED
    BY <1>7, <2>1, <2>2, <2>3 DEF Fresh
<1>9. ASSUME runner = "classic", c \notin Asking
      PROVE  /\ Mine \subseteq SameBefore(i)'
             /\ {j \in SameBefore(i)' : Since(j, i)' <= Window} \subseteq Mine
             /\ IsFiniteSet(SameBefore(i)') /\ IsFiniteSet(Mine)
  <2>1. SameBefore(i)' = {j \in 1 .. n : /\ inspected[j].call = c /\ inspected[j].admitted
                                         /\ c \in Mutating \/ \A k \in j .. n : inspected[k].call \notin Mutating}
    <3>1. SameBefore(i)' = {j \in 1 .. n : /\ inspected[j].call = c /\ inspected[j].admitted
                                           /\ c \in Mutating \/ \A k \in j .. i : inspected'[k].call \notin Mutating}
      BY <1>1, <1>2 DEF SameBefore
    <3>2. ASSUME NEW j \in 1 .. n, c \notin Mutating
          PROVE  (\A k \in j .. i : inspected'[k].call \notin Mutating) <=>
                   \A k \in j .. n : inspected[k].call \notin Mutating
      BY <1>1, <1>2, <3>2
    <3>3. QED
      BY <3>1, <3>2
  <2>2. Mine \subseteq SameBefore(i)'
    <3>1. \A j \in recent : j \in 1 .. n /\ j \in Fresh
      BY <1>3, <1>5, <1>9
    <3>2. \A j \in Fresh : /\ inspected[j].admitted
                           /\ inspected[j].call \in Mutating \/ \A k \in j .. n : inspected[k].call \notin Mutating
      BY <1>1 DEF Fresh, Counted
    <3>3. \A j \in Mine : j \in recent /\ inspected[j].call = c
      BY <1>3
    <3>4. ASSUME NEW j \in Mine PROVE j \in SameBefore(i)'
      <4>1. j \in recent /\ inspected[j].call = c
        BY <3>3
      <4>2. /\ j \in 1 .. n /\ inspected[j].admitted
            /\ inspected[j].call \in Mutating \/ \A k \in j .. n : inspected[k].call \notin Mutating
        <5>1. j \in 1 .. n /\ j \in Fresh
          BY <3>1, <4>1
        <5>2. QED
          BY <3>2, <5>1
      <4>3. QED
        BY <2>1, <4>1, <4>2
    <3>5. QED
      BY <3>4
  <2>3. \A j \in SameBefore(i)' : Since(j, i)' <= Window => j \in Mine
    <3>1. SUFFICES ASSUME NEW j \in SameBefore(i)', Since(j, i)' <= Window
                   PROVE  j \in Mine
      OBVIOUS
    <3>2. j \in Fresh
      BY <1>1, <1>9, <2>1 DEF Fresh, Counted
    <3>3. Since(j, i) <= Window
      BY <1>1, <1>4, <2>1, <3>1
    <3>4. QED
      BY <1>5, <1>9, <2>1, <3>2, <3>3 DEF Cleared
  <2>4. IsFiniteSet(1 .. n)
    BY <1>1, FS_Interval
  <2>5. IsFiniteSet(SameBefore(i)') /\ IsFiniteSet(Mine)
    BY <1>3, <2>1, <2>4, FS_Subset
  <2>6. QED
    BY <2>2, <2>3, <2>5
<1>10. StormsAreBounded'
  <2>1. SUFFICES ASSUME runner' = "classic", NEW l \in 1 .. i, inspected'[l].call \notin Asking
                 PROVE  IF inspected'[l].admitted
                          THEN Cardinality({j \in SameBefore(l)' : Since(j, l)' <= Window}) < Threshold - 1
                          ELSE Cardinality(SameBefore(l)') >= Threshold - 1
    BY <1>2 DEF StormsAreBounded
  <2>2. CASE l \in 1 .. n
    <3>1. SameBefore(l)' = SameBefore(l) /\ SameBefore(l) \subseteq 1 .. n
      <4>1. \A k \in 1 .. l : inspected'[k] = inspected[k]
        BY <1>1, <1>2, <2>2
      <4>2. QED
        BY <1>1, <2>2, <4>1 DEF SameBefore
    <3>2. {j \in SameBefore(l)' : Since(j, l)' <= Window} = {j \in SameBefore(l) : Since(j, l) <= Window}
      BY <1>1, <1>4, <2>2, <3>1
    <3>3. QED
      BY <1>1, <1>2, <2>1, <2>2, <3>1, <3>2 DEF GuardInv, StormsAreBounded
  <2>3. CASE l = i
    <3>1. c \notin Asking /\ runner = "classic" /\ (inspected'[i].admitted <=> ~Suppress(c))
      <4>1. inspected'[i].call = c /\ (inspected'[i].admitted <=> ~Suppressed(c))
        BY <1>2a
      <4>2. QED
        BY <2>1, <2>3, <4>1 DEF Suppressed
    <3>2. Suppress(c) <=> Cardinality(Mine) >= Threshold - 1
      BY <3>1 DEF Suppress, Seen
    <3>3. /\ Cardinality(Mine) \in Nat /\ Cardinality(Mine) <= Cardinality(SameBefore(i)')
          /\ Cardinality(SameBefore(i)') \in Nat
          /\ Cardinality({j \in SameBefore(i)' : Since(j, i)' <= Window}) <= Cardinality(Mine)
          /\ Cardinality({j \in SameBefore(i)' : Since(j, i)' <= Window}) \in Nat
      <4> HIDE DEF Mine
      <4>1. {j \in SameBefore(i)' : Since(j, i)' <= Window} \subseteq Mine /\ Mine \subseteq SameBefore(i)'
            /\ IsFiniteSet(SameBefore(i)') /\ IsFiniteSet(Mine)
        BY <1>9, <3>1
      <4>2. QED
        BY <4>1, FS_Subset, FS_CardinalityType
    <3>4. QED
      BY <2>3, <3>1, <3>2, <3>3, LoopAssumption
  <2>4. QED
    BY <1>1, <2>2, <2>3
<1>11. WindowInv'
  <2>0. /\ \A j : Since(j, Len(inspected) + 1)' = Since(j, i + 1)'
        /\ \A j \in 1 .. n : Since(j, i) <= Since(j, i + 1)'
        /\ \A j \in 1 .. i : /\ Since(j, i + 1)' = Cardinality(CountedIn(j, i + 1)')
                             /\ IsFiniteSet(CountedIn(j, i + 1)') /\ Since(j, i + 1)' \in Nat
        /\ \A j \in 1 .. n : Since(j, i) \in Nat
    <3>1. \A j : Since(j, Len(inspected) + 1)' = Since(j, i + 1)'
      BY <1>2 DEF Since
    <3>2. ASSUME NEW j \in 1 .. i
          PROVE  /\ Since(j, i + 1)' = Cardinality(CountedIn(j, i + 1)')
                 /\ IsFiniteSet(CountedIn(j, i + 1)') /\ Since(j, i + 1)' \in Nat
      <4>1. Since(j, i + 1)' = Cardinality(CountedIn(j, i + 1)')
        BY DEF Since, CountedIn
      <4>2. CountedIn(j, i + 1)' \subseteq j .. i /\ IsFiniteSet(j .. i)
        BY <1>1, FS_Interval DEF CountedIn
      <4>3. QED
        BY <4>1, <4>2, FS_Subset, FS_CardinalityType
    <3>3. ASSUME NEW j \in 1 .. n
          PROVE  Since(j, i) <= Since(j, i + 1)' /\ Since(j, i) \in Nat
      <4>1. i \in Nat /\ j \in Nat /\ j \in 1 .. i
        BY <1>1
      <4>2. Since(j, i) = Cardinality(CountedIn(j, i)) /\ Since(j, i) \in Nat
        BY <4>1, SinceIs
      <4>3. CountedIn(j, i) \subseteq CountedIn(j, i + 1)'
        BY <1>1, <1>2, <4>1 DEF CountedIn
      <4>4. QED
        BY <3>2, <4>1, <4>2, <4>3, FS_Subset
    <3>4. QED
      BY <3>1, <3>2, <3>3
  <2>1. CASE runner = "evented"
    <3>1. recent' = {} /\ recent = {}
      BY <1>1, <2>1 DEF Inspect, GuardInv, WindowInv
    <3>2. Cardinality({}) = 0
      BY FS_EmptySet
    <3>3. QED
      BY <2>1, <3>1, <3>2, LoopAssumption DEF WindowInv
  <2>2. CASE runner = "classic" /\ (c \in Asking \/ Suppress(c))
    <3>1. Counted' = Counted /\ Fresh' = {j \in Fresh : c \in Mutating => inspected[j].call \in Mutating}
      BY <1>7, <1>8, <2>2 DEF Suppressed
    <3>2. recent' = {j \in recent : c \in Mutating => inspected[j].call \in Mutating}
      BY <1>6, <2>2 DEF Inspect, Cleared
    <3>3. recent' \subseteq recent /\ Cardinality(recent) \in Nat /\ Cardinality(recent') \in Nat
          /\ Cardinality(recent') <= Cardinality(recent)
      BY <1>3, <3>2, FS_Subset, FS_CardinalityType
    <3>4. Cardinality(recent') <= Window
      BY <1>1, <3>3, LoopAssumption DEF GuardInv, WindowInv
    <3>5. runner' = "classic" /\ recent' \subseteq DOMAIN inspected'
      BY <1>2, <1>3, <1>3a, <2>2, <3>3
    <3>6. recent' \subseteq Fresh'
      BY <1>5, <2>2, <3>1, <3>2
    <3>7. ASSUME NEW j \in Fresh', Since(j, i + 1)' <= Window
          PROVE  j \in recent'
      <4>1. j \in Fresh /\ j \in 1 .. n /\ (c \in Mutating => inspected[j].call \in Mutating)
        BY <1>1, <3>1 DEF Fresh, Counted
      <4>2. Since(j, i) <= Window
        BY <1>1, <2>0, <3>7, <4>1, LoopAssumption
      <4>3. QED
        BY <1>5, <2>2, <3>2, <4>1, <4>2
    <3>8. QED
      BY <2>0, <3>4, <3>5, <3>6, <3>7 DEF WindowInv
  <2>3. CASE runner = "classic" /\ c \notin Asking /\ ~Suppress(c)
    <3> DEFINE S == Cleared(c) \cup {i}
    <3>1. Counted' = Counted \cup {i} /\ i \notin 1 .. n /\ Counted \subseteq 1 .. n
      BY <1>1, <1>7, <2>3 DEF Suppressed, Counted
    <3>2. Fresh' = {j \in Fresh : c \in Mutating => inspected[j].call \in Mutating} \cup {i}
      BY <1>8, <3>1
    <3>3. recent' = Latest(S)
      BY <1>1, <2>3 DEF Inspect
    <3>4. S \subseteq Fresh' /\ S \subseteq 1 .. i /\ IsFiniteSet(S)
      <4>1. S \subseteq Fresh' /\ S \subseteq 1 .. i
        <5>1. \A j \in Cleared(c) : j \in Fresh /\ (c \in Mutating => inspected[j].call \in Mutating)
          BY <1>5, <2>3 DEF Cleared
        <5>2. QED
          BY <1>3a, <3>2, <5>1
      <4>2. IsFiniteSet(1 .. i)
        BY <1>1, FS_Interval
      <4>3. QED
        BY <4>1, <4>2, FS_Subset
    <3>5. Cardinality(recent') <= Window
      BY <1>1, <3>3, <3>4, LatestIsShort
    <3>6. ASSUME NEW j \in Fresh', Since(j, i + 1)' <= Window
          PROVE  j \in recent'
      <4>1. CASE j \in 1 .. n
        <5>1. j \in Fresh /\ (c \in Mutating => inspected[j].call \in Mutating)
          BY <3>1, <3>2, <4>1
        <5>2. j \in S
          <6>1. Since(j, i) <= Window
            BY <1>1, <2>0, <3>6, <4>1, LoopAssumption
          <6>2. j \in recent
            BY <1>5, <2>3, <5>1, <6>1
          <6>3. QED
            BY <5>1, <6>2 DEF Cleared
        <5>3. {k \in S : k >= j} \subseteq CountedIn(j, i + 1)'
          BY <1>1, <1>2, <3>4, <4>1 DEF CountedIn, Fresh, Counted
        <5>4. Cardinality({k \in S : k >= j}) <= Window
          <6>1. j \in 1 .. i
            BY <1>1, <4>1
          <6>2. /\ Since(j, i + 1)' = Cardinality(CountedIn(j, i + 1)')
                /\ IsFiniteSet(CountedIn(j, i + 1)') /\ Since(j, i + 1)' \in Nat
            BY <2>0, <6>1
          <6>3. Cardinality({k \in S : k >= j}) \in Nat
            BY <5>3, <6>2, FS_Subset, FS_CardinalityType
          <6>4. Cardinality({k \in S : k >= j}) <= Since(j, i + 1)'
            BY <5>3, <6>2, FS_Subset
          <6>5. QED
            BY <3>6, <6>2, <6>3, <6>4, LoopAssumption
        <5>5. QED
          BY <3>3, <5>2, <5>4 DEF Latest
      <4>2. CASE j = i
        <5>1. {k \in S : k >= i} = {i}
          <6>1. \A k \in 1 .. n : ~(k >= i)
            BY <1>1
          <6>2. QED
            BY <1>3a, <6>1
        <5>2. Cardinality({i}) = 1
          BY FS_Singleton
        <5>3. QED
          BY <3>3, <4>2, <5>1, <5>2, LoopAssumption DEF Latest
      <4>3. QED
        BY <1>1, <3>4, <4>1, <4>2, <1>2 DEF Fresh, Counted
    <3>7. recent' \subseteq S
      BY <3>3 DEF Latest
    <3>8. QED
      BY <1>2, <2>0, <2>3, <3>4, <3>5, <3>6, <3>7 DEF WindowInv
  <2>4. QED
    BY <1>1, <2>1, <2>2, <2>3
<1>12. QED
  BY <1>2, <1>10, <1>11 DEF GuardInv

\* The calls of a reply, some of them changed.
LEMMA CallsAgain ==
  ASSUME NEW f, NEW s \in Seq(LoopCall), f = [i \in DOMAIN s |-> f[i]],
         \A i \in DOMAIN s : f[i] \in LoopCall
  PROVE  f \in Seq(LoopCall) /\ Len(f) = Len(s) /\ DOMAIN f = DOMAIN s
<1>1. PICK n \in Nat : n = Len(s) /\ DOMAIN s = 1 .. n
  BY LenProperties
<1>2. DOMAIN f = 1 .. n /\ f \in [1 .. n -> LoopCall]
  BY <1>1
<1>3. f \in Seq(LoopCall)
  BY <1>1, <1>2, SeqDef
<1>4. QED
  BY <1>1, <1>2, <1>3

\* decide keeps it, also when the decision is changed before the call goes on.
LEMMA DecisionKeeps ==
  ASSUME LoopInv, NEW i \in 1 .. MaxCalls, NEW d \in {"allow", "deny"}, Decision(i, d)
  PROVE  LoopInv'
<1>1. /\ approvals \in [1 .. MaxCalls -> {"none", "pending", "allow", "deny"}]
      /\ decisions \in [1 .. MaxCalls -> {"none", "allow", "deny"}]
      /\ i \in DOMAIN calls /\ approvals[i] \notin {"none", d}
      /\ approvals' = [approvals EXCEPT ![i] = d]
      /\ decisions' = [decisions EXCEPT ![i] = IF @ = "none" THEN d ELSE @]
  BY DEF LoopInv, LoopTypeInv, Decision
<1>2. /\ approvals' \in [1 .. MaxCalls -> {"none", "pending", "allow", "deny"}]
      /\ decisions' \in [1 .. MaxCalls -> {"none", "allow", "deny"}]
      /\ \A j \in 1 .. MaxCalls : j # i => approvals'[j] = approvals[j] /\ decisions'[j] = decisions[j]
      /\ decisions'[i] = IF decisions[i] = "none" THEN d ELSE decisions[i]
  BY <1>1
<1>3. CASE calls[i].at = "waiting"
  <2> DEFINE at == IF d = "allow" THEN "allowed" ELSE "denied"
  <2>1. To(i, at) /\ at \in Busy \cup Over /\ at \notin {"open", "closed"} /\ calls[i].at \in Busy
    BY <1>3 DEF Decision, Busy, Place, Over
  <2>2. /\ LoopTypeInv' /\ CallsInv' /\ PhaseInv' /\ GuardInv'
        /\ DOMAIN calls' = DOMAIN calls
        /\ \A j \in DOMAIN calls : calls'[j].call = calls[j].call
        /\ \A j \in DOMAIN calls : calls'[j].at = IF j = i THEN at ELSE calls[j].at
    BY <1>1, <1>2, <2>1, CallGoesOn
  <2>3. decisions[i] = "none" /\ decisions'[i] = d
    BY <1>1, <1>2, <1>3 DEF LoopInv, GateInv
  <2>4. GateInv'
    BY <1>1, <1>2, <2>2, <2>3 DEF LoopInv, GateInv
  <2>5. QED
    BY <2>2, <2>4 DEF LoopInv
<1>4. CASE calls[i].at # "waiting"
  <2>1. UNCHANGED <<loop, pc, calls, dispatching, inflight, abortSignal, outcome, failure>>
    BY <1>4 DEF Decision
  <2>2. LoopTypeInv'
    BY <1>2, <2>1 DEF LoopInv, LoopTypeInv, loop, dispatching
  <2>3. CallsInv'
    BY <2>1 DEF LoopInv, CallsInv
  <2>4. PhaseInv'
    BY <2>1 DEF LoopInv, PhaseInv, InBatchNow, loop, dispatching
  <2>5. GuardInv'
    BY <2>1, GuardIsLeft DEF loop, dispatching
  <2>6. GateInv'
    BY <1>1, <1>2, <1>4, <2>1 DEF LoopInv, GateInv
  <2>7. QED
    BY <2>2, <2>3, <2>4, <2>5, <2>6 DEF LoopInv
<1>5. QED
  BY <1>3, <1>4

\* interruptTurn keeps it.
LEMMA AbortKeeps ==
  ASSUME LoopInv, Abort
  PROVE  LoopInv'
<1> DEFINE asking == {i \in DOMAIN calls : calls[i].at = "asking"}
<1>1. /\ calls' = [i \in DOMAIN calls |->
                     IF i \in asking THEN [calls[i] EXCEPT !.at = "rejected"] ELSE calls[i]]
      /\ inflight' = inflight \ asking /\ abortSignal' = TRUE
      /\ UNCHANGED <<loop, pc, dispatching, gates, outcome, failure>>
  BY DEF Abort
<1>2. calls \in Seq(LoopCall) /\ \A i \in DOMAIN calls : calls[i] \in LoopCall
  BY DEF LoopInv, LoopTypeInv
<1>3. \A i \in DOMAIN calls :
        /\ calls'[i] \in LoopCall
        /\ calls'[i].call = calls[i].call /\ calls'[i].answer = calls[i].answer
        /\ calls'[i].at = IF calls[i].at = "asking" THEN "rejected" ELSE calls[i].at
  BY <1>1, <1>2 DEF LoopCall, Place, Over
<1>4. calls' \in Seq(LoopCall) /\ Len(calls') = Len(calls) /\ DOMAIN calls' = DOMAIN calls
  BY <1>1, <1>2, <1>3, CallsAgain
<1>5. LoopTypeInv'
  BY <1>1, <1>4 DEF LoopInv, LoopTypeInv, loop, dispatching, gates
<1>6. CallsInv'
  BY <1>1, <1>3, <1>4 DEF LoopInv, CallsInv, Busy, Place, Over
<1>7. PhaseInv'
  <2>1. \A i \in DOMAIN calls : (calls'[i].at = "open" <=> calls[i].at = "open")
                                /\ (calls'[i].at = "closed" <=> calls[i].at = "closed")
    BY <1>3
  <2>2. pc \in {"check", "build", "stream", "dispatch", "form", "wait", "ended"}
    BY DEF LoopInv, LoopTypeInv
  <2>3. pc # "ended"
    BY DEF Abort
  <2>4. UNCHANGED <<pc, step, batch, next, suppressedNext>>
    BY <1>1 DEF loop, dispatching
  <2>5. QED
    BY <1>4, <2>1, <2>3, <2>4 DEF LoopInv, PhaseInv, InBatchNow
<1>8. GateInv'
  BY <1>1, <1>3, <1>4 DEF LoopInv, GateInv, gates
<1>9. GuardInv'
  BY <1>1, GuardIsLeft DEF loop, dispatching
<1>10. QED
  BY <1>5, <1>6, <1>7, <1>8, <1>9 DEF LoopInv
-----------------------------------------------------------------------------
\* One call of the reply is changed.
LEMMA OneCallChanges ==
  ASSUME LoopInv, NEW i \in DOMAIN calls, NEW r \in LoopCall, calls' = [calls EXCEPT ![i] = r]
  PROVE  /\ calls' \in Seq(LoopCall) /\ Len(calls') = Len(calls) /\ DOMAIN calls' = DOMAIN calls
         /\ calls'[i] = r /\ \A j \in DOMAIN calls : j # i => calls'[j] = calls[j]
<1>1. calls \in Seq(LoopCall) /\ DOMAIN calls = 1 .. Len(calls) /\ Len(calls) \in Nat
  BY LenProperties DEF LoopInv, LoopTypeInv
<1>2. /\ calls' \in Seq(LoopCall) /\ Len(calls') = Len(calls)
      /\ \A j \in 1 .. Len(calls) : calls'[j] = IF j = i THEN r ELSE calls[j]
  BY <1>1, ExceptSeq
<1>3. QED
  BY <1>1, <1>2

\* The batch takes its next call.
LEMMA WiderSeq ==
  ASSUME NEW m \in Nat, NEW s \in Seq(1 .. m)
  PROVE  s \in Seq(1 .. m + 1) /\ Append(s, m + 1) \in Seq(1 .. m + 1) /\ <<m + 1>> \in Seq(1 .. m + 1)
<1>1. 1 .. m \subseteq 1 .. m + 1 /\ m + 1 \in 1 .. m + 1
  OBVIOUS
<1>2. DOMAIN s = 1 .. Len(s) /\ Len(s) \in Nat /\ \A k \in 1 .. Len(s) : s[k] \in 1 .. m
  BY LenProperties
<1>3. s \in [1 .. Len(s) -> 1 .. m + 1]
  BY <1>1, <1>2
<1>4. s \in Seq(1 .. m + 1)
  BY <1>2, <1>3, SeqDef
<1>5. QED
  BY <1>1, <1>4

\* The steps that leave the calls alone keep it.
LEMMA CheckKeeps ==
  ASSUME LoopInv, Check \/ StreamAborted \/ Dispatched
  PROVE  LoopInv'
<1> USE DEF LoopInv
<1>1. UNCHANGED <<runner, calls, dispatching, inflight, gates, abortSignal>>
  BY DEF Check, StreamAborted, Dispatched, loop
<1>2. CallsInv' /\ GateInv' /\ GuardInv'
  <2>1. CallsInv'
    BY <1>1 DEF CallsInv
  <2>2. GateInv'
    BY <1>1 DEF GateInv, gates
  <2>3. GuardInv'
    BY <1>1, GuardIsLeft DEF dispatching
  <2>4. QED
    BY <2>1, <2>2, <2>3
<1>3. /\ pc' \in {"build", "ended", "check"} /\ outcome' \in {"none", "completed", "failed", "aborted"}
      /\ step' \in 0 .. MaxSteps /\ retries' \in 0 .. MaxRetries
      /\ pc' = "build" => step' < MaxSteps
  <2>1. CASE Check
    BY <2>1, LoopAssumption DEF Check, LoopTypeInv, LoopEnds, loop
  <2>2. CASE StreamAborted
    BY <2>2 DEF StreamAborted, LoopTypeInv, LoopEnds, loop
  <2>3. CASE Dispatched
    BY <2>3, LoopAssumption DEF Dispatched, Advance, LoopTypeInv, PhaseInv
  <2>4. QED
    BY <2>1, <2>2, <2>3
<1>4. LoopTypeInv'
  BY <1>1, <1>3 DEF LoopTypeInv, dispatching, gates
<1>5. PhaseInv'
  <2>1. \A i \in DOMAIN calls : i \in Nat /\ i <= Len(calls)
    BY DEF LoopTypeInv
  <2>2. batch = <<>> /\ suppressedNext = 0
    BY DEF Check, StreamAborted, Dispatched, PhaseInv
  <2>3. CASE Check
    BY <1>1, <1>3, <2>2, <2>3 DEF PhaseInv, Check, LoopEnds, dispatching
  <2>4. CASE StreamAborted
    BY <1>1, <1>3, <2>1, <2>2, <2>4 DEF PhaseInv, StreamAborted, LoopEnds, dispatching
  <2>5. CASE Dispatched
    <3>1. \A i \in DOMAIN calls : i < next /\ ~InBatchNow(i) /\ i # suppressedNext
      BY <2>1, <2>2, <2>5 DEF Dispatched, InBatchNow, LoopTypeInv
    <3>2. \A i \in DOMAIN calls : calls[i].at = "closed"
      BY <2>5, <3>1 DEF Dispatched, PhaseInv
    <3>3. QED
      BY <1>1, <1>3, <2>2, <2>5, <3>2 DEF Dispatched, PhaseInv, dispatching
  <2>6. QED
    BY <2>3, <2>4, <2>5
<1>6. QED
  BY <1>2, <1>4, <1>5

\* The next prompt starts from calls that are all closed.
LEMMA BuildKeeps ==
  ASSUME LoopInv, Build
  PROVE  LoopInv'
<1> USE DEF LoopInv
<1>1. /\ pc' \in {"stream", "ended"} /\ outcome' \in {"none", "completed", "failed", "aborted"}
      /\ calls' = <<>> /\ next' = 1 /\ approvals' = NoDecision /\ decisions' = NoDecision
      /\ UNCHANGED <<loop, batch, suppressedNext, recent, inspected, inflight, abortSignal>>
      /\ pc = "build"
  BY DEF Build, LoopEnds, LoopTypeInv
<1>2. batch = <<>> /\ suppressedNext = 0 /\ step < MaxSteps /\ inflight = {}
  BY <1>1 DEF PhaseInv, CallsInv, Busy
<1>3. calls' \in Seq(LoopCall) /\ Len(calls') = 0 /\ DOMAIN calls' = {} /\ batch' \in Seq(1 .. next' - 1)
  BY <1>1, <1>2
<1>4. /\ NoDecision \in [1 .. MaxCalls -> {"none", "pending", "allow", "deny"}]
      /\ NoDecision \in [1 .. MaxCalls -> {"none", "allow", "deny"}]
  BY DEF NoDecision
<1>5. LoopTypeInv'
  BY <1>1, <1>2, <1>3, <1>4, LoopAssumption DEF LoopTypeInv, loop
<1>6. CallsInv' /\ PhaseInv' /\ GateInv'
  <2>1. CallsInv'
    BY <1>1, <1>2, <1>3 DEF CallsInv
  <2>2. PhaseInv'
    BY <1>1, <1>2, <1>3 DEF PhaseInv, loop
  <2>3. GateInv'
    BY <1>1, <1>3 DEF GateInv, NoDecision
  <2>4. QED
    BY <2>1, <2>2, <2>3
<1>7. GuardInv'
  BY <1>1, GuardIsLeft DEF loop
<1>8. QED
  BY <1>5, <1>6, <1>7

\* A call that comes with the stream is open.
LEMMA StreamKeeps ==
  ASSUME LoopInv, NEW c \in Call, StreamCall(c)
  PROVE  LoopInv'
<1> USE DEF LoopInv
<1> DEFINE r == [call |-> c, at |-> "open", answer |-> "none"]
<1>1. /\ calls' = Append(calls, r) /\ r \in LoopCall /\ r.at = "open" /\ Len(calls) < MaxCalls
      /\ UNCHANGED <<loop, pc, dispatching, inflight, gates, abortSignal, outcome, failure>>
      /\ pc = "stream"
  BY DEF StreamCall, LoopCall, Place
<1>2. PICK n \in Nat : n = Len(calls) /\ DOMAIN calls = 1 .. n
  BY DEF LoopTypeInv
<1>3. /\ calls' \in Seq(LoopCall) /\ Len(calls') = n + 1 /\ DOMAIN calls' = 1 .. n + 1
      /\ calls'[n + 1] = r /\ \A i \in 1 .. n : calls'[i] = calls[i]
  BY <1>1, <1>2 DEF LoopTypeInv
<1>4. LoopTypeInv'
  <2>1. n + 1 <= MaxCalls /\ next \in 1 .. n + 2
    BY <1>1, <1>2, LoopAssumption DEF LoopTypeInv
  <2>2. QED
    BY <1>1, <1>3, <2>1 DEF LoopTypeInv, loop, dispatching, gates
<1>5. CallsInv'
  BY <1>1, <1>2, <1>3 DEF CallsInv, Busy
<1>6. PhaseInv'
  <2>1. next = 1 /\ suppressedNext = 0 /\ batch = <<>> /\ step < MaxSteps
    BY <1>1 DEF PhaseInv
  <2>2. \A i \in 1 .. n + 1 : calls'[i].at = "open"
    BY <1>1, <1>2, <1>3, <2>1 DEF PhaseInv
  <2>3. QED
    BY <1>1, <1>3, <2>1, <2>2 DEF PhaseInv, loop, dispatching
<1>7. GateInv'
  BY <1>1, <1>2, <1>3 DEF GateInv, gates
<1>8. GuardInv'
  BY <1>1, GuardIsLeft DEF loop, dispatching
<1>9. QED
  BY <1>4, <1>5, <1>6, <1>7, <1>8

\* The decision keeps it, whatever the reply.
LEMMA DecideKeeps ==
  ASSUME LoopInv, NEW reply \in Reply, Decide(reply)
  PROVE  LoopInv'
<1> USE DEF LoopInv
<1>1. /\ pc = "stream" /\ UNCHANGED <<runner, dispatching, inflight, gates, abortSignal>>
      /\ next = 1 /\ suppressedNext = 0 /\ batch = <<>> /\ step < MaxSteps
      /\ \A i \in DOMAIN calls : calls[i].at = "open"
  <2>1. pc = "stream" /\ UNCHANGED <<runner, dispatching, inflight, gates, abortSignal>>
    BY DEF Decide
  <2>2. next = 1 /\ suppressedNext = 0 /\ batch = <<>> /\ step < MaxSteps
    BY <2>1 DEF PhaseInv
  <2>3. \A i \in DOMAIN calls : i >= next
    BY <2>2 DEF LoopTypeInv
  <2>4. QED
    BY <2>1, <2>2, <2>3 DEF PhaseInv
<1>2. GuardInv'
  BY <1>1, GuardIsLeft DEF dispatching
<1>3. /\ step' \in 0 .. MaxSteps /\ retries' \in 0 .. MaxRetries
      /\ outcome' \in {"none", "completed", "failed", "aborted"}
  BY <1>1, LoopAssumption DEF Decide, LoopEnds, Advance, Retried, LoopTypeInv
<1>4. CASE reply = "plan" /\ calls = <<>> /\ calls' # calls
  <2> DEFINE r == [call |-> Plan, at |-> "open", answer |-> "none"]
  <2>1. calls' = <<r>> /\ pc' = "dispatch" /\ r.at = "open" /\ UNCHANGED step
    BY <1>4 DEF Decide
  <2>2. r \in LoopCall
    BY DEF LoopCall, Place
  <2>3. calls' \in Seq(LoopCall) /\ Len(calls') = 1 /\ DOMAIN calls' = {1} /\ calls'[1] = r
    BY <2>1, <2>2
  <2>4. LoopTypeInv'
    BY <1>1, <1>3, <2>1, <2>3, LoopAssumption DEF LoopTypeInv, dispatching, gates
  <2>5. CallsInv'
    BY <1>1, <1>4, <2>1, <2>3 DEF CallsInv, Busy
  <2>6. PhaseInv'
    BY <1>1, <2>1, <2>3 DEF PhaseInv, dispatching
  <2>7. GateInv'
    BY <1>1, <1>4, <2>1, <2>3 DEF GateInv, gates
  <2>8. QED
    BY <1>2, <2>4, <2>5, <2>6, <2>7
<1>5. CASE calls' = calls
  <2>1. \/ pc' = "ended"
        \/ pc' = "dispatch" /\ UNCHANGED step
        \/ pc' = "check" /\ calls = <<>>
    BY <1>5 DEF Decide, LoopEnds
  <2>2. LoopTypeInv'
    BY <1>1, <1>3, <1>5, <2>1 DEF LoopTypeInv, dispatching, gates
  <2>3. CallsInv' /\ GateInv'
    BY <1>1, <1>5 DEF CallsInv, GateInv, gates
  <2>4. PhaseInv'
    <3>1. CASE pc' = "ended"
      BY <1>1, <1>5, <3>1 DEF PhaseInv, dispatching
    <3>2. CASE pc' = "dispatch" /\ UNCHANGED step
      BY <1>1, <1>5, <3>2 DEF PhaseInv, dispatching, InBatchNow
    <3>3. CASE pc' = "check" /\ calls = <<>>
      BY <1>1, <1>5, <3>3 DEF PhaseInv, dispatching
    <3>4. QED
      BY <2>1, <3>1, <3>2, <3>3
  <2>5. QED
    BY <1>2, <2>2, <2>3, <2>4
<1>6. QED
  BY <1>4, <1>5 DEF Decide

\* The call to dispatch is answered at once when the guard suppresses it, or is under way.
LEMMA DispatchKeeps ==
  ASSUME LoopInv, Dispatch
  PROVE  LoopInv'
<1> USE DEF LoopInv
<1>1. /\ pc = "dispatch" /\ batch = <<>> /\ suppressedNext = 0 /\ step < MaxSteps
      /\ UNCHANGED <<loop, suppressedNext, gates, abortSignal>>
      /\ next \in DOMAIN calls /\ next \in Nat /\ calls[next] \in LoopCall
  BY LenProperties DEF Dispatch, PhaseInv, LoopTypeInv
<1>2. \A i \in DOMAIN calls : /\ i \in Nat /\ i <= Len(calls)
                              /\ calls[i].at = "open" <=> i >= next
                              /\ i < next => calls[i].at = "closed"
  <2>1. \A i \in DOMAIN calls : ~InBatchNow(i) /\ i # suppressedNext /\ i \in Nat /\ i <= Len(calls)
    BY <1>1 DEF InBatchNow, LoopTypeInv
  <2>2. QED
    BY <1>1, <2>1 DEF PhaseInv
<1>3. CASE abortSignal
  <2>1. pc' = "ended" /\ outcome' = "aborted" /\ UNCHANGED <<calls, dispatching, inflight>>
    BY <1>1, <1>3 DEF Dispatch, LoopEnds, dispatching
  <2>2. LoopTypeInv'
    BY <1>1, <2>1 DEF LoopTypeInv, loop, dispatching, gates
  <2>3. CallsInv' /\ GateInv'
    BY <1>1, <2>1 DEF CallsInv, GateInv, gates
  <2>4. PhaseInv'
    <3>1. \A i \in DOMAIN calls : calls[i].at \in {"open", "closed"}
      BY <1>1, <1>2
    <3>2. QED
      BY <1>1, <2>1, <3>1 DEF PhaseInv, loop, dispatching
  <2>5. QED
    BY <1>1, <2>1, <2>2, <2>3, <2>4, GuardIsLeft DEF loop, dispatching
<1>4. CASE ~abortSignal
  <2>0. PICK c \in Call \cup {Plan} : c = calls[next].call
    BY <1>1 DEF LoopCall
  <2>1. /\ Inspect(c) /\ next' = next + 1 /\ UNCHANGED outcome
        /\ \/ calls' = Answered(next, "suppressed") /\ UNCHANGED <<pc, batch, inflight>>
           \/ Called(next) /\ batch' = <<next>> /\ pc' \in {"form", "wait"}
    BY <1>4, <2>0 DEF Dispatch
  <2>2. GuardInv' /\ inspected' \in Seq(Inspection)
    BY <1>1, <2>1, GuardLooks DEF loop
  <2>3. CASE calls' = Answered(next, "suppressed") /\ UNCHANGED <<pc, batch, inflight>>
    <3> DEFINE r == [calls[next] EXCEPT !.at = "closed", !.answer = "suppressed"]
    <3>1. calls' = [calls EXCEPT ![next] = r]
      BY <2>3 DEF Answered
    <3>2. r \in LoopCall /\ r.at = "closed" /\ r.answer = "suppressed" /\ r.call = calls[next].call
      BY <1>1 DEF LoopCall, Place
    <3>3. /\ calls' \in Seq(LoopCall) /\ Len(calls') = Len(calls) /\ DOMAIN calls' = DOMAIN calls
          /\ calls'[next] = r /\ \A j \in DOMAIN calls : j # next => calls'[j] = calls[j]
      BY <1>1, <3>1, <3>2, OneCallChanges
    <3>a. \A j \in DOMAIN calls :
            /\ calls'[j].at = IF j = next THEN "closed" ELSE calls[j].at
            /\ calls'[j].answer = IF j = next THEN "suppressed" ELSE calls[j].answer
            /\ calls'[j].call = calls[j].call
      BY <3>2, <3>3
    <3> HIDE DEF r
    <3>4. LoopTypeInv'
      <4>1. next' \in 1 .. Len(calls') + 1 /\ batch' \in Seq(1 .. next' - 1) /\ Len(batch') <= ParallelLimit
        <5>1. next \in 1 .. Len(calls) /\ Len(calls) \in Nat
          BY <1>1 DEF LoopTypeInv
        <5>2. QED
          BY <1>1, <2>1, <2>3, <3>3, <5>1, LoopAssumption
      <4>2. QED
        BY <1>1, <2>1, <2>2, <2>3, <3>3, <4>1 DEF LoopTypeInv, loop, gates
    <3>5. CallsInv'
      BY <1>1, <1>2, <2>3, <3>3, <3>a DEF CallsInv, Busy
    <3>6. PhaseInv'
      <4>1. \A i \in DOMAIN calls : /\ calls'[i].at = "open" <=> i >= next'
                                    /\ i < next' => calls'[i].at = "closed"
        BY <1>1, <1>2, <2>1, <3>a
      <4>2. \A i \in DOMAIN calls : i # 0 /\ ~InBatchNow(i)'
        BY <1>1, <1>2, <2>3 DEF InBatchNow, LoopTypeInv
      <4>3. QED
        BY <1>1, <2>1, <2>3, <3>3, <4>1, <4>2 DEF PhaseInv, loop
    <3>7. GateInv'
      BY <1>1, <3>3, <3>a DEF GateInv, gates
    <3>8. QED
      BY <2>2, <3>4, <3>5, <3>6, <3>7
  <2>4. CASE Called(next) /\ batch' = <<next>> /\ pc' \in {"form", "wait"}
    <3> DEFINE r == [calls[next] EXCEPT !.at = "called"]
    <3>1. calls' = [calls EXCEPT ![next] = r] /\ inflight' = inflight \cup {next}
      BY <2>4 DEF Called
    <3>2. r \in LoopCall /\ r.at = "called" /\ r.answer = calls[next].answer /\ r.call = calls[next].call
      BY <1>1 DEF LoopCall, Place
    <3>3. /\ calls' \in Seq(LoopCall) /\ Len(calls') = Len(calls) /\ DOMAIN calls' = DOMAIN calls
          /\ calls'[next] = r /\ \A j \in DOMAIN calls : j # next => calls'[j] = calls[j]
      BY <1>1, <3>1, <3>2, OneCallChanges
    <3>a. \A j \in DOMAIN calls :
            /\ calls'[j].at = IF j = next THEN "called" ELSE calls[j].at
            /\ calls'[j].answer = calls[j].answer /\ calls'[j].call = calls[j].call
      BY <3>2, <3>3
    <3> HIDE DEF r
    <3>4. LoopTypeInv'
      <4>1. next' \in 1 .. Len(calls') + 1 /\ batch' \in Seq(1 .. next' - 1) /\ Len(batch') <= ParallelLimit
        <5>1. next \in 1 .. Len(calls) /\ Len(calls) \in Nat
          BY <1>1 DEF LoopTypeInv
        <5>2. QED
          BY <1>1, <2>1, <2>4, <3>3, <5>1, LoopAssumption
      <4>2. QED
        BY <1>1, <2>1, <2>2, <2>4, <3>3, <4>1 DEF LoopTypeInv, loop, gates
    <3>5. CallsInv'
      BY <1>1, <1>2, <3>1, <3>3, <3>a DEF CallsInv, Busy, Place, Over
    <3>6. PhaseInv'
      <4>1. \A i \in DOMAIN calls : /\ calls'[i].at = "open" <=> i >= next'
                                    /\ i < next' /\ i # next => calls'[i].at = "closed"
        BY <1>1, <1>2, <2>1, <3>a
      <4>2. /\ \A i \in DOMAIN calls : i = next => InBatchNow(i)'
            /\ \A i \in DOMAIN calls : i # 0
        BY <1>1, <1>2, <2>4 DEF InBatchNow, LoopTypeInv
      <4>3. QED
        BY <1>1, <2>1, <2>4, <3>3, <4>1, <4>2 DEF PhaseInv, loop
    <3>7. GateInv'
      BY <1>1, <1>2, <3>3, <3>a DEF GateInv, gates
    <3>8. QED
      BY <2>2, <3>4, <3>5, <3>6, <3>7
  <2>5. QED
    BY <2>1, <2>3, <2>4
<1>5. QED
  BY <1>3, <1>4

\* A batch of reads grows, or ends, with the call the guard suppressed behind it.
LEMMA GrowKeeps ==
  ASSUME LoopInv, Grow
  PROVE  LoopInv'
<1> USE DEF LoopInv
<1>1. /\ pc = "form" /\ suppressedNext = 0 /\ step < MaxSteps /\ next \in Nat \ {0}
      /\ UNCHANGED <<loop, gates, abortSignal, outcome, failure>>
      /\ \A i \in DOMAIN calls : i \in Nat \ {0} /\ i <= Len(calls)
      /\ \A i \in DOMAIN calls : /\ calls[i].at = "open" <=> i >= next
                                 /\ i < next /\ ~InBatchNow(i) => calls[i].at = "closed"
  <2>1. pc = "form" /\ suppressedNext = 0 /\ step < MaxSteps
        /\ UNCHANGED <<loop, gates, abortSignal, outcome, failure>>
    BY DEF Grow, PhaseInv
  <2>2. \A i \in DOMAIN calls : i \in Nat \ {0} /\ i <= Len(calls)
    BY DEF LoopTypeInv
  <2>3. next \in Nat \ {0}
    BY DEF LoopTypeInv
  <2>4. QED
    BY <2>1, <2>2, <2>3 DEF PhaseInv
<1>2. CASE ~CanGrow
  <2>1. pc' = "wait" /\ UNCHANGED <<calls, dispatching, inflight>>
    BY <1>2 DEF Grow
  <2>2. LoopTypeInv'
    BY <1>1, <2>1 DEF LoopTypeInv, loop, dispatching, gates
  <2>3. CallsInv' /\ GateInv'
    BY <1>1, <2>1 DEF CallsInv, GateInv, gates
  <2>4. PhaseInv'
    BY <1>1, <2>1 DEF PhaseInv, InBatchNow, loop, dispatching
  <2>5. QED
    BY <1>1, <2>1, <2>2, <2>3, <2>4, GuardIsLeft DEF loop, dispatching
<1>3. CASE CanGrow
  <2>1. next \in DOMAIN calls /\ calls[next] \in LoopCall /\ Len(batch) < ParallelLimit
        /\ next \in 1 .. Len(calls) /\ Len(calls) \in Nat
    <3>1. next <= Len(calls) /\ Len(batch) < ParallelLimit
      BY <1>3 DEF CanGrow, FormUnbounded
    <3>2. calls \in Seq(LoopCall) /\ Len(calls) \in Nat /\ DOMAIN calls = 1 .. Len(calls)
      BY LenProperties DEF LoopTypeInv
    <3>3. next \in 1 .. Len(calls)
      BY <1>1, <3>1, <3>2
    <3>4. QED
      BY <3>1, <3>2, <3>3
  <2>2. PICK c \in Call \cup {Plan} : c = calls[next].call
    BY <2>1 DEF LoopCall
  <2>3. /\ Inspect(c) /\ next' = next + 1
        /\ \/ suppressedNext' = next /\ pc' = "wait" /\ UNCHANGED <<calls, batch, inflight>>
           \/ Called(next) /\ batch' = Append(batch, next) /\ UNCHANGED <<suppressedNext, pc>>
    BY <1>3, <2>2 DEF Grow
  <2>4. GuardInv' /\ inspected' \in Seq(Inspection)
    BY <1>1, <2>3, GuardLooks DEF loop
  <2>5. /\ batch \in Seq(1 .. next' - 1) /\ Append(batch, next) \in Seq(1 .. next' - 1)
        /\ next' \in 1 .. Len(calls) + 1 /\ next' = next + 1
    <3>1. PICK m \in Nat : m = next - 1
      BY <1>1
    <3>2. batch \in Seq(1 .. m)
      BY <3>1 DEF LoopTypeInv
    <3>3. m + 1 = next /\ next' - 1 = next
      BY <1>1, <2>3, <3>1
    <3>4. batch \in Seq(1 .. m + 1) /\ Append(batch, m + 1) \in Seq(1 .. m + 1)
      BY <3>2, WiderSeq
    <3>5. next' \in 1 .. Len(calls) + 1 /\ next' = next + 1
      BY <2>1, <2>3
    <3>6. QED
      BY <3>3, <3>4, <3>5
  <2>6. CASE suppressedNext' = next /\ pc' = "wait" /\ UNCHANGED <<calls, batch, inflight>>
    <3>1. LoopTypeInv'
      BY <1>1, <2>4, <2>5, <2>6 DEF LoopTypeInv, loop, gates
    <3>2. CallsInv' /\ GateInv'
      BY <1>1, <2>6 DEF CallsInv, GateInv, gates
    <3>3. PhaseInv'
      <4>1. \A i \in DOMAIN calls : InBatchNow(i)' <=> InBatchNow(i)
        BY <2>6 DEF InBatchNow
      <4>2. \A i \in DOMAIN calls : i >= next <=> i >= next' \/ i = suppressedNext'
        BY <1>1, <2>3, <2>6
      <4>3. \A i \in DOMAIN calls : i < next' /\ i # suppressedNext' => i < next
        BY <1>1, <2>3, <2>6
      <4>4. suppressedNext' < next'
        BY <1>1, <2>3, <2>6
      <4>5. QED
        BY <1>1, <2>6, <4>1, <4>2, <4>3, <4>4 DEF PhaseInv, loop
    <3>4. QED
      BY <2>4, <3>1, <3>2, <3>3
  <2>7. CASE Called(next) /\ batch' = Append(batch, next) /\ UNCHANGED <<suppressedNext, pc>>
    <3> DEFINE r == [calls[next] EXCEPT !.at = "called"]
    <3>1. calls' = [calls EXCEPT ![next] = r] /\ inflight' = inflight \cup {next}
      BY <2>7 DEF Called
    <3>2. r \in LoopCall /\ r.at = "called" /\ r.answer = calls[next].answer /\ r.call = calls[next].call
      BY <2>1 DEF LoopCall, Place
    <3>3. /\ calls' \in Seq(LoopCall) /\ Len(calls') = Len(calls) /\ DOMAIN calls' = DOMAIN calls
          /\ calls'[next] = r /\ \A j \in DOMAIN calls : j # next => calls'[j] = calls[j]
      BY <2>1, <3>1, <3>2, OneCallChanges
    <3>4. \A j \in DOMAIN calls :
            /\ calls'[j].at = IF j = next THEN "called" ELSE calls[j].at
            /\ calls'[j].answer = calls[j].answer /\ calls'[j].call = calls[j].call
      BY <3>2, <3>3
    <3> HIDE DEF r
    <3>5. LoopTypeInv'
      <4>1. Len(batch') = Len(batch) + 1 /\ Len(batch) \in Nat
        BY <2>7, LenProperties DEF LoopTypeInv
      <4>2. Len(batch') <= ParallelLimit
        BY <2>1, <4>1, LoopAssumption
      <4>3. QED
        BY <1>1, <2>4, <2>5, <2>7, <3>3, <4>2 DEF LoopTypeInv, loop, gates
    <3>6. CallsInv'
      BY <1>1, <2>1, <3>1, <3>3, <3>4 DEF CallsInv, Busy, Place, Over
    <3>7. PhaseInv'
      <4>1. \A i \in DOMAIN calls : InBatchNow(i)' <=> InBatchNow(i) \/ i = next
        <5>1. /\ DOMAIN batch = 1 .. Len(batch) /\ Len(batch) \in Nat
              /\ DOMAIN batch' = 1 .. Len(batch) + 1 /\ batch'[Len(batch) + 1] = next
              /\ \A k \in 1 .. Len(batch) : batch'[k] = batch[k]
          BY <2>7 DEF LoopTypeInv
        <5>2. QED
          BY <5>1 DEF InBatchNow
      <4>2. \A i \in DOMAIN calls : /\ i < next' /\ i # next => i < next
                                    /\ i >= next' <=> i >= next /\ i # next
        BY <1>1, <2>3
      <4>3. \A i \in DOMAIN calls : calls'[i].at = "open" <=> i >= next'
        BY <1>1, <3>4, <4>2
      <4>4. \A i \in DOMAIN calls : i < next' /\ ~InBatchNow(i)' => calls'[i].at = "closed"
        BY <1>1, <3>4, <4>1, <4>2
      <4>5. QED
        BY <1>1, <2>3, <2>7, <3>3, <4>3, <4>4 DEF PhaseInv, loop
    <3>8. GateInv'
      BY <1>1, <2>1, <3>3, <3>4 DEF GateInv, gates
    <3>9. QED
      BY <2>4, <3>5, <3>6, <3>7, <3>8
  <2>8. QED
    BY <2>3, <2>6, <2>7
<1>4. QED
  BY <1>2, <1>3

\* The results that are kept are of calls of the batch: of all of them, when none was rejected.
LEMMA KeptAreOfTheBatch ==
  ASSUME LoopInv
  PROVE  /\ FirstRejected \in Nat
         /\ \A i \in DOMAIN calls : InBatch(i) => InBatchNow(i)
         /\ FirstRejected > Len(batch) => \A i \in DOMAIN calls : InBatchNow(i) => InBatch(i)
         /\ \A i \in DOMAIN calls : InBatch(i) => calls[i].at # "rejected"
<1> DEFINE bad == {k \in DOMAIN batch : calls[batch[k]].at = "rejected"}
<1>1. DOMAIN batch = 1 .. Len(batch) /\ Len(batch) \in Nat
  BY LenProperties DEF LoopInv, LoopTypeInv
<1>2. CASE bad = {}
  <2>1. FirstRejected = Len(batch) + 1
    BY <1>2 DEF FirstRejected
  <2>2. 1 .. FirstRejected - 1 = DOMAIN batch
    BY <1>1, <2>1
  <2>3. \A i \in DOMAIN calls : InBatch(i) => calls[i].at # "rejected"
    BY <1>2, <2>2 DEF InBatch
  <2>4. QED
    BY <1>1, <2>1, <2>2, <2>3 DEF InBatch, InBatchNow
<1>3. CASE bad # {}
  <2>1. bad \subseteq Nat
    BY <1>1
  <2>2. \E k \in bad : \A j \in bad : k <= j
    BY <1>3, <2>1, LeastMember
  <2>3. FirstRejected \in bad /\ \A j \in bad : FirstRejected <= j
    BY <1>3, <2>2 DEF FirstRejected
  <2>4. FirstRejected \in 1 .. Len(batch)
    BY <1>1, <2>3
  <2>5. 1 .. FirstRejected - 1 \subseteq DOMAIN batch
    BY <1>1, <2>4
  <2>6. \A k \in 1 .. FirstRejected - 1 : k \in DOMAIN batch /\ k \notin bad
    BY <1>1, <2>3, <2>4, <2>5
  <2>7. \A i \in DOMAIN calls : InBatch(i) => calls[i].at # "rejected"
    BY <2>6 DEF InBatch
  <2>8. QED
    BY <1>1, <2>4, <2>5, <2>7 DEF InBatch, InBatchNow
<1>4. QED
  BY <1>2, <1>3

\* The answers of a batch close its calls, unless one was rejected, which ends the turn.
LEMMA KeepKeeps ==
  ASSUME LoopInv, Keep
  PROVE  LoopInv'
<1> USE DEF LoopInv
<1>1. /\ pc = "wait" /\ Settled /\ calls' = [i \in DOMAIN calls |-> Answers(i)]
      /\ batch' = <<>> /\ suppressedNext' = 0
      /\ \/ FirstRejected <= Len(batch) /\ pc' = "ended" /\ outcome' = "failed"
         \/ FirstRejected > Len(batch) /\ pc' = "dispatch" /\ UNCHANGED outcome
      /\ UNCHANGED <<loop, next, recent, inspected, inflight, gates, abortSignal>>
      /\ Len(batch) \in Nat /\ next \in Nat \ {0} /\ step < MaxSteps
  <2>1. Len(batch) \in Nat /\ next \in Nat \ {0}
    BY LenProperties DEF LoopTypeInv
  <2>2. pc = "wait" => step < MaxSteps
    BY DEF PhaseInv
  <2>3. QED
    BY <2>1, <2>2, KeptAreOfTheBatch DEF Keep, LoopEnds
<1>2. /\ calls \in Seq(LoopCall) /\ \A i \in DOMAIN calls : calls[i] \in LoopCall
      /\ DOMAIN calls = 1 .. Len(calls) /\ Len(calls) \in Nat
  BY LenProperties DEF LoopTypeInv
<1>3. \A i \in DOMAIN calls : InBatchNow(i) => calls[i].at \in Over
  BY <1>1 DEF Settled, InBatchNow
<1>4. \A i \in DOMAIN calls :
        /\ calls[i].at = "open" <=> i >= next \/ i = suppressedNext
        /\ i < next /\ i # suppressedNext /\ ~InBatchNow(i) => calls[i].at = "closed"
  BY <1>1 DEF PhaseInv
<1>5. /\ \A i \in DOMAIN calls : InBatch(i) => InBatchNow(i)
      /\ FirstRejected > Len(batch) => \A i \in DOMAIN calls : InBatchNow(i) => InBatch(i)
  BY KeptAreOfTheBatch
<1>6. \A i \in DOMAIN calls :
        \/ /\ InBatchNow(i) /\ InBatch(i) /\ calls'[i] = [calls[i] EXCEPT !.at = "closed", !.answer = calls[i].at]
        \/ /\ i = suppressedNext /\ FirstRejected > Len(batch) /\ ~InBatch(i)
           /\ calls'[i] = [calls[i] EXCEPT !.at = "closed", !.answer = "suppressed"]
        \/ ~InBatch(i) /\ ~(i = suppressedNext /\ FirstRejected > Len(batch)) /\ calls'[i] = calls[i]
  BY <1>1, <1>5 DEF Answers
<1>7. \A i \in DOMAIN calls :
        /\ calls'[i] \in LoopCall /\ calls'[i].call = calls[i].call
        /\ \/ /\ calls'[i].at = "closed" /\ calls'[i].answer \in Over \cup {"suppressed"}
              /\ InBatch(i) \/ (i = suppressedNext /\ FirstRejected > Len(batch))
           \/ /\ ~InBatch(i) /\ ~(i = suppressedNext /\ FirstRejected > Len(batch))
              /\ calls'[i].at = calls[i].at /\ calls'[i].answer = calls[i].answer
  <2>1. SUFFICES ASSUME NEW i \in DOMAIN calls
                 PROVE  /\ calls'[i] \in LoopCall /\ calls'[i].call = calls[i].call
                        /\ \/ /\ calls'[i].at = "closed" /\ calls'[i].answer \in Over \cup {"suppressed"}
                              /\ InBatch(i) \/ (i = suppressedNext /\ FirstRejected > Len(batch))
                           \/ /\ ~InBatch(i) /\ ~(i = suppressedNext /\ FirstRejected > Len(batch))
                              /\ calls'[i].at = calls[i].at /\ calls'[i].answer = calls[i].answer
    OBVIOUS
  <2>2. CASE InBatchNow(i) /\ InBatch(i) /\ calls'[i] = [calls[i] EXCEPT !.at = "closed", !.answer = calls[i].at]
    BY <1>2, <1>3, <2>2 DEF LoopCall, Place, Over
  <2>3. CASE /\ i = suppressedNext /\ FirstRejected > Len(batch)
             /\ calls'[i] = [calls[i] EXCEPT !.at = "closed", !.answer = "suppressed"]
    BY <1>2, <2>3 DEF LoopCall, Place
  <2>4. CASE ~InBatch(i) /\ ~(i = suppressedNext /\ FirstRejected > Len(batch)) /\ calls'[i] = calls[i]
    BY <1>2, <2>4
  <2>5. QED
    BY <1>6, <2>2, <2>3, <2>4
<1>8. calls' \in Seq(LoopCall) /\ Len(calls') = Len(calls) /\ DOMAIN calls' = DOMAIN calls
  BY <1>1, <1>2, <1>7, CallsAgain
<1>9. \A i \in DOMAIN calls : calls[i].at \in {"open", "closed"} \cup Over /\ calls'[i].at \in {"open", "closed"} \cup Over
  BY <1>1, <1>2, <1>3, <1>4, <1>7
<1>10. LoopTypeInv'
  <2>1. batch' \in Seq(1 .. next' - 1) /\ Len(batch') = 0
    BY <1>1
  <2>2. QED
    BY <1>1, <1>8, <2>1, LoopAssumption DEF LoopTypeInv, loop, gates
<1>11. CallsInv'
  <2>1. \A i \in DOMAIN calls : calls[i].at \notin Busy /\ calls'[i].at \notin Busy
    BY <1>9 DEF Busy
  <2>2. inflight' = {} /\ inflight = {}
    BY <1>1, <2>1 DEF CallsInv
  <2>3. \A i \in DOMAIN calls : calls'[i].at = "closed" => calls'[i].answer # "none"
    BY <1>7 DEF CallsInv, Over
  <2>4. QED
    BY <1>8, <2>1, <2>2, <2>3 DEF CallsInv
<1>12. PhaseInv'
  <2>1. CASE FirstRejected <= Len(batch) /\ pc' = "ended"
    BY <1>1, <1>8, <1>9, <2>1 DEF PhaseInv, loop
  <2>2. CASE FirstRejected > Len(batch) /\ pc' = "dispatch"
    <3>1. \A i \in DOMAIN calls : i < next => calls'[i].at = "closed"
      BY <1>4, <1>5, <1>7, <2>2
    <3>2. \A i \in DOMAIN calls : i >= next => calls'[i].at = "open"
      <4>1. SUFFICES ASSUME NEW i \in DOMAIN calls, i >= next
                     PROVE  calls'[i].at = "open"
        OBVIOUS
      <4>2. calls[i].at = "open" /\ ~InBatch(i)
        BY <1>3, <1>4, <1>5, <4>1 DEF Over
      <4>3. i # suppressedNext
        <5>1. suppressedNext < next /\ suppressedNext \in Nat
          BY DEF PhaseInv, LoopTypeInv
        <5>2. QED
          BY <1>1, <1>2, <4>1, <5>1
      <4>4. QED
        BY <1>7, <4>2, <4>3
    <3>3. \A i \in DOMAIN calls : i # 0 /\ ((i < next) <=> ~(i >= next))
      BY <1>1, <1>2
    <3>4. QED
      BY <1>1, <1>8, <2>2, <3>1, <3>2, <3>3 DEF PhaseInv, loop
  <2>3. QED
    BY <1>1, <2>1, <2>2
<1>13. GateInv'
  <2>1. \A i \in DOMAIN calls : calls'[i].at \in {"open", "closed"} \cup Over
                               /\ (calls'[i].at = "open" => calls[i].at = "open")
    BY <1>7, <1>9
  <2>2. QED
    BY <1>1, <1>8, <2>1 DEF GateInv, gates, Over
<1>14. GuardInv'
  BY <1>1, GuardIsLeft DEF loop
<1>15. QED
  BY <1>10, <1>11, <1>12, <1>13, <1>14
-----------------------------------------------------------------------------
\* Every step of the loop, of its tools and of its user keeps the invariant.
LEMMA LoopInvHolds ==
  ASSUME LoopInv, [LoopNext]_loopVars
  PROVE  LoopInv'
<1>1. CASE LoopStep
  BY <1>1, CheckKeeps, BuildKeeps, StreamKeeps, DecideKeeps, DispatchKeeps, GrowKeeps, KeepKeeps DEF LoopStep
<1>2. CASE \E i \in 1 .. MaxCalls : ToolStep(i)
  BY <1>2, ToolStepKeeps
<1>3. CASE UserStep
  BY <1>3, ToolStepKeeps, DecisionKeeps, AbortKeeps DEF UserStep
<1>4. CASE UNCHANGED loopVars
  <2>1. LoopTypeInv' /\ CallsInv' /\ PhaseInv' /\ GateInv'
    BY <1>4 DEF LoopInv, LoopTypeInv, CallsInv, PhaseInv, GateInv, InBatchNow, loopVars
  <2>2. GuardInv'
    BY <1>4, GuardIsLeft DEF loopVars
  <2>3. QED
    BY <2>1, <2>2 DEF LoopInv
<1>5. QED
  BY <1>1, <1>2, <1>3, <1>4 DEF LoopNext

\* What a person has said to a call agrees with what became of it.
JudgedInv ==
  \A i \in DOMAIN calls :
    /\ approvals[i] # "none" /\ calls[i].at # "waiting" => decisions[i] # "none"
    /\ calls[i].at \in Busy \cup {"open", "ok", "failed"} => decisions[i] # "deny"
    /\ calls[i].at = "denied" => decisions[i] = "deny"
    /\ calls[i].at = "closed" =>
         /\ calls[i].answer \in {"ok", "failed", "suppressed", "denied"}
         /\ calls[i].answer = "denied" <=> decisions[i] = "deny"

\* How a call goes on when nobody decides on it.
Moves(j) ==
  \/ j \notin DOMAIN calls /\ calls'[j].at = "open"
  \/ /\ j \in DOMAIN calls
     /\ \/ calls'[j].at = calls[j].at /\ calls'[j].answer = calls[j].answer
        \/ calls[j].at = "open" /\ calls'[j].at = "closed" /\ calls'[j].answer = "suppressed"
        \/ /\ calls[j].at \in {"ok", "failed", "denied"}
           /\ calls'[j].at = "closed" /\ calls'[j].answer = calls[j].at
        \/ /\ calls[j].at \in (Busy \cup {"open"}) \ {"waiting"}
           /\ calls'[j].at \in (Busy \ {"waiting"}) \cup {"ok", "failed", "rejected"}

\* Such a step keeps the agreement.
LEMMA MovesAgree ==
  ASSUME LoopInv, JudgedInv, UNCHANGED gates, \A j \in DOMAIN calls' : j \in 1 .. MaxCalls /\ Moves(j)
  PROVE  JudgedInv'
<1>1. SUFFICES ASSUME NEW j \in DOMAIN calls'
               PROVE  /\ approvals[j] # "none" /\ calls'[j].at # "waiting" => decisions[j] # "none"
                      /\ calls'[j].at \in Busy \cup {"open", "ok", "failed"} => decisions[j] # "deny"
                      /\ calls'[j].at = "denied" => decisions[j] = "deny"
                      /\ calls'[j].at = "closed" =>
                           /\ calls'[j].answer \in {"ok", "failed", "suppressed", "denied"}
                           /\ calls'[j].answer = "denied" <=> decisions[j] = "deny"
  BY DEF JudgedInv, gates
<1>2. CASE j \notin DOMAIN calls
  BY <1>2 DEF Moves, LoopInv, GateInv
<1>3. CASE j \in DOMAIN calls
  <2>1. calls[j].at = "open" => approvals[j] = "none" /\ decisions[j] = "none"
    BY <1>3 DEF LoopInv, GateInv
  <2>2. Busy = {"called", "announced", "waiting", "allowed", "asking0", "running", "asking"}
    BY DEF Busy, Place, Over
  <2>3. QED
    BY <1>3, <2>1, <2>2 DEF Moves, JudgedInv
<1>4. QED
  BY <1>2, <1>3

\* The agreement holds at every step.
LEMMA JudgedHolds ==
  ASSUME LoopInv, LoopInv', JudgedInv, [LoopNext]_loopVars
  PROVE  JudgedInv'
<1> USE LoopAssumption
<1>0. /\ DOMAIN calls = 1 .. Len(calls) /\ Len(calls) \in Nat
      /\ \A i \in DOMAIN calls : calls[i] \in LoopCall
      /\ DOMAIN calls' \subseteq 1 .. MaxCalls
      /\ next \in Nat
  <2>1. calls \in Seq(LoopCall) /\ next \in 1 .. Len(calls) + 1
    BY DEF LoopInv, LoopTypeInv
  <2>2. calls' \in Seq(LoopCall) /\ Len(calls') <= MaxCalls
    BY DEF LoopInv, LoopTypeInv
  <2>3. DOMAIN calls' = 1 .. Len(calls') /\ Len(calls') \in Nat
    BY <2>2, LenProperties
  <2>4. DOMAIN calls' \subseteq 1 .. MaxCalls
    BY <2>2, <2>3
  <2>5. DOMAIN calls = 1 .. Len(calls) /\ Len(calls) \in Nat /\ \A i \in DOMAIN calls : calls[i] \in LoopCall
    BY <2>1, LenProperties
  <2>6. QED
    BY <2>1, <2>4, <2>5
<1>1. CASE UNCHANGED <<calls, gates>>
  BY <1>0, <1>1, MovesAgree DEF Moves
<1>2. CASE Build
  BY <1>2 DEF Build, JudgedInv
<1>3. ASSUME NEW c \in Call, StreamCall(c)
      PROVE  JudgedInv'
  <2> DEFINE r == [call |-> c, at |-> "open", answer |-> "none"]
  <2>1. calls' = Append(calls, r) /\ UNCHANGED gates
    BY <1>3 DEF StreamCall
  <2>2. DOMAIN calls' = 1 .. Len(calls) + 1
    BY <1>0, <2>1
  <2>3. \A j \in DOMAIN calls' : calls'[j] = IF j \in DOMAIN calls THEN calls[j] ELSE r
    BY <1>0, <2>1, <2>2
  <2>4. \A j \in DOMAIN calls' : Moves(j)
    BY <2>3 DEF Moves
  <2>5. QED
    BY <1>0, <2>1, <2>4, MovesAgree
<1>4. ASSUME NEW r \in Reply, Decide(r), ~UNCHANGED calls
      PROVE  JudgedInv'
  <2>1. calls = <<>> /\ calls' = <<[call |-> Plan, at |-> "open", answer |-> "none"]>> /\ UNCHANGED gates
    BY <1>4 DEF Decide
  <2>2. \A j \in DOMAIN calls' : Moves(j)
    BY <2>1 DEF Moves
  <2>3. QED
    BY <1>0, <2>1, <2>2, MovesAgree
<1>5. CASE Dispatch \/ Grow
  <2>1. UNCHANGED gates
    BY <1>5 DEF Dispatch, Grow
  <2>2. CASE UNCHANGED calls
    BY <1>1, <2>1, <2>2
  <2>3. CASE ~UNCHANGED calls
    <3>1. /\ next \in DOMAIN calls
          /\ \/ calls' = [calls EXCEPT ![next] = [calls[next] EXCEPT !.at = "closed", !.answer = "suppressed"]]
             \/ calls' = [calls EXCEPT ![next] = [calls[next] EXCEPT !.at = "called"]]
      <4>1. CASE Dispatch
        <5>1. pc = "dispatch" /\ next <= Len(calls)
          BY <4>1 DEF Dispatch
        <5>2. next \in DOMAIN calls
          BY <1>0, <5>1 DEF LoopInv, LoopTypeInv
        <5>3. QED
          BY <2>3, <4>1, <5>2 DEF Dispatch, Answered, Called
      <4>2. CASE Grow
        <5>1. next <= Len(calls)
          BY <2>3, <4>2 DEF Grow, CanGrow, FormUnbounded
        <5>2. next \in DOMAIN calls
          BY <1>0, <5>1 DEF LoopInv, LoopTypeInv
        <5>3. QED
          BY <2>3, <4>2, <5>2 DEF Grow, Called
      <4>3. QED
        BY <1>5, <4>1, <4>2
    <3>2. calls[next].at = "open"
      <4>1. pc \in {"dispatch", "form"}
        BY <1>5 DEF Dispatch, Grow
      <4>2. QED
        BY <1>0, <3>1, <4>1 DEF LoopInv, PhaseInv
    <3>3. \A j \in DOMAIN calls' : j \in DOMAIN calls /\ (j # next => calls'[j] = calls[j])
      BY <3>1
    <3>4. \/ calls'[next].at = "closed" /\ calls'[next].answer = "suppressed"
          \/ calls'[next].at = "called"
      <4>1. calls[next] \in LoopCall
        BY <1>0, <3>1
      <4>2. \/ calls'[next] = [calls[next] EXCEPT !.at = "closed", !.answer = "suppressed"]
            \/ calls'[next] = [calls[next] EXCEPT !.at = "called"]
        BY <3>1
      <4>3. QED
        BY <4>1, <4>2 DEF LoopCall
    <3>5. \A j \in DOMAIN calls' : Moves(j)
      BY <3>2, <3>3, <3>4 DEF Moves, Busy, Place, Over
    <3>6. QED
      BY <1>0, <2>1, <3>5, MovesAgree
  <2>4. QED
    BY <2>2, <2>3
<1>6. CASE Keep
  <2>1. pc = "wait" /\ Settled /\ calls' = [i \in DOMAIN calls |-> Answers(i)] /\ UNCHANGED gates
    BY <1>6 DEF Keep
  <2>2. ASSUME NEW j \in DOMAIN calls
        PROVE  Moves(j)
    <3>1. CASE InBatch(j)
      <4>1. calls[j].at # "rejected" /\ InBatchNow(j)
        BY <2>2, <3>1, KeptAreOfTheBatch
      <4>0. calls[j].at \in Over \ {"rejected"}
        BY <2>1, <4>1 DEF Settled, InBatchNow
      <4>2. calls'[j].at = "closed" /\ calls'[j].answer = calls[j].at
        BY <1>0, <2>1, <3>1 DEF Answers, LoopCall
      <4>3. QED
        BY <2>2, <4>0, <4>2 DEF Moves, Over
    <3>2. CASE ~InBatch(j) /\ j = suppressedNext /\ FirstRejected > Len(batch)
      <4>1. calls[j].at = "open"
        BY <2>1, <3>2 DEF LoopInv, PhaseInv
      <4>2. calls'[j].at = "closed" /\ calls'[j].answer = "suppressed"
        BY <1>0, <2>1, <3>2 DEF Answers, LoopCall
      <4>3. QED
        BY <4>1, <4>2 DEF Moves
    <3>3. CASE ~InBatch(j) /\ ~(j = suppressedNext /\ FirstRejected > Len(batch))
      BY <2>1, <3>3 DEF Answers, Moves
    <3>4. QED
      BY <3>1, <3>2, <3>3
  <2>3. DOMAIN calls' = DOMAIN calls
    BY <2>1
  <2>4. QED
    BY <1>0, <2>1, <2>2, <2>3, MovesAgree
<1>7. ASSUME NEW i \in 1 .. MaxCalls, ToolStep(i) \/ ResolveInput(i) \/ \E d \in {"allow", "deny"} : Decision(i, d)
      PROVE  JudgedInv'
  <2>0. Busy = {"called", "announced", "waiting", "allowed", "asking0", "running", "asking"}
    BY DEF Busy, Place, Over
  <2>1. ASSUME NEW at, To(i, at), i \in DOMAIN calls
        PROVE  /\ DOMAIN calls' = DOMAIN calls
               /\ \A j \in DOMAIN calls : j # i => calls'[j] = calls[j]
               /\ calls'[i].at = at /\ calls'[i].answer = calls[i].answer
    BY <1>0, <2>1 DEF To, LoopCall
  <2>2. ASSUME NEW at \in (Busy \ {"waiting"}) \cup {"ok", "failed", "rejected"}, To(i, at), i \in DOMAIN calls,
               calls[i].at \in Busy \ {"waiting"}, UNCHANGED gates
        PROVE  JudgedInv'
    <3>1. \A j \in DOMAIN calls' : Moves(j)
      BY <2>1, <2>2 DEF Moves
    <3>2. QED
      BY <1>0, <2>2, <3>1, MovesAgree
  <2>3. CASE Prepare(i) \/ Start(i) \/ RequestInput(i) \/ ResolveInput(i)
             \/ \E at \in {"ok", "failed", "rejected"} : Return(i, at)
    BY <2>0, <2>2, <2>3 DEF Prepare, Start, RequestInput, ResolveInput, Return, Underway
  <2>4. CASE RequestApproval(i)
    <3>1. i \in DOMAIN calls /\ calls[i].at = "announced" /\ To(i, "waiting") /\ decisions' = decisions
          /\ approvals' = [approvals EXCEPT ![i] = "pending"]
      BY <2>4 DEF RequestApproval, Underway
    <3>2. decisions[i] # "deny"
      BY <2>0, <3>1 DEF JudgedInv
    <3>3. \A j \in 1 .. MaxCalls : j # i => approvals'[j] = approvals[j]
      BY <3>1
    <3>4. QED
      BY <2>0, <2>1, <3>1, <3>2, <3>3, <1>0 DEF JudgedInv
  <2>5. ASSUME NEW d \in {"allow", "deny"}, Decision(i, d)
        PROVE  JudgedInv'
    <3>1. /\ approvals \in [1 .. MaxCalls -> {"none", "pending", "allow", "deny"}]
          /\ decisions \in [1 .. MaxCalls -> {"none", "allow", "deny"}]
          /\ i \in DOMAIN calls /\ approvals[i] \notin {"none", d}
          /\ approvals' = [approvals EXCEPT ![i] = d]
          /\ decisions' = [decisions EXCEPT ![i] = IF @ = "none" THEN d ELSE @]
      BY <2>5 DEF LoopInv, LoopTypeInv, Decision
    <3>2. /\ \A j \in 1 .. MaxCalls : j # i => approvals'[j] = approvals[j] /\ decisions'[j] = decisions[j]
          /\ decisions'[i] = IF decisions[i] = "none" THEN d ELSE decisions[i]
      BY <3>1
    <3>3. CASE calls[i].at = "waiting"
      <4>1. To(i, IF d = "allow" THEN "allowed" ELSE "denied")
        BY <2>5, <3>3 DEF Decision
      <4>2. decisions[i] = "none"
        BY <3>1, <3>3 DEF LoopInv, GateInv
      <4>3. calls'[i].at = (IF d = "allow" THEN "allowed" ELSE "denied") /\ decisions'[i] = d
        BY <2>1, <3>1, <3>2, <4>1, <4>2
      <4>4. /\ DOMAIN calls' = DOMAIN calls
            /\ \A j \in DOMAIN calls : j # i => calls'[j] = calls[j]
        BY <2>1, <3>1, <4>1
      <4>5. QED
        BY <1>0, <2>0, <3>2, <4>3, <4>4 DEF JudgedInv
    <3>4. CASE calls[i].at # "waiting"
      <4>1. calls' = calls /\ decisions[i] # "none"
        BY <2>5, <3>1, <3>4 DEF Decision, JudgedInv
      <4>2. decisions' = decisions
        BY <3>1, <4>1
      <4>3. QED
        BY <1>0, <3>2, <4>1, <4>2 DEF JudgedInv
    <3>5. QED
      BY <3>3, <3>4
  <2>6. QED
    BY <1>7, <2>3, <2>4, <2>5 DEF ToolStep
<1>8. CASE Abort
  <2>1. DOMAIN calls' = DOMAIN calls /\ UNCHANGED gates
        /\ \A j \in DOMAIN calls :
             calls'[j] = IF calls[j].at = "asking" THEN [calls[j] EXCEPT !.at = "rejected"] ELSE calls[j]
    BY <1>8 DEF Abort
  <2>2. \A j \in DOMAIN calls' : Moves(j)
    BY <1>0, <2>1 DEF Moves, LoopCall, Busy, Place, Over
  <2>3. QED
    BY <1>0, <2>1, <2>2, MovesAgree
<1>9. CASE Check \/ StreamAborted \/ Dispatched \/ UNCHANGED loopVars
  <2>1. UNCHANGED <<calls, gates>>
    BY <1>9 DEF Check, StreamAborted, Dispatched, loopVars, gates
  <2>2. QED
    BY <1>1, <2>1
<1>10. ASSUME NEW r \in Reply, Decide(r)
       PROVE  JudgedInv'
  <2>1. UNCHANGED gates
    BY <1>10 DEF Decide
  <2>2. QED
    BY <1>1, <1>4, <1>10, <2>1
<1>11. QED
  BY <1>2, <1>3, <1>5, <1>6, <1>7, <1>8, <1>9, <1>10 DEF LoopNext, LoopStep, UserStep

\* The invariant gives the property.
LEMMA LoopInvAnswers ==
  ASSUME LoopInv, JudgedInv
  PROVE  EveryCallIsAnswered
<1> USE DEF LoopInv
<1>1. /\ DOMAIN calls = 1 .. Len(calls) /\ Len(calls) \in Nat /\ \A i \in DOMAIN calls : calls[i] \in LoopCall
      /\ \A k \in DOMAIN batch : batch[k] \in 1 .. next - 1
      /\ next \in 1 .. Len(calls) + 1
  BY LenProperties DEF LoopTypeInv
<1>2. LoopTypeOK
  <2>1. \A i \in DOMAIN calls : calls[i].call \in Call \cup {Plan}
    BY <1>1 DEF LoopCall
  <2>2. \A k \in DOMAIN batch : batch[k] \in DOMAIN calls
    BY <1>1
  <2>3. ToSet(batch) \subseteq DOMAIN calls
    BY <2>2 DEF ToSet
  <2>4. inflight \subseteq DOMAIN calls
    BY DEF CallsInv
  <2>5. Cardinality(recent) <= Window
    BY DEF GuardInv, WindowInv
  <2>6. QED
    BY <2>1, <2>3, <2>4, <2>5 DEF LoopTypeOK, LoopTypeInv
<1>3. AnsweredBeforeNextStep
  <2>1. SUFFICES ASSUME pc \in {"check", "build"}, NEW i \in DOMAIN calls
                 PROVE  calls[i].at = "closed" /\ (i \in Told <=> decisions[i] # "deny")
    BY DEF AnsweredBeforeNextStep
  <2>2. calls[i].at = "closed"
    BY <2>1 DEF PhaseInv
  <2>3. QED
    BY <2>1, <2>2 DEF JudgedInv, Told
<1>4. NothingLeftBehind
  BY DEF NothingLeftBehind, PhaseInv, CallsInv, Busy
<1>5. QED
  BY <1>2, <1>3, <1>4 DEF EveryCallIsAnswered

\* A call comes to run by Start only.
LEMMA RunsOnlyByStart ==
  ASSUME LoopInv, [LoopNext]_loopVars, NEW i \in DOMAIN calls, i \in DOMAIN calls',
         calls[i].at # "running", calls'[i].at = "running"
  PROVE  i \in 1 .. MaxCalls /\ Start(i)
<1> USE DEF LoopInv
<1>1. /\ DOMAIN calls = 1 .. Len(calls) /\ Len(calls) \in Nat /\ \A j \in DOMAIN calls : calls[j] \in LoopCall
      /\ i \in 1 .. MaxCalls /\ calls \in Seq(LoopCall)
  <2>1. DOMAIN calls = 1 .. Len(calls) /\ Len(calls) \in Nat /\ Len(calls) <= MaxCalls
        /\ \A j \in DOMAIN calls : calls[j] \in LoopCall
    BY LenProperties DEF LoopTypeInv
  <2>2. i \in 1 .. MaxCalls
    BY <2>1, LoopAssumption
  <2>3. QED
    BY <2>1, <2>2 DEF LoopTypeInv
<1>2. calls' # calls
  OBVIOUS
<1>3. ASSUME NEW j \in DOMAIN calls, NEW at, calls' = [calls EXCEPT ![j].at = at], at # "running"
      PROVE  FALSE
  BY <1>1, <1>3 DEF LoopCall
<1>4. CASE LoopStep
  <2>1. CASE Check \/ StreamAborted \/ Dispatched
    BY <1>2, <2>1 DEF Check, StreamAborted, Dispatched
  <2>2. CASE Build
    BY <2>2 DEF Build
  <2>3. CASE \E c \in Call : StreamCall(c)
    BY <1>1, <2>3 DEF StreamCall
  <2>4. CASE \E r \in Reply : Decide(r)
    BY <1>1, <1>2, <2>4 DEF Decide
  <2>5. CASE Dispatch
    <3>1. next \in DOMAIN calls
      BY <1>1, <2>5 DEF Dispatch, LoopTypeInv
    <3>2. \/ calls' = Answered(next, "suppressed") \/ Called(next)
      BY <1>2, <2>5 DEF Dispatch
    <3>3. CASE calls' = Answered(next, "suppressed")
      BY <1>1, <3>1, <3>3 DEF Answered, LoopCall
    <3>4. CASE Called(next)
      BY <1>3, <3>1, <3>4 DEF Called
    <3>5. QED
      BY <3>2, <3>3, <3>4
  <2>6. CASE Grow
    <3>1. next \in DOMAIN calls /\ Called(next)
      BY <1>1, <1>2, <2>6 DEF Grow, CanGrow, FormUnbounded, LoopTypeInv
    <3>2. QED
      BY <1>3, <3>1 DEF Called
  <2>7. CASE Keep
    BY <1>1, <2>7 DEF Keep, Answers, LoopCall
  <2>8. QED
    BY <1>4, <2>1, <2>2, <2>3, <2>4, <2>5, <2>6, <2>7 DEF LoopStep
<1>5. ASSUME NEW j \in 1 .. MaxCalls, ToolStep(j) \/ ResolveInput(j)
      PROVE  Start(i)
  <2>1. CASE Start(j)
    <3>1. j = i
      BY <1>1, <2>1 DEF Start, To, Underway, LoopCall
    <3>2. QED
      BY <2>1, <3>1
  <2>2. ASSUME ~Start(j)
        PROVE  FALSE
    <3>1. \E at : j \in DOMAIN calls /\ calls' = [calls EXCEPT ![j].at = at] /\ at # "running"
      BY <1>5, <2>2 DEF ToolStep, Prepare, RequestApproval, RequestInput, Return, ResolveInput, To, Underway
    <3>2. QED
      BY <1>3, <3>1
  <2>3. QED
    BY <2>1, <2>2
<1>6. CASE UserStep
  <2>1. CASE \E j \in 1 .. MaxCalls : ResolveInput(j)
    BY <1>1, <1>5, <2>1
  <2>2. CASE \E j \in 1 .. MaxCalls, d \in {"allow", "deny"} : Decision(j, d)
    <3>1. PICK j \in 1 .. MaxCalls, d \in {"allow", "deny"} : Decision(j, d)
      BY <2>2
    <3>2. j \in DOMAIN calls /\ \E at : calls' = [calls EXCEPT ![j].at = at] /\ at # "running"
      BY <1>2, <3>1 DEF Decision, To
    <3>3. QED
      BY <1>3, <3>2
  <2>3. CASE Abort
    BY <1>1, <2>3 DEF Abort, LoopCall
  <2>4. QED
    BY <1>6, <2>1, <2>2, <2>3 DEF UserStep
<1>7. QED
  BY <1>1, <1>2, <1>4, <1>5, <1>6 DEF LoopNext, loopVars

\* Every tool call of a reply is closed before the next prompt is built, which tells of it with
\* its result unless its first decision denied it, no tool is at work when the turn is over, and
\* batches, window and calls stay within their limits: for any calls, limits, replies and decisions.
THEOREM AnswersAreKept == LoopSpec => []EveryCallIsAnswered
<1>1. LoopInit => LoopInv /\ JudgedInv
  <2>1. LoopInit => calls = <<>>
    BY DEF LoopInit
  <2>2. calls = <<>> => JudgedInv
    BY DEF JudgedInv
  <2>3. QED
    BY <2>1, <2>2, LoopBegins
<1>2. LoopInv /\ JudgedInv /\ [LoopNext]_loopVars => LoopInv' /\ JudgedInv'
  BY LoopInvHolds, JudgedHolds
<1>3. LoopInv /\ JudgedInv => EveryCallIsAnswered
  BY LoopInvAnswers
<1>4. QED
  BY <1>1, <1>2, <1>3, PTL DEF LoopSpec

\* A tool starts only in a turn that is not aborted, a gated one only if the first decision about
\* it allowed it, and the guard lets a call through fewer than Threshold times in a window.
THEOREM Allowed == LoopSpec => StartsAreAllowed
<1> DEFINE Allows ==
      /\ StormsAreBounded'
      /\ \A i \in DOMAIN calls :
           i \in DOMAIN calls' /\ calls[i].at # "running" /\ calls'[i].at = "running" =>
             /\ ~abortSignal
             /\ calls[i].call \in Gated => decisions[i] = "allow"
<1>1. LoopInit => LoopInv
  BY LoopBegins
<1>2. LoopInv /\ [LoopNext]_loopVars => LoopInv'
  BY LoopInvHolds
<1>3. LoopInv /\ LoopInv' /\ [LoopNext]_loopVars => [Allows]_loopVars
  <2>1. SUFFICES ASSUME LoopInv, LoopInv', [LoopNext]_loopVars
                 PROVE  Allows
    OBVIOUS
  <2>2. StormsAreBounded'
    BY <2>1 DEF LoopInv, GuardInv
  <2>3. ASSUME NEW i \in DOMAIN calls, i \in DOMAIN calls', calls[i].at # "running", calls'[i].at = "running"
        PROVE  ~abortSignal /\ (calls[i].call \in Gated => decisions[i] = "allow")
    <3>1. i \in 1 .. MaxCalls /\ Start(i)
      BY <2>1, <2>3, RunsOnlyByStart
    <3>2. calls[i].at = "allowed"
      BY <3>1 DEF Start
    <3>3. ~abortSignal
      <4>1. CASE abortSignal
        <5>1. calls' = [calls EXCEPT ![i].at = "rejected"]
          BY <3>1, <4>1 DEF Start, To, MayStart
        <5>2. calls[i] \in LoopCall
          BY SMTT(60), <2>1 DEF LoopInv, LoopTypeInv
        <5>3. QED
          BY <2>3, <5>1, <5>2 DEF LoopCall
      <4>2. QED
        BY <4>1
    <3>4. QED
      BY <2>1, <2>3, <3>1, <3>2, <3>3 DEF LoopInv, GateInv
  <2>4. QED
    BY <2>2, <2>3
<1>4. QED
  BY <1>1, <1>2, <1>3, PTL DEF LoopSpec, StartsAreAllowed
=============================================================================
