------------------------ MODULE EventedRuntime_proofs ------------------------
(***************************************************************************)
(* Proofs about EventedRuntime for any graph, any processes, workers and   *)
(* tasks, with and without claims, and any number of faults.               *)
(***************************************************************************)
EXTENDS EventedRuntime, FiniteSetTheorems, WellFoundedInduction, TLAPS

-----------------------------------------------------------------------------
(***************************************************************************)
(* The inductive invariant.                                                *)
(***************************************************************************)
\* What a mutation is called with. A worker answers for the agent its message is for.
Call ==
  {NoCall} \cup [kind : {"flush"}] \cup [kind : {"handoff"}, task : Task]
  \cup [kind : {"external"}, node : Node, condition : Condition]
  \cup [kind : {"complete"}, agent : Agent, condition : Condition, status : Terminal,
        task : {NoTask}, claim : {NoClaim}]
  \cup {c \in [kind : {"complete"}, agent : Agent, condition : Condition, status : Terminal,
               task : Task, claim : Token \cup {NoClaim}, worker : Worker] :
          c.agent = c.task.target}

CallInv ==
  /\ call \in [Runtime -> Call]
  /\ \A r \in Runtime :
       pc[r] = "update" => call[r].kind \in {"handoff", "complete", "external"}

\* One intent of a kind per message: the first when the handoff was delivered, the
\* second when a result was recorded.
OutboxInv ==
  /\ \A k, l \in 1 .. Len(run.outbox) :
       run.outbox[k].kind = run.outbox[l].kind /\ run.outbox[k].task = run.outbox[l].task => k = l
  /\ \A t \in Task : t \in run.delivered <=> Intents("enqueue", t) # {}
  /\ \A t \in Task : run.completions[t] > 0 <=> Intents("complete", t) # {}

\* A message that is over ended the way its intent says.
MailInv ==
  /\ \A t \in Task : mail[t].status # "none" => t \in run.delivered
  /\ \A t \in Task : mail[t].status \in Terminal =>
       \E k \in Intents("complete", t) : run.outbox[k].status = mail[t].status

\* Runtime r is about to record the answer to a message.
Answers(r) == pc[r] = "update" /\ call[r].kind = "complete" /\ call[r].task # NoTask

\* Whoever has a message, or a result of one, has it from the mailbox.
HolderInv ==
  /\ \A w \in Worker : work[w] # NoWork => mail[work[w].task].status # "none"
  /\ \A r \in Runtime : Answers(r) => mail[call[r].task].status # "none"
  /\ \A k \in 1 .. Len(run.outbox) : mail[run.outbox[k].task].status = "none" =>
       run.outbox[k].kind = "enqueue"

\* A mutation marks an intent whose effect the mailbox shows.
MarkInv == \A r \in Runtime : pc[r] = "mark" => todo[r] # {} /\ IsInMailbox(NextIntent(r))

\* Without claims a message is given to one worker, and its answer is recorded once.
GivenOnce(t) ==
  /\ mail[t].claim = NoClaim
  /\ \A w \in Worker : work[w].task = t =>
       /\ mail[t].status \notin {"none", "queued"} /\ run.completions[t] = 0
       /\ \A v \in Worker : work[v].task = t => v = w
       /\ \A r \in Runtime : Answers(r) => call[r].task # t
  /\ \A r \in Runtime : Answers(r) /\ call[r].task = t =>
       /\ mail[t].status \notin {"none", "queued"} /\ run.completions[t] = 0
       /\ \A q \in Runtime : Answers(q) /\ call[q].task = t => q = r
  /\ run.completions[t] > 0 => mail[t].status \notin {"none", "queued"}
  /\ run.completions[t] <= 1

OnceInv == ~ClaimLeases => \A t \in Task : GivenOnce(t)

\* Where a run is, and what it left behind.
StatusInv(r) ==
  /\ r.status = "running" <=> Kind[r.node] = "agent"
  /\ r.status = "completed" <=> Kind[r.node] = "terminate"
  /\ r.status = "running" => /\ r.top = AgentAt[r.node]
                             /\ \/ r.agentRun[r.node] \in {"queued", "running"}
                                \/ r.agentRun[r.node] \in Terminal /\ HandedBack(r.node)

\* A node whose agentRun ended was left by the run, and one whose attempts are used up
\* by its way out for that.
VisitInv(r) ==
  \A n \in Node : r.agentRun[n] \in Terminal => Kind[n] = "agent" /\ LeadsOn(n, r.node)

RetryInv(r) ==
  \A n \in Node : Kind[n] = "retry" /\ r.attempts[n] > MaxAttempts[n] =>
    /\ Leads(nextNodeForCondition(n, "exhausted"), r.node)
    /\ r.attempts[n] > MaxAttempts[n] + 1 => Leads(nextNodeForCondition(n, "exhausted"), n)

AnsweredInv ==
  \A t \in Task : run.completions[t] > 0 =>
    \E m \in Node : Kind[m] = "agent" /\ AgentAt[m] = t.target /\ LeadsOn(m, run.node)

\* What holds of the run record by itself.
RunInv ==
  OutboxInv /\ StatusInv(run) /\ VisitInv(run) /\ RetryInv(run) /\ AnsweredInv /\ AcceptedOnce

IInv ==
  /\ TypeOK /\ RunInv /\ CallInv
  /\ MailInv /\ PublishedIsInMailbox /\ HolderInv /\ MarkInv /\ OnceInv
-----------------------------------------------------------------------------
\* A set of naturals has a least member.
LEMMA LeastMember ==
  ASSUME NEW T, T \subseteq Nat, T # {}
  PROVE  \E x \in T : \A y \in T : x <= y
<1>1. PICK x \in T : \A y \in T : ~(<<y, x>> \in OpToRel(<, Nat))
  BY WFMin, NatLessThanWellFounded
<1>2. ASSUME NEW y \in T PROVE ~(y < x)
  <2>1. y \in Nat /\ x \in Nat
    OBVIOUS
  <2>2. QED
    BY <1>1, <2>1, Zenon DEF OpToRel
<1>3. QED
  BY <1>2

-----------------------------------------------------------------------------
(***************************************************************************)
(* The graph.                                                              *)
(***************************************************************************)
\* A node leads to itself, and what it leads to leads on.
LEMMA LeadsSelf == ASSUME NEW n PROVE Leads(n, n)
BY DEF Leads

LEMMA LeadsTrans ==
  ASSUME NEW a, NEW b \in Node, NEW c, Leads(a, b), Leads(b, c)
  PROVE  Leads(a, c)
BY DEF Leads

LEMMA LeadsOnTrans ==
  ASSUME NEW a, NEW b \in Node, NEW c, LeadsOn(a, b), Leads(b, c)
  PROVE  LeadsOn(a, c)
BY LeadsTrans DEF LeadsOn

\* The node an edge goes to is one the run can be at next.
LEMMA NextNode ==
  ASSUME GraphAssumption, NEW n \in Node, NEW c
  PROVE  /\ HasEdge(n, c) =>
              /\ nextNodeForCondition(n, c) \in Node
              /\ Kind[n] # "terminate" => /\ Leads(n, nextNodeForCondition(n, c))
                                          /\ LeadsOn(n, nextNodeForCondition(n, c))
         /\ ~HasEdge(n, c) => nextNodeForCondition(n, c) = NoNode
         /\ nextNodeForCondition(n, c) # NoNode => HasEdge(n, c)
<1>1. ASSUME HasEdge(n, c)
      PROVE  /\ nextNodeForCondition(n, c) \in Node
             /\ Kind[n] # "terminate" => /\ Leads(n, nextNodeForCondition(n, c))
                                         /\ LeadsOn(n, nextNodeForCondition(n, c))
  <2> DEFINE e == CHOOSE e \in Edge : e[1] = n /\ e[2] = c
  <2>1. e \in Edge /\ e[1] = n /\ e[2] = c
    BY <1>1 DEF HasEdge
  <2>2. nextNodeForCondition(n, c) = e[3]
    BY <1>1 DEF nextNodeForCondition
  <2> HIDE DEF e
  <2>3. e[3] \in Node
    BY <2>1 DEF GraphAssumption
  <2>4. Kind[n] # "terminate" => Leads(n, e[3])
    BY <2>1 DEF Leads, Closed
  <2>5. Kind[n] # "terminate" => LeadsOn(n, e[3])
    BY <2>1, LeadsSelf DEF LeadsOn
  <2>6. QED
    BY <2>2, <2>3, <2>4, <2>5
<1>2. ~HasEdge(n, c) => nextNodeForCondition(n, c) = NoNode
  BY DEF nextNodeForCondition
<1>3. QED
  BY <1>1, <1>2

\* The fields that walking the graph leaves alone.
Keeps(r, s) ==
  s.delivered = r.delivered /\ s.outbox = r.outbox /\ s.completions = r.completions

\* What holds of a run on its way through the graph.
Walks(r) == r \in RunRecord /\ VisitInv(r) /\ RetryInv(r)

\* One call of enterGraphNode.
LEMMA PassWalks ==
  ASSUME GraphAssumption, NEW r, Walks(r)
  PROVE  Walks(Pass(r)) /\ Keeps(r, Pass(r)) /\ Leads(r.node, Pass(r).node)
<1> DEFINE n == r.node
           m == PassesTo(r)
<1>1. n \in Node /\ Kind[n] \in NodeKind /\ MaxAttempts[n] \in Nat /\ r.attempts[n] \in Nat
  BY DEF Walks, RunRecord, GraphAssumption
<1>2. CASE m = NoNode
  BY <1>2, LeadsSelf DEF Pass, Keeps
<1>3. CASE m # NoNode
  <2>1. m \in Node /\ Leads(n, m) /\ Kind[n] \in {"retry", "join"}
    BY <1>1, <1>3, NextNode DEF PassesTo
  <2> DEFINE a == IF Kind[n] = "retry" THEN r.attempts[n] + 1 ELSE r.attempts[n]
             s == [r EXCEPT !.node = m, !.attempts[n] = a]
  <2>2. Pass(r) = s
    BY <1>3 DEF Pass
  <2>a. a \in Nat
    BY <1>1
  <2>3. s \in RunRecord /\ Keeps(r, s) /\ s.node = m /\ s.agentRun = r.agentRun
    <3> HIDE DEF a, m
    <3> QED
      BY <2>1, <2>a, <1>1 DEF Walks, RunRecord, Keeps
  <2>4. /\ Kind[n] = "retry" => s.attempts[n] = r.attempts[n] + 1
        /\ Kind[n] # "retry" => s.attempts[n] = r.attempts[n]
        /\ \A k \in Node : k # n => s.attempts[k] = r.attempts[k]
    BY <1>1 DEF Walks, RunRecord
  <2> HIDE DEF s
  <2>5. VisitInv(s)
    BY <2>1, <2>3, <1>1, LeadsOnTrans DEF Walks, VisitInv
  <2>6. ASSUME NEW k \in Node, Kind[k] = "retry", s.attempts[k] > MaxAttempts[k]
        PROVE  /\ Leads(nextNodeForCondition(k, "exhausted"), s.node)
               /\ s.attempts[k] > MaxAttempts[k] + 1 =>
                    Leads(nextNodeForCondition(k, "exhausted"), k)
    <3>1. CASE k # n
      BY <3>1, <2>6, <2>4, <2>1, <2>3, <1>1, LeadsTrans DEF Walks, RetryInv
    <3>2. CASE k = n
      <4>1. s.attempts[n] = r.attempts[n] + 1
        BY <3>2, <2>6, <2>4
      <4>2. m = nextNodeForCondition(n, "exhausted")
        BY <4>1, <3>2, <2>6, <1>1 DEF PassesTo, RetryCondition
      <4>3. s.attempts[n] > MaxAttempts[n] + 1 => r.attempts[n] > MaxAttempts[n]
        BY <4>1, <1>1
      <4>4. QED
        BY <4>2, <4>3, <3>2, <2>6, <2>3, LeadsSelf DEF Walks, RetryInv
    <3>3. QED
      BY <3>1, <3>2
  <2>7. RetryInv(s)
    BY <2>6 DEF RetryInv
  <2>8. QED
    BY <2>1, <2>2, <2>3, <2>5, <2>7 DEF Walks
<1>4. QED
  BY <1>2, <1>3

\* The recursive function of enterGraphNode.
Passed(s, f, k) == IF k = 0 THEN s ELSE Pass(f[k - 1])

LEMMA PassedIsDefined ==
  ASSUME GraphAssumption, NEW r, NEW n
  PROVE  LET s == [r EXCEPT !.node = n]
         IN  \E f : /\ f = [k \in 0 .. Cardinality(Node) |-> Passed(s, f, k)]
                    /\ enterGraphNode(r, n) = Settle(f[Cardinality(Node)])
<1> DEFINE s == [r EXCEPT !.node = n]
           Is(f, j) == f = [k \in 0 .. j |-> Passed(s, f, k)]
           N == Cardinality(Node)
           T == {j \in 0 .. N : ~\E f : Is(f, j)}
<1>0. N \in Nat
  BY FS_CardinalityType DEF GraphAssumption
<1>1. T = {}
  <2>1. SUFFICES ASSUME T # {} PROVE FALSE
    OBVIOUS
  <2>2. PICK j \in T : \A i \in T : j <= i
    <3>1. T \subseteq Nat
      OBVIOUS
    <3>2. QED
      BY ONLY <2>1, <3>1, LeastMember
  <2>3. CASE j = 0
    <3>1. Is([k \in 0 .. j |-> s], j)
      BY <2>3 DEF Passed
    <3>2. QED
      BY <3>1
  <2>4. CASE j # 0
    <3>1. j - 1 \in 0 .. N /\ j - 1 \notin T
      <4> HIDE DEF Is
      <4>1. j \in 0 .. N /\ j - 1 < j /\ j - 1 \in 0 .. N
        BY <2>4, <1>0
      <4>2. QED
        BY <4>1, <2>2
    <3>2. PICK f : Is(f, j - 1)
      BY <3>1
    <3> DEFINE g == [k \in 0 .. j |-> IF k = j THEN Passed(s, f, j) ELSE f[k]]
    <3>3. ASSUME NEW k \in 0 .. j PROVE g[k] = Passed(s, g, k)
      <4>1. CASE k = j
        BY <4>1, <2>4, <1>0 DEF Passed
      <4>2. CASE k # j
        <5>1. k \in 0 .. j - 1 /\ g[k] = f[k]
          BY <4>2
        <5>2. f[k] = Passed(s, f, k)
          BY <5>1, <3>2
        <5>3. k # 0 => k - 1 \in 0 .. j /\ k - 1 # j
          BY <5>1
        <5>4. k # 0 => g[k - 1] = f[k - 1]
          BY <5>3
        <5>5. Passed(s, f, k) = Passed(s, g, k)
          BY <5>4 DEF Passed
        <5>6. QED
          BY <5>1, <5>2, <5>5
      <4>3. QED
        BY <4>1, <4>2
    <3>4. Is(g, j)
      BY <3>3
    <3>5. QED
      BY <3>4
  <2>5. QED
    BY <2>3, <2>4
<1>2. \E f : Is(f, N)
  BY <1>0, <1>1
<1> DEFINE passed == CHOOSE f : Is(f, N)
<1>3. Is(passed, N)
  BY <1>2
<1>4. enterGraphNode(r, n) = Settle(passed[N])
  BY DEF enterGraphNode, Passed
<1>5. QED
  BY <1>3, <1>4

\* Where enterGraphNode ends the status fits the node, and an agent gets an agentRun.
LEMMA SettleWalks ==
  ASSUME GraphAssumption, NEW r, Walks(r)
  PROVE  Walks(Settle(r)) /\ Keeps(r, Settle(r)) /\ Settle(r).node = r.node /\ StatusInv(Settle(r))
<1> DEFINE n == r.node
           x == Settle(r)
<1>1. n \in Node /\ Kind[n] \in NodeKind /\ r \in RunRecord
  BY DEF Walks, RunRecord, GraphAssumption
<1>2. CASE Kind[n] = "agent"
  <2> DEFINE a == IF r.agentRun[n] \in {"queued", "running"} THEN r.agentRun[n] ELSE "queued"
             s == [r EXCEPT !.status = "running", !.top = AgentAt[n], !.agentRun[n] = a]
  <2>1. x = s
    BY <1>2 DEF Settle
  <2>2. AgentAt[n] \in Agent /\ a \in {"queued", "running"}
    BY <1>1, <1>2 DEF GraphAssumption
  <2>3. s \in RunRecord /\ Keeps(r, s) /\ s.node = n /\ s.attempts = r.attempts
    <3> HIDE DEF a
    <3> QED
      BY <1>1, <2>2 DEF RunRecord, Keeps, RunStatus, AgentRunStatus
  <2>4. /\ s.status = "running" /\ s.top = AgentAt[n] /\ s.agentRun[n] = a
        /\ \A k \in Node : k # n => s.agentRun[k] = r.agentRun[k]
    <3> HIDE DEF a
    <3> QED
      BY <1>1 DEF RunRecord
  <2> HIDE DEF a, s, x
  <2>5. VisitInv(s)
    BY <1>1, <2>2, <2>3, <2>4 DEF Walks, VisitInv, Terminal
  <2>6. RetryInv(s)
    BY <2>3 DEF Walks, RetryInv
  <2>7. StatusInv(s)
    BY <1>2, <2>2, <2>3, <2>4 DEF StatusInv
  <2>8. QED
    BY <2>1, <2>3, <2>5, <2>6, <2>7 DEF Walks, x
<1>3. CASE Kind[n] # "agent"
  <2> DEFINE b == IF Kind[n] = "terminate" THEN "completed" ELSE "suspended"
             s == [r EXCEPT !.status = b]
  <2>1. x = s
    BY <1>1, <1>3 DEF Settle
  <2>2. /\ s \in RunRecord /\ Keeps(r, s) /\ s.node = n /\ s.attempts = r.attempts
        /\ s.agentRun = r.agentRun /\ s.status = b
    BY <1>1 DEF RunRecord, Keeps, RunStatus
  <2> HIDE DEF s, x
  <2>3. VisitInv(s) /\ RetryInv(s)
    BY <2>2 DEF Walks, VisitInv, RetryInv
  <2>4. StatusInv(s)
    BY <1>3, <2>2 DEF StatusInv
  <2>5. QED
    BY <2>1, <2>2, <2>3, <2>4 DEF Walks, x
<1>4. QED
  BY <1>2, <1>3

\* enterGraphNode takes a run on along the edges of the graph.
LEMMA EnterWalks ==
  ASSUME GraphAssumption, NEW r, NEW n \in Node, Walks([r EXCEPT !.node = n]), r \in RunRecord
  PROVE  LET x == enterGraphNode(r, n)
         IN  Walks(x) /\ Keeps(r, x) /\ Leads(n, x.node) /\ StatusInv(x)
<1> DEFINE s == [r EXCEPT !.node = n]
           N == Cardinality(Node)
<1>1. N \in Nat
  BY FS_CardinalityType DEF GraphAssumption
<1>2. PICK f : f = [k \in 0 .. N |-> Passed(s, f, k)] /\ enterGraphNode(r, n) = Settle(f[N])
  BY PassedIsDefined
<1>3. s.node = n /\ Keeps(r, s) /\ Walks(s)
  BY DEF RunRecord, Keeps
<1> HIDE DEF s
<1> DEFINE C(k) == Walks(f[k]) /\ Keeps(r, f[k]) /\ Leads(n, f[k].node)
           T == {k \in 0 .. N : ~C(k)}
<1>4. T = {}
  <2>1. SUFFICES ASSUME T # {} PROVE FALSE
    OBVIOUS
  <2>2. PICK k \in T : \A j \in T : k <= j
    <3>1. T \subseteq Nat
      OBVIOUS
    <3>2. QED
      BY ONLY <2>1, <3>1, LeastMember
  <2>3. k \in 0 .. N /\ ~C(k) /\ f[k] = Passed(s, f, k)
    BY <1>2
  <2>4. CASE k = 0
    <3>1. f[k] = s
      BY <2>3, <2>4 DEF Passed
    <3>2. QED
      BY <3>1, <2>3, <1>3, LeadsSelf
  <2>5. CASE k # 0
    <3>1. k - 1 \in 0 .. N /\ k - 1 \notin T
      <4> HIDE DEF C
      <4>1. k - 1 < k /\ k - 1 \in 0 .. N
        BY <2>3, <2>5, <1>1
      <4>2. QED
        BY <4>1, <2>2
    <3>2. C(k - 1) /\ f[k] = Pass(f[k - 1])
      BY <3>1, <2>3, <2>5 DEF Passed
    <3> DEFINE p == f[k - 1]
    <3>3. /\ Walks(Pass(p)) /\ Keeps(p, Pass(p)) /\ Leads(p.node, Pass(p).node)
          /\ p.node \in Node
      BY <3>2, PassWalks DEF Walks, RunRecord
    <3>4. C(k)
      BY <3>2, <3>3, LeadsTrans DEF Keeps
    <3>5. QED
      BY <3>4, <2>3
  <2>6. QED
    BY <2>4, <2>5
<1>5. C(N)
  BY <1>1, <1>4
<1>6. QED
  BY <1>2, <1>5, SettleWalks DEF Keeps

-----------------------------------------------------------------------------
(***************************************************************************)
(* Updates of the run record.                                              *)
(***************************************************************************)
\* The assumptions about the constants.
Assumptions ==
  /\ GraphAssumption /\ TaskAssumption /\ WorkerAssumption /\ OutcomeAssumption
  /\ ClaimAssumption /\ FaultAssumption

\* The outbox of x has an intent more, if there was none of that kind for the message.
Recorded(x, kind, t, status, claim) ==
  x.outbox = IF Intents(kind, t) # {} THEN run.outbox
             ELSE Append(run.outbox, [kind |-> kind, task |-> t, status |-> status,
                                      claim |-> claim, published |-> FALSE])

LEMMA WithIntentRecords ==
  ASSUME NEW r \in RunRecord, r.outbox = run.outbox, NEW kind \in {"enqueue", "complete"},
         NEW t \in Task, NEW status \in Terminal, NEW claim \in Token \cup {NoClaim}
  PROVE  LET x == WithIntent(r, kind, t, status, claim)
         IN  /\ x \in RunRecord /\ Recorded(x, kind, t, status, claim)
             /\ x.node = r.node /\ x.top = r.top /\ x.status = r.status
             /\ x.agentRun = r.agentRun /\ x.attempts = r.attempts
             /\ x.delivered = r.delivered /\ x.completions = r.completions
<1> DEFINE i == [kind |-> kind, task |-> t, status |-> status, claim |-> claim,
                 published |-> FALSE]
<1>1. i \in Intent
  BY DEF Intent
<1>2. CASE Intents(kind, t) # {}
  BY <1>2 DEF WithIntent, Recorded
<1>3. CASE Intents(kind, t) = {}
  <2>1. WithIntent(r, kind, t, status, claim) = [r EXCEPT !.outbox = Append(r.outbox, i)]
    BY <1>3 DEF WithIntent
  <2>2. Append(r.outbox, i) \in Seq(Intent)
    BY <1>1 DEF RunRecord
  <2> HIDE DEF i
  <2>3. Recorded([r EXCEPT !.outbox = Append(r.outbox, i)], kind, t, status, claim)
    BY <1>3 DEF Recorded, RunRecord, i
  <2>4. QED
    BY <2>1, <2>2, <2>3 DEF RunRecord
<1>4. QED
  BY <1>2, <1>3

\* A handoff takes the run on to the target, and records the message to send.
LEMMA HandoffUpdate ==
  ASSUME Assumptions, IInv, NEW t \in Task,
         HandoffIsRepeated(run, t) \/ HandoffIsLegal(run, t)
  PROVE  LET x == Updated([kind |-> "handoff", task |-> t])
         IN  /\ Walks(x) /\ StatusInv(x) /\ Leads(run.node, x.node)
             /\ x.completions = run.completions /\ x.delivered = run.delivered \cup {t}
             /\ Recorded(x, "enqueue", t, "completed", NoClaim)
             /\ Kind[run.node] # "terminate"
<1> DEFINE x == Updated([kind |-> "handoff", task |-> t])
           n == run.node
           m == TargetNode(n)
<1>1. /\ run \in RunRecord /\ n \in Node /\ StatusInv(run) /\ VisitInv(run) /\ RetryInv(run)
      /\ GraphAssumption
  BY DEF IInv, RunInv, TypeOK, RunRecord, Assumptions
<1>2. CASE HandoffIsRepeated(run, t)
  <2>1. x = WithIntent(run, "enqueue", t, "completed", NoClaim)
    BY <1>2 DEF Updated
  <2>2. t \in run.delivered /\ Intents("enqueue", t) # {} /\ Kind[n] = "agent"
    BY <1>2 DEF HandoffIsRepeated, IInv, RunInv, OutboxInv
  <2>3. x = run
    BY <2>1, <2>2 DEF WithIntent
  <2>4. Recorded(run, "enqueue", t, "completed", NoClaim)
    BY <2>2 DEF Recorded
  <2>5. run.delivered = run.delivered \cup {t}
    BY <2>2
  <2>6. QED
    BY <2>2, <2>3, <2>4, <2>5, <1>1, LeadsSelf DEF Walks
<1>3. CASE ~HandoffIsRepeated(run, t)
  <2>1. HandoffIsLegal(run, t)
    BY <1>3
  <2>2. /\ Kind[n] = "agent" /\ run.status = "running" /\ m \in Node /\ Kind[m] = "agent"
        /\ AgentAt[m] = t.target /\ t.target \in Agent
    BY <2>1, <1>1, NextNode DEF HandoffIsLegal, StatusInv, TargetNode, HandoffNode, GraphAssumption
  <2>3. Leads(n, m)
    BY <2>1, <2>2, <1>1, NextNode, LeadsTrans DEF HandoffIsLegal, TargetNode, HandoffNode
  <2> DEFINE a == IF run.agentRun[m] = "none" THEN "queued" ELSE run.agentRun[m]
             s == [run EXCEPT !.node = m, !.top = t.target, !.agentRun[m] = a,
                              !.delivered = run.delivered \cup {t}]
  <2>4. x = WithIntent(s, "enqueue", t, "completed", NoClaim)
    BY <1>3 DEF Updated, AfterHandoff
  <2>5. a \in AgentRunStatus /\ a # "none" /\ (a \in Terminal => run.agentRun[m] \in Terminal)
    BY <2>2, <1>1 DEF RunRecord, AgentRunStatus, Terminal
  <2>6. /\ s \in RunRecord /\ s.node = m /\ s.top = t.target /\ s.status = "running"
        /\ s.agentRun[m] = a /\ (\A k \in Node : k # m => s.agentRun[k] = run.agentRun[k])
        /\ s.attempts = run.attempts /\ s.outbox = run.outbox
        /\ s.completions = run.completions /\ s.delivered = run.delivered \cup {t}
    <3> HIDE DEF a, m
    <3> QED
      BY <2>2, <2>5, <1>1 DEF RunRecord
  <2> HIDE DEF a, s, m, x
  <2>7. VisitInv(s)
    BY <2>2, <2>3, <2>5, <2>6, <1>1, LeadsOnTrans DEF VisitInv
  <2>8. RetryInv(s)
    <3>1. ASSUME NEW k \in Node, Kind[k] = "retry", s.attempts[k] > MaxAttempts[k]
          PROVE  /\ Leads(nextNodeForCondition(k, "exhausted"), s.node)
                 /\ s.attempts[k] > MaxAttempts[k] + 1 =>
                      Leads(nextNodeForCondition(k, "exhausted"), k)
      BY <3>1, <2>3, <2>6, <1>1, LeadsTrans DEF RetryInv
    <3>2. QED
      BY <3>1 DEF RetryInv
  <2>9. run.agentRun[m] \in Terminal => HandedBack(m)
    BY <2>2, <1>1 DEF VisitInv, HandedBack, m
  <2>10. StatusInv(s)
    <3>1. a \in {"queued", "running"} \/ a \in Terminal
      BY <2>5 DEF AgentRunStatus, Terminal
    <3>2. QED
      BY <3>1, <2>2, <2>5, <2>6, <2>9 DEF StatusInv
  <2>11. /\ x \in RunRecord /\ Recorded(x, "enqueue", t, "completed", NoClaim)
         /\ x.node = s.node /\ x.top = s.top /\ x.status = s.status
         /\ x.agentRun = s.agentRun /\ x.attempts = s.attempts
         /\ x.delivered = s.delivered /\ x.completions = s.completions
    <3>1. "completed" \in Terminal
      BY DEF Terminal
    <3>2. QED
      BY <3>1, <2>4, <2>6, WithIntentRecords
  <2>12. VisitInv(x) /\ RetryInv(x) /\ StatusInv(x)
    BY <2>7, <2>8, <2>10, <2>11 DEF VisitInv, RetryInv, StatusInv
  <2>13. QED
    BY <2>2, <2>3, <2>6, <2>11, <2>12 DEF Walks, x
<1>4. QED
  BY <1>2, <1>3

\* A completion ends the agentRun of the node the run is at and takes the run on.
LEMMA CompleteUpdate ==
  ASSUME Assumptions, IInv, NEW c \in Call, c.kind = "complete",
         CompletionIsLegal(run, c.agent, c.condition)
  PROVE  LET x == Updated(c)
         IN  /\ Walks(x) /\ StatusInv(x) /\ LeadsOn(run.node, x.node)
             /\ Kind[run.node] = "agent" /\ AgentAt[run.node] = c.agent
             /\ x.delivered = run.delivered
             /\ c.task = NoTask => x.outbox = run.outbox /\ x.completions = run.completions
             /\ c.task # NoTask =>
                  /\ c.task \in Task /\ c.agent = c.task.target
                  /\ x.completions = [run.completions EXCEPT ![c.task] = @ + 1]
                  /\ Recorded(x, "complete", c.task, c.status, c.claim)
<1> DEFINE n == run.node
           m == nextNodeForCondition(n, c.condition)
           s == [run EXCEPT !.agentRun[n] = c.status]
           y == enterGraphNode(s, m)
<1>1. /\ run \in RunRecord /\ n \in Node /\ VisitInv(run) /\ RetryInv(run) /\ GraphAssumption
  BY DEF IInv, RunInv, TypeOK, RunRecord, Assumptions
<1>2. /\ c.status \in Terminal /\ c.claim \in Token \cup {NoClaim}
      /\ c.task # NoTask => c.task \in Task /\ c.agent = c.task.target
  BY DEF Call, NoCall
<1>3. Kind[n] = "agent" /\ AgentAt[n] = c.agent /\ m \in Node /\ LeadsOn(n, m) /\ Leads(n, m)
  BY <1>1, NextNode DEF CompletionIsLegal
<1>4. /\ s \in RunRecord /\ s.node = n /\ Keeps(run, s) /\ s.attempts = run.attempts
      /\ s.agentRun[n] = c.status /\ \A k \in Node : k # n => s.agentRun[k] = run.agentRun[k]
  BY <1>1, <1>2 DEF RunRecord, AgentRunStatus, Terminal, Keeps
<1> HIDE DEF m, s
<1> DEFINE z == [s EXCEPT !.node = m]
<1>5. /\ z \in RunRecord /\ z.node = m /\ z.attempts = run.attempts /\ z.agentRun = s.agentRun
  BY <1>3, <1>4 DEF RunRecord
<1> HIDE DEF z
<1>6. VisitInv(z)
  BY <1>1, <1>3, <1>4, <1>5, LeadsOnTrans DEF VisitInv
<1>7. RetryInv(z)
  <2>1. ASSUME NEW k \in Node, Kind[k] = "retry", z.attempts[k] > MaxAttempts[k]
        PROVE  /\ Leads(nextNodeForCondition(k, "exhausted"), z.node)
               /\ z.attempts[k] > MaxAttempts[k] + 1 =>
                    Leads(nextNodeForCondition(k, "exhausted"), k)
    BY <2>1, <1>1, <1>3, <1>5, LeadsTrans DEF RetryInv
  <2>2. QED
    BY <2>1 DEF RetryInv
<1>8. Walks(y) /\ Keeps(s, y) /\ Leads(m, y.node) /\ StatusInv(y)
  BY <1>1, <1>3, <1>4, <1>5, <1>6, <1>7, EnterWalks DEF Walks, z
<1>9. y = CompleteActiveAgent(run, c.condition, c.status)
  BY DEF CompleteActiveAgent, m, s
<1> HIDE DEF y
<1>10. LeadsOn(n, y.node) /\ Keeps(run, y)
  BY <1>3, <1>4, <1>8, LeadsOnTrans DEF Keeps
<1>11. CASE c.task = NoTask
  <2>1. Updated(c) = y
    BY <1>9, <1>11 DEF Updated, AfterCompletion
  <2>2. QED
    BY <2>1, <1>3, <1>8, <1>10, <1>11 DEF Keeps
<1>12. CASE c.task # NoTask
  <2> DEFINE t == c.task
             d == [y EXCEPT !.completions[t] = @ + 1]
             x == WithIntent(d, "complete", t, c.status, c.claim)
  <2>1. Updated(c) = x
    BY <1>9, <1>12 DEF Updated, AfterCompletion
  <2>2. t \in Task /\ c.agent = t.target /\ y \in RunRecord
    BY <1>2, <1>8, <1>12 DEF Walks
  <2>3. /\ d \in RunRecord /\ d.node = y.node /\ d.top = y.top /\ d.status = y.status
        /\ d.agentRun = y.agentRun /\ d.attempts = y.attempts /\ d.delivered = run.delivered
        /\ d.outbox = run.outbox /\ d.completions = [run.completions EXCEPT ![t] = @ + 1]
    <3>1. y.completions = run.completions /\ y.delivered = run.delivered /\ y.outbox = run.outbox
      BY <1>10 DEF Keeps
    <3> DEFINE e == [run.completions EXCEPT ![t] = @ + 1]
    <3>2. e \in [Task -> Nat]
      BY SMTT(60), <1>1, <2>2 DEF RunRecord
    <3>3. d = [y EXCEPT !.completions = e]
      BY <3>1, <2>2 DEF RunRecord
    <3> HIDE DEF e, d
    <3>4. /\ d \in RunRecord /\ d.node = y.node /\ d.top = y.top /\ d.status = y.status
          /\ d.agentRun = y.agentRun /\ d.attempts = y.attempts /\ d.delivered = y.delivered
          /\ d.outbox = y.outbox /\ d.completions = e
      BY <2>2, <3>2, <3>3 DEF RunRecord
    <3>5. QED
      BY <3>1, <3>4 DEF e
  <2> HIDE DEF d
  <2>4. /\ x \in RunRecord /\ Recorded(x, "complete", t, c.status, c.claim)
        /\ x.node = d.node /\ x.top = d.top /\ x.status = d.status
        /\ x.agentRun = d.agentRun /\ x.attempts = d.attempts
        /\ x.delivered = d.delivered /\ x.completions = d.completions
    BY <2>2, <2>3, <1>2, WithIntentRecords
  <2> HIDE DEF x
  <2>5. VisitInv(x) /\ RetryInv(x) /\ StatusInv(x)
    BY <1>8, <2>3, <2>4 DEF Walks, VisitInv, RetryInv, StatusInv
  <2>6. QED
    BY <2>1, <2>2, <2>3, <2>4, <2>5, <1>3, <1>10, <1>12 DEF Walks
<1>13. QED
  BY <1>11, <1>12

\* An external node's completion takes the run on, and nothing else.
LEMMA ExternalUpdate ==
  ASSUME Assumptions, IInv, NEW c \in Call, c.kind = "external",
         ExternalIsLegal(run, c.node, c.condition)
  PROVE  LET x == Updated(c)
         IN  /\ Walks(x) /\ StatusInv(x) /\ Leads(run.node, x.node) /\ Keeps(run, x)
             /\ Kind[run.node] # "terminate"
<1> DEFINE n == run.node
           m == nextNodeForCondition(n, c.condition)
           z == [run EXCEPT !.node = m]
<1>1. /\ run \in RunRecord /\ n \in Node /\ VisitInv(run) /\ RetryInv(run) /\ GraphAssumption
  BY DEF IInv, RunInv, TypeOK, RunRecord, Assumptions
<1>2. Kind[n] # "terminate" /\ m \in Node /\ Leads(n, m)
  BY <1>1, NextNode DEF ExternalIsLegal, ExternalKind
<1>3. /\ z \in RunRecord /\ z.node = m /\ z.attempts = run.attempts /\ z.agentRun = run.agentRun
  BY <1>1, <1>2 DEF RunRecord
<1>4. Updated(c) = enterGraphNode(run, m)
  BY DEF Updated
<1> HIDE DEF m
<1>5. VisitInv(z)
  <2> HIDE DEF z
  <2> QED
    BY <1>1, <1>2, <1>3, LeadsOnTrans DEF VisitInv
<1>6. RetryInv(z)
  <2> HIDE DEF z
  <2>1. ASSUME NEW k \in Node, Kind[k] = "retry", z.attempts[k] > MaxAttempts[k]
        PROVE  /\ Leads(nextNodeForCondition(k, "exhausted"), z.node)
               /\ z.attempts[k] > MaxAttempts[k] + 1 =>
                    Leads(nextNodeForCondition(k, "exhausted"), k)
    BY <2>1, <1>1, <1>2, <1>3, LeadsTrans DEF RetryInv
  <2>2. QED
    BY <2>1 DEF RetryInv
<1>7. LET x == enterGraphNode(run, m)
      IN  Walks(x) /\ Keeps(run, x) /\ Leads(m, x.node) /\ StatusInv(x)
  BY <1>1, <1>2, <1>3, <1>5, <1>6, EnterWalks DEF Walks
<1>8. QED
  BY <1>2, <1>4, <1>7, <1>1, LeadsTrans

-----------------------------------------------------------------------------
(***************************************************************************)
(* The invariant: the initial states, and steps that leave the run alone.  *)
(***************************************************************************)
LEMMA InitIInv == ASSUME Assumptions, Init PROVE IInv
<1>1. /\ StartNode \in Node /\ Kind[StartNode] = "agent" /\ AgentAt[StartNode] \in Agent
      /\ MaxAttempts \in [Node -> Nat] /\ MaxFaults \in Nat
  BY DEF Assumptions, GraphAssumption, FaultAssumption
<1>2. run \in RunRecord /\ run.node = StartNode /\ run.outbox = <<>> /\ Len(run.outbox) = 0
  BY <1>1 DEF Init, RunRecord, RunStatus, AgentRunStatus
<1>3. NoMail \in Mail
  BY DEF NoMail, Mail, MailStatus
<1>4. TypeOK
  BY <1>1, <1>2, <1>3 DEF Init, TypeOK
<1>5. RunInv
  <2>1. OutboxInv
    BY <1>2 DEF Init, OutboxInv, Intents
  <2>2. StatusInv(run) /\ VisitInv(run) /\ AnsweredInv /\ AcceptedOnce
    BY <1>1 DEF Init, StatusInv, VisitInv, AnsweredInv, AcceptedOnce, Terminal
  <2>3. RetryInv(run)
    <3>1. ASSUME NEW n \in Node PROVE ~(run.attempts[n] > MaxAttempts[n])
      BY <1>1 DEF Init
    <3>2. QED
      BY <3>1 DEF RetryInv
  <2>4. QED
    BY <2>1, <2>2, <2>3 DEF RunInv
<1>6. CallInv /\ MarkInv
  BY DEF Init, CallInv, MarkInv, Call
<1>7. MailInv /\ PublishedIsInMailbox /\ HolderInv
  BY <1>2 DEF Init, MailInv, PublishedIsInMailbox, HolderInv, NoMail, Terminal, Answers
<1>8. OnceInv
  <2>1. ASSUME NEW t \in Task PROVE NoWork.task # t
    BY DEF NoWork, Assumptions, TaskAssumption
  <2>2. QED
    BY <2>1 DEF Init, OnceInv, GivenOnce, NoMail, Answers
<1>9. QED
  BY <1>4, <1>5, <1>6, <1>7, <1>8 DEF IInv

\* What holds of the run record holds as long as it is not written.
LEMMA RunFrame == ASSUME RunInv, run' = run PROVE RunInv'
BY DEF RunInv, OutboxInv, Intents, StatusInv, VisitInv, RetryInv, AnsweredInv, AcceptedOnce

LEMMA MailFrame ==
  ASSUME MailInv, PublishedIsInMailbox, run' = run, mail' = mail
  PROVE  MailInv' /\ PublishedIsInMailbox'
BY DEF MailInv, Intents, PublishedIsInMailbox, IsInMailbox

\* Work and answers that are forgotten or finished disturb nothing.
LEMMA HoldersFewer ==
  ASSUME Assumptions, HolderInv, OnceInv, run' = run, mail' = mail,
         \A w \in Worker : work'[w] \in {work[w], NoWork},
         \A r \in Runtime : Answers(r)' => Answers(r) /\ call'[r] = call[r]
  PROVE  HolderInv' /\ OnceInv'
<1>1. HolderInv'
  BY DEF HolderInv
<1>2. ASSUME NEW t \in Task PROVE NoWork.task # t
  BY DEF NoWork, Assumptions, TaskAssumption
<1>3. ASSUME ~ClaimLeases, NEW t \in Task PROVE GivenOnce(t)'
  <2>1. GivenOnce(t)
    BY <1>3 DEF OnceInv
  <2>2. \A w \in Worker : work'[w].task = t => work[w].task = t
    BY <1>2
  <2>3. QED
    BY <2>1, <2>2 DEF GivenOnce
<1>4. QED
  BY <1>1, <1>3 DEF OnceInv

\* A mutation begins, for a worker's answer or for a call without a message.
LEMMA BeginKeeps ==
  ASSUME Assumptions, IInv, NEW r \in Runtime, NEW c \in Call, c # NoCall,
         NEW label \in {"update", "load"},
         label = "update" => c.kind \in {"handoff", "complete", "external"},
         Begin(r, c, label),
         \/ work' = work /\ (c.kind = "complete" => c.task = NoTask)
         \/ \E w \in Worker : /\ work[w] # NoWork /\ work' = [work EXCEPT ![w] = NoWork]
                              /\ c.kind = "complete" /\ c.task = work[w].task
  PROVE  IInv'
<1>1. /\ TypeOK /\ RunInv /\ CallInv /\ MailInv /\ PublishedIsInMailbox /\ HolderInv /\ MarkInv
      /\ OnceInv /\ pc \in [Runtime -> {"idle", "update", "load", "flush", "mark", "release"}]
      /\ call \in [Runtime -> Call]
  BY DEF IInv, TypeOK, CallInv
<1>2. /\ run' = run /\ mail' = mail /\ todo' = todo /\ faults' = faults
      /\ pc[r] = "idle" /\ lease' = [holder |-> r, lapsed |-> FALSE]
      /\ call' \in [Runtime -> Call] /\ call'[r] = c /\ pc'[r] = label
      /\ \A q \in Runtime : q # r => call'[q] = call[q] /\ pc'[q] = pc[q]
      /\ pc' \in [Runtime -> {"idle", "update", "load", "flush", "mark", "release"}]
  BY <1>1 DEF Begin, Goto
<1>3. work' \in [Worker -> [task : Task, claim : Token \cup {NoClaim}] \cup {NoWork}]
  BY <1>1 DEF TypeOK
<1>4. TypeOK'
  BY <1>1, <1>2, <1>3 DEF TypeOK
<1>5. CallInv'
  BY <1>1, <1>2 DEF CallInv
<1>6. RunInv' /\ MailInv' /\ PublishedIsInMailbox'
  BY <1>1, <1>2, RunFrame, MailFrame
<1>7. MarkInv'
  BY <1>1, <1>2 DEF MarkInv, IsInMailbox, NextIntent
<1>8. CASE work' = work /\ (c.kind = "complete" => c.task = NoTask)
  <2>1. \A q \in Runtime : Answers(q)' => Answers(q) /\ call'[q] = call[q]
    BY <1>2, <1>8 DEF Answers
  <2>2. HolderInv' /\ OnceInv'
    BY <1>1, <1>2, <1>8, <2>1, HoldersFewer
  <2>3. QED
    BY <1>4, <1>5, <1>6, <1>7, <2>2 DEF IInv
<1>9. CASE \E w \in Worker : /\ work[w] # NoWork /\ work' = [work EXCEPT ![w] = NoWork]
                             /\ c.kind = "complete" /\ c.task = work[w].task
  <2>1. PICK w \in Worker : /\ work[w] # NoWork /\ work' = [work EXCEPT ![w] = NoWork]
                            /\ c.kind = "complete" /\ c.task = work[w].task
    BY <1>9
  <2>2. \A v \in Worker : work'[v] = IF v = w THEN NoWork ELSE work[v]
    BY <2>1, <1>1 DEF TypeOK
  <2>3. c.task \in Task /\ NoTask \notin Task /\ NoWork.task = NoTask
    BY <2>1, <1>1 DEF TypeOK, Assumptions, TaskAssumption, NoWork
  <2>4. \A q \in Runtime : q # r => (Answers(q)' <=> Answers(q))
    BY <1>2 DEF Answers
  <2>5. ~Answers(r)
    BY <1>2 DEF Answers
  <2>6. HolderInv'
    BY <1>1, <1>2, <2>1, <2>2, <2>4 DEF HolderInv
  <2>7. ASSUME ~ClaimLeases, NEW t \in Task PROVE GivenOnce(t)'
    <3>1. GivenOnce(t)
      BY <2>7, <1>1 DEF OnceInv
    <3>2. \A v \in Worker : work'[v].task = t => v # w /\ work[v].task = t
      BY <2>2, <2>3
    <3>3. CASE t = c.task
      <4>1. /\ mail[t].status \notin {"none", "queued"} /\ run.completions[t] = 0
            /\ \A v \in Worker : work[v].task = t => v = w
            /\ \A q \in Runtime : Answers(q) => call[q].task # t
        BY <3>1, <3>3, <2>1 DEF GivenOnce
      <4>2. \A v \in Worker : work'[v].task # t
        BY <4>1, <3>2
      <4>3. \A q \in Runtime : Answers(q)' /\ call'[q].task = t => q = r
        BY <4>1, <1>2, <2>4
      <4>4. QED
        BY <4>1, <4>2, <4>3, <3>1, <1>2 DEF GivenOnce
    <3>4. CASE t # c.task
      <4>1. \A q \in Runtime : Answers(q)' /\ call'[q].task = t =>
              q # r /\ Answers(q) /\ call[q].task = t
        BY <3>4, <1>2, <2>4
      <4>2. QED
        BY <4>1, <3>1, <3>2, <1>2 DEF GivenOnce
    <3>5. QED
      BY <3>3, <3>4
  <2>8. QED
    BY <1>4, <1>5, <1>6, <1>7, <2>6, <2>7 DEF IInv, OnceInv
<1>10. QED
  BY <1>8, <1>9

\* The five kinds of call.
LEMMA CallsKeep ==
  ASSUME Assumptions, IInv, NEW r \in Runtime,
         Handoff(r) \/ CompleteDirectly(r) \/ CompleteExternal(r) \/ Reconcile(r)
  PROVE  IInv'
<1>1. CASE Handoff(r)
  <2>1. PICK t \in Task : Begin(r, [kind |-> "handoff", task |-> t], "update")
    BY <1>1 DEF Handoff
  <2> DEFINE c == [kind |-> "handoff", task |-> t]
  <2>2. c \in Call /\ c # NoCall /\ c.kind = "handoff"
    BY DEF Call, NoCall
  <2> HIDE DEF c
  <2>3. Begin(r, c, "update") /\ work' = work
    BY <2>1, <1>1 DEF Handoff, c
  <2>4. QED
    BY <2>2, <2>3, BeginKeeps
<1>2. CASE CompleteDirectly(r)
  <2> DEFINE C(d) == [kind |-> "complete", agent |-> d[1], condition |-> d[2],
                      status |-> IF d[2] \in {"failed", "aborted"} THEN d[2] ELSE "completed",
                      task |-> NoTask, claim |-> NoClaim]
  <2>1. PICK d \in Direct : Begin(r, C(d), "update")
    BY <1>2 DEF CompleteDirectly
  <2>2. d[1] \in Agent /\ d[2] \in Condition
    BY DEF Assumptions, OutcomeAssumption
  <2>3. C(d) \in Call /\ C(d) # NoCall /\ C(d).kind = "complete" /\ C(d).task = NoTask
    BY <2>2 DEF Call, NoCall, Terminal
  <2> DEFINE c == C(d)
  <2> HIDE DEF C
  <2>4. c \in Call /\ c # NoCall /\ c.kind = "complete" /\ c.task = NoTask
    BY <2>3
  <2>5. Begin(r, c, "update") /\ work' = work
    BY <2>1, <1>2 DEF CompleteDirectly
  <2> HIDE DEF c
  <2>6. QED
    BY <2>4, <2>5, BeginKeeps
<1>3. CASE CompleteExternal(r)
  <2> DEFINE C(x) == [kind |-> "external", node |-> x[1], condition |-> x[2]]
  <2>1. PICK x \in External : Begin(r, C(x), "update")
    BY <1>3 DEF CompleteExternal
  <2>2. x[1] \in Node /\ x[2] \in Condition
    BY DEF Assumptions, OutcomeAssumption
  <2> DEFINE c == C(x)
  <2>3. c \in Call /\ c # NoCall /\ c.kind = "external"
    BY <2>2 DEF Call, NoCall
  <2> HIDE DEF C
  <2>4. Begin(r, c, "update") /\ work' = work
    BY <2>1, <1>3 DEF CompleteExternal
  <2> HIDE DEF c
  <2>5. QED
    BY <2>3, <2>4, BeginKeeps
<1>4. CASE Reconcile(r)
  <2> DEFINE c == [kind |-> "flush"]
  <2>1. c \in Call /\ c # NoCall /\ c.kind = "flush"
    BY DEF Call, NoCall
  <2>2. Begin(r, c, "load") /\ work' = work
    BY <1>4 DEF Reconcile
  <2> HIDE DEF c
  <2>3. QED
    BY <2>1, <2>2, BeginKeeps
<1>5. QED
  BY <1>1, <1>2, <1>3, <1>4

LEMMA CompleteWorkKeeps ==
  ASSUME Assumptions, IInv, NEW w \in Worker, CompleteWork(w)
  PROVE  IInv'
<1> DEFINE C(o) == [kind |-> "complete", agent |-> work[w].task.target,
                    condition |-> o.condition, status |-> o.status, task |-> work[w].task,
                    claim |-> work[w].claim, worker |-> w]
<1>1. PICK o \in Outcome : Begin(RuntimeOf[w], C(o), "update")
  BY DEF CompleteWork
<1>2. /\ work[w] # NoWork /\ work' = [work EXCEPT ![w] = NoWork]
      /\ RuntimeOf[w] \in Runtime
  BY DEF CompleteWork, Assumptions, WorkerAssumption
<1>3. /\ work[w].task \in Task /\ work[w].claim \in Token \cup {NoClaim}
      /\ work[w].task.target \in Agent
      /\ o.condition \in Condition /\ o.status \in Terminal
  BY <1>2 DEF IInv, TypeOK, Assumptions, OutcomeAssumption, TaskAssumption, Terminal
<1> DEFINE c == C(o)
<1>4. c \in Call /\ c # NoCall /\ c.kind = "complete" /\ c.task = work[w].task
  <2>1. c \in [kind : {"complete"}, agent : Agent, condition : Condition, status : Terminal,
               task : Task, claim : Token \cup {NoClaim}, worker : Worker]
    BY <1>3
  <2>2. c.agent = c.task.target /\ c.kind = "complete" /\ c.task = work[w].task
    OBVIOUS
  <2>3. c # NoCall
    BY DEF NoCall
  <2> HIDE DEF c
  <2>4. QED
    BY <2>1, <2>2, <2>3 DEF Call
<1> HIDE DEF C
<1>5. Begin(RuntimeOf[w], c, "update")
  BY <1>1
<1> HIDE DEF c
<1>6. QED
  BY <1>2, <1>4, <1>5, BeginKeeps

\* Steps that only forget what a mutation or a worker was about to do, or that let a run
\* lease lapse.
LEMMA ForgetKeeps ==
  ASSUME Assumptions, IInv, TypeOK', CallInv', run' = run, mail' = mail,
         \A w \in Worker : work'[w] \in {work[w], NoWork},
         \A r \in Runtime : Answers(r)' => Answers(r) /\ call'[r] = call[r],
         \A r \in Runtime : pc'[r] = "mark" => pc[r] = "mark" /\ todo'[r] = todo[r]
  PROVE  IInv'
<1>1. RunInv' /\ MailInv' /\ PublishedIsInMailbox'
  BY RunFrame, MailFrame DEF IInv
<1>2. HolderInv' /\ OnceInv'
  BY HoldersFewer DEF IInv
<1>3. MarkInv'
  BY DEF IInv, MarkInv, IsInMailbox, NextIntent
<1>4. QED
  BY <1>1, <1>2, <1>3 DEF IInv

LEMMA LoadKeeps == ASSUME Assumptions, IInv, NEW r \in Runtime, Load(r) PROVE IInv'
<1>1. TypeOK /\ CallInv
  BY DEF IInv
<1>2. TypeOK' /\ CallInv'
  BY <1>1 DEF Load, Goto, TypeOK, CallInv, Pending
<1>3. \A q \in Runtime : pc'[q] = "mark" => pc[q] = "mark" /\ todo'[q] = todo[q]
  BY <1>1 DEF Load, Goto, TypeOK
<1>4. \A q \in Runtime : Answers(q)' => Answers(q) /\ call'[q] = call[q]
  BY <1>1 DEF Load, Goto, TypeOK, Answers
<1>5. QED
  BY <1>2, <1>3, <1>4, ForgetKeeps DEF Load

LEMMA RejectKeeps == ASSUME Assumptions, IInv, NEW r \in Runtime, RejectComplete(r) PROVE IInv'
<1>1. TypeOK /\ CallInv
  BY DEF IInv
<1>2. TypeOK' /\ CallInv'
  BY <1>1 DEF RejectComplete, Goto, TypeOK, CallInv
<1>3. \A q \in Runtime : pc'[q] = "mark" => pc[q] = "mark" /\ todo'[q] = todo[q]
  BY <1>1 DEF RejectComplete, Goto, TypeOK
<1>4. \A q \in Runtime : Answers(q)' => Answers(q) /\ call'[q] = call[q]
  BY <1>1 DEF RejectComplete, Goto, TypeOK, Answers
<1>5. QED
  BY <1>2, <1>3, <1>4, ForgetKeeps DEF RejectComplete

LEMMA ReleaseKeeps == ASSUME Assumptions, IInv, NEW r \in Runtime, Release(r) PROVE IInv'
<1>1. TypeOK /\ CallInv
  BY DEF IInv
<1>2. TypeOK' /\ CallInv'
  BY <1>1 DEF Release, Goto, TypeOK, CallInv, Call
<1>3. \A q \in Runtime : pc'[q] = "mark" => pc[q] = "mark" /\ todo'[q] = todo[q]
  BY <1>1 DEF Release, Goto, TypeOK
<1>4. \A q \in Runtime : Answers(q)' => Answers(q) /\ call'[q] = call[q]
  BY <1>1 DEF Release, Goto, TypeOK, CallInv, Answers
<1>5. QED
  BY <1>2, <1>3, <1>4, ForgetKeeps DEF Release

LEMMA CrashKeeps == ASSUME Assumptions, IInv, NEW r \in Runtime, Crash(r) PROVE IInv'
<1>1. TypeOK /\ CallInv /\ MaxFaults \in Nat
  BY DEF IInv, Assumptions, FaultAssumption
<1>2. faults' \in 0 .. MaxFaults
  BY <1>1 DEF Crash, Spend, TypeOK
<1>3. lease' \in [holder : Runtime \cup {Dead}, lapsed : BOOLEAN] \cup {NoLease}
  <2>1. CASE lease # NoLease /\ lease.holder = r
    <3>1. lease \in [holder : Runtime \cup {Dead}, lapsed : BOOLEAN]
      BY <1>1, <2>1 DEF TypeOK
    <3>2. QED
      BY <2>1, <3>1 DEF Crash
  <2>2. CASE ~(lease # NoLease /\ lease.holder = r)
    BY <1>1, <2>2 DEF Crash, TypeOK
  <2>3. QED
    BY <2>1, <2>2
<1>4. /\ pc' \in [Runtime -> {"idle", "update", "load", "flush", "mark", "release"}]
      /\ \A q \in Runtime : call'[q] = NoCall <=> pc'[q] = "idle"
      /\ todo' \in [Runtime -> SUBSET (1 .. Len(run'.outbox))]
      /\ work' \in [Worker -> [task : Task, claim : Token \cup {NoClaim}] \cup {NoWork}]
      /\ CallInv'
  BY <1>1 DEF Crash, TypeOK, CallInv, Call
<1>5. TypeOK'
  BY <1>1, <1>2, <1>3, <1>4 DEF TypeOK, Crash
<1>6. \A q \in Runtime : pc'[q] = "mark" => pc[q] = "mark" /\ todo'[q] = todo[q]
  BY <1>1 DEF Crash, TypeOK
<1>7. \A q \in Runtime : Answers(q)' => Answers(q) /\ call'[q] = call[q]
  BY <1>1 DEF Crash, TypeOK, CallInv, Answers
<1>8. \A w \in Worker : work'[w] \in {work[w], NoWork}
  BY <1>1 DEF Crash, TypeOK
<1>9. QED
  BY <1>4, <1>5, <1>6, <1>7, <1>8, ForgetKeeps DEF Crash

LEMMA HandlerFailsKeeps == ASSUME Assumptions, IInv, NEW w \in Worker, HandlerFails(w) PROVE IInv'
<1>1. TypeOK /\ CallInv /\ MaxFaults \in Nat
  BY DEF IInv, Assumptions, FaultAssumption
<1>2. TypeOK' /\ CallInv'
  BY <1>1 DEF HandlerFails, Spend, TypeOK, CallInv
<1>3. \A v \in Worker : work'[v] \in {work[v], NoWork}
  BY <1>1 DEF HandlerFails, TypeOK
<1>4. \A q \in Runtime : Answers(q)' => Answers(q)
  BY DEF HandlerFails, Answers
<1>5. QED
  BY <1>2, <1>3, <1>4, ForgetKeeps DEF HandlerFails

LEMMA LapseKeeps == ASSUME Assumptions, IInv, LeaseLapses \/ DeadLeaseLapses PROVE IInv'
<1>1. TypeOK /\ CallInv /\ MaxFaults \in Nat
  BY DEF IInv, Assumptions, FaultAssumption
<1>2. faults' \in 0 .. MaxFaults
  BY <1>1 DEF LeaseLapses, DeadLeaseLapses, Spend, TypeOK
<1>3. /\ lease # NoLease /\ lease' = [lease EXCEPT !.lapsed = TRUE]
      /\ run' = run /\ mail' = mail /\ pc' = pc /\ call' = call /\ todo' = todo /\ work' = work
  BY DEF LeaseLapses, DeadLeaseLapses
<1>4. lease' \in [holder : Runtime \cup {Dead}, lapsed : BOOLEAN]
  <2>1. lease \in [holder : Runtime \cup {Dead}, lapsed : BOOLEAN]
    BY <1>1, <1>3 DEF TypeOK
  <2>2. QED
    BY <2>1, <1>3
<1>5. TypeOK' /\ CallInv'
  BY <1>1, <1>2, <1>3, <1>4 DEF TypeOK, CallInv
<1>6. \A q \in Runtime : Answers(q)' => Answers(q)
  BY <1>3 DEF Answers
<1>7. QED
  BY <1>3, <1>5, <1>6, ForgetKeeps

-----------------------------------------------------------------------------
(***************************************************************************)
(* The invariant: steps that write the mailbox.                            *)
(***************************************************************************)
\* The oldest intent of a flush is in the outbox.
LEMMA NextIntentIs ==
  ASSUME TypeOK, NEW r \in Runtime, todo[r] # {}
  PROVE  /\ Min(todo[r]) \in todo[r] /\ Min(todo[r]) \in 1 .. Len(run.outbox)
         /\ NextIntent(r) \in Intent /\ NextIntent(r) = run.outbox[Min(todo[r])]
<1>1. todo[r] \subseteq 1 .. Len(run.outbox) /\ run.outbox \in Seq(Intent)
  BY DEF TypeOK, RunRecord
<1>2. todo[r] \subseteq Nat
  BY <1>1
<1>3. \E k \in todo[r] : \A l \in todo[r] : k <= l
  BY ONLY <1>2, todo[r] # {}, LeastMember
<1>4. Min(todo[r]) \in todo[r]
  BY <1>3 DEF Min
<1>5. QED
  BY <1>1, <1>4 DEF NextIntent

\* A message keeps its end, and once it is there it stays.
Grows(t) ==
  \/ mail'[t].status = mail[t].status
  \/ mail[t].status \notin Terminal /\ mail'[t].status # "none"

\* So what the mailbox shows it goes on to show.
LEMMA GrowthShows ==
  ASSUME TypeOK, run' = run, PublishedIsInMailbox, MarkInv,
         \A t \in Task : Grows(t),
         \A r \in Runtime : pc'[r] = "mark" =>
           \/ pc[r] = "mark" /\ todo'[r] = todo[r]
           \/ todo'[r] # {} /\ IsInMailbox(NextIntent(r))'
  PROVE  PublishedIsInMailbox' /\ MarkInv'
<1>1. ASSUME NEW i \in Intent, IsInMailbox(i) PROVE IsInMailbox(i)'
  <2>1. i.task \in Task /\ i.status \in Terminal /\ i.status # "none"
    BY DEF Intent, Terminal
  <2>2. QED
    BY <1>1, <2>1 DEF IsInMailbox, Grows
<1>2. PublishedIsInMailbox'
  <2>1. \A k \in 1 .. Len(run.outbox) : run.outbox[k] \in Intent
    BY DEF TypeOK, RunRecord
  <2>2. QED
    BY <2>1, <1>1 DEF PublishedIsInMailbox
<1>3. MarkInv'
  <2>1. ASSUME NEW r \in Runtime, pc'[r] = "mark", pc[r] = "mark", todo'[r] = todo[r]
        PROVE  todo'[r] # {} /\ IsInMailbox(NextIntent(r))'
    <3>1. todo[r] # {} /\ IsInMailbox(NextIntent(r)) /\ NextIntent(r) \in Intent
      BY <2>1, NextIntentIs DEF MarkInv
    <3>2. NextIntent(r)' = NextIntent(r)
      BY <2>1 DEF NextIntent
    <3> DEFINE i == NextIntent(r)
    <3>3. IsInMailbox(i)'
      BY <3>1, <3>2, <1>1 DEF IsInMailbox
    <3>4. QED
      BY <2>1, <3>1, <3>3
  <2>2. QED
    BY <2>1 DEF MarkInv
<1>4. QED
  BY <1>2, <1>3

\* Whoever has a message still has it when messages only come and end.
LEMMA HoldersStay ==
  ASSUME TypeOK, CallInv, HolderInv, run' = run, work' = work, call' = call,
         \A r \in Runtime : Answers(r)' => Answers(r),
         \A t \in Task : mail[t].status # "none" => mail'[t].status # "none"
  PROVE  HolderInv'
<1>1. ASSUME NEW w \in Worker, work[w] # NoWork PROVE mail'[work[w].task].status # "none"
  <2>1. work[w].task \in Task
    BY <1>1 DEF TypeOK
  <2>2. QED
    BY <1>1, <2>1 DEF HolderInv
<1>2. ASSUME NEW r \in Runtime, Answers(r) PROVE mail'[call[r].task].status # "none"
  <2>1. call[r] \in Call /\ call[r].kind = "complete" /\ call[r].task # NoTask
    BY <1>2 DEF CallInv, Answers
  <2>2. call[r].task \in Task
    BY <2>1 DEF Call, NoCall
  <2>3. QED
    BY <1>2, <2>2 DEF HolderInv
<1>3. ASSUME NEW k \in 1 .. Len(run.outbox), mail'[run.outbox[k].task].status = "none"
      PROVE  run.outbox[k].kind = "enqueue"
  <2>1. run.outbox \in Seq(Intent)
    BY DEF TypeOK, RunRecord
  <2>2. run.outbox[k] \in Intent
    BY <2>1
  <2>3. run.outbox[k].task \in Task
    BY <2>2 DEF Intent
  <2>4. QED
    BY <1>3, <2>3 DEF HolderInv
<1>4. QED
  BY <1>1, <1>2, <1>3 DEF HolderInv

LEMMA PublishEnqueueKeeps ==
  ASSUME Assumptions, IInv, NEW r \in Runtime, PublishEnqueue(r) PROVE IInv'
<1> DEFINE i == NextIntent(r)
           k == Min(todo[r])
           t == i.task
<1>1. TypeOK /\ CallInv /\ RunInv /\ MailInv /\ HolderInv /\ OnceInv /\ PublishedIsInMailbox /\ MarkInv
  BY DEF IInv
<1>2. /\ k \in 1 .. Len(run.outbox) /\ i \in Intent /\ i = run.outbox[k] /\ i.kind = "enqueue"
      /\ t \in Task /\ mail' = [mail EXCEPT ![t] = Enqueued(@)] /\ pc[r] = "flush"
      /\ todo[r] # {}
  BY <1>1, NextIntentIs DEF PublishEnqueue, Intent
<1>3. run' = run /\ call' = call /\ todo' = todo /\ work' = work /\ pc' = [pc EXCEPT ![r] = "mark"]
  BY DEF PublishEnqueue, Goto
<1>4. t \in run.delivered
  BY <1>1, <1>2 DEF RunInv, OutboxInv, Intents
<1> HIDE DEF i, k
<1>5. /\ mail' \in [Task -> Mail] /\ mail'[t].status # "none"
      /\ mail[t].status # "none" => mail'[t] = mail[t]
      /\ mail[t].status = "none" => mail'[t].status = "queued" /\ mail'[t].claim = mail[t].claim
      /\ \A u \in Task : u # t => mail'[u] = mail[u]
  <2>1. mail[t] \in Mail
    BY <1>1, <1>2 DEF TypeOK
  <2>2. /\ Enqueued(mail[t]) \in Mail /\ Enqueued(mail[t]).status # "none"
        /\ mail[t].status # "none" => Enqueued(mail[t]) = mail[t]
        /\ mail[t].status = "none" => Enqueued(mail[t]).status = "queued" /\ Enqueued(mail[t]).claim = mail[t].claim
    BY <2>1 DEF Enqueued, Mail, MailStatus
  <2>3. QED
    BY <2>2, <1>1, <1>2 DEF TypeOK
<1>6. TypeOK' /\ CallInv'
  BY SMTT(60), <1>1, <1>2, <1>3, <1>5 DEF TypeOK, CallInv, PublishEnqueue
<1>7. RunInv'
  BY <1>1, <1>3, RunFrame
<1>8. MailInv'
  BY <1>1, <1>3, <1>4, <1>5 DEF MailInv, Intents, Terminal
<1>9. PublishedIsInMailbox' /\ MarkInv'
  <2>1. \A u \in Task : Grows(u)
    BY <1>5 DEF Grows, Terminal
  <2>2. \A q \in Runtime : pc'[q] = "mark" => q = r \/ pc[q] = "mark"
    BY <1>1, <1>3 DEF TypeOK
  <2>3. NextIntent(r)' = i
    BY <1>3 DEF NextIntent, i
  <2>4. IsInMailbox(NextIntent(r))'
    BY <2>3, <1>2, <1>5 DEF IsInMailbox
  <2>5. QED
    BY <2>1, <2>2, <2>4, <1>1, <1>2, <1>3, GrowthShows
<1>10. HolderInv'
  <2>1. \A q \in Runtime : Answers(q)' => Answers(q)
    BY <1>1, <1>3 DEF TypeOK, Answers
  <2>2. QED
    BY <2>1, <1>1, <1>3, <1>5, HoldersStay
<1>11. OnceInv'
  <2>1. \A q \in Runtime : Answers(q)' => Answers(q)
    BY <1>1, <1>3 DEF TypeOK, Answers
  <2>2. ASSUME ~ClaimLeases, NEW u \in Task PROVE GivenOnce(u)'
    <3>1. GivenOnce(u)
      BY <2>2, <1>1 DEF OnceInv
    <3>2. mail'[u].claim = NoClaim
      BY <3>1, <1>5 DEF GivenOnce
    <3>3. mail[u].status \notin {"none", "queued"} => mail'[u].status \notin {"none", "queued"}
      BY <1>5
    <3>4. QED
      BY <3>1, <3>2, <3>3, <2>1, <1>3 DEF GivenOnce
  <2>3. QED
    BY <2>2 DEF OnceInv
<1>12. QED
  BY <1>6, <1>7, <1>8, <1>9, <1>10, <1>11 DEF IInv

\* A message that has another end than an intent says is not there to complete: its own
\* intent is the only one.
LEMMA CompleteIsFirst ==
  ASSUME TypeOK, OutboxInv, MailInv, NEW r \in Runtime, todo[r] # {},
         NextIntent(r).kind = "complete", ~CompletionIsReplayed(NextIntent(r))
  PROVE  mail[NextIntent(r).task].status \in {"queued", "delivered"}
<1> DEFINE i == NextIntent(r)
<1>1. i \in Intent /\ i = run.outbox[Min(todo[r])] /\ Min(todo[r]) \in 1 .. Len(run.outbox)
  BY NextIntentIs
<1>2. mail[i.task] \in Mail /\ i.task \in Task
  BY <1>1 DEF TypeOK, Intent
<1>3. CASE mail[i.task].status \in Terminal
  <2>1. PICK k \in Intents("complete", i.task) : run.outbox[k].status = mail[i.task].status
    BY <1>2, <1>3 DEF MailInv
  <2>2. k \in 1 .. Len(run.outbox) /\ run.outbox[k].kind = "complete" /\ run.outbox[k].task = i.task
    BY DEF Intents
  <2>3. k = Min(todo[r])
    BY <1>1, <2>2 DEF OutboxInv
  <2>4. QED
    BY <2>1, <2>3, <1>1 DEF CompletionIsReplayed
<1>4. CASE mail[i.task].status \notin Terminal
  BY <1>2, <1>4 DEF Mail, MailStatus, CompletionIsReplayed
<1>5. QED
  BY <1>3, <1>4

LEMMA PublishCompleteKeeps ==
  ASSUME Assumptions, IInv, NEW r \in Runtime, PublishComplete(r) PROVE IInv'
<1> DEFINE i == NextIntent(r)
           k == Min(todo[r])
           t == i.task
<1>1. /\ TypeOK /\ CallInv /\ RunInv /\ MailInv /\ HolderInv /\ OnceInv /\ PublishedIsInMailbox
      /\ MarkInv /\ OutboxInv
  BY DEF IInv, RunInv
<1>2. /\ k \in 1 .. Len(run.outbox) /\ i \in Intent /\ i = run.outbox[k] /\ i.kind = "complete"
      /\ t \in Task /\ i.status \in Terminal /\ pc[r] = "flush" /\ todo[r] # {}
  BY <1>1, NextIntentIs DEF PublishComplete, Intent
<1>3. run' = run /\ call' = call /\ todo' = todo /\ work' = work /\ pc' = [pc EXCEPT ![r] = "mark"]
  BY DEF PublishComplete, Goto
<1>4. k \in Intents("complete", t) /\ mail[t].status # "none" /\ mail[t] \in Mail
  BY <1>1, <1>2 DEF Intents, HolderInv, TypeOK
<1>5. /\ mail' \in [Task -> Mail] /\ mail'[t].status = i.status
      /\ \/ mail' = mail
         \/ mail[t].status \in {"queued", "delivered"} /\ mail'[t].claim = NoClaim
      /\ \A u \in Task : u # t => mail'[u] = mail[u]
  <2>1. CASE CompletionIsReplayed(i)
    BY <2>1, <1>1, <1>4 DEF PublishComplete, CompletionIsReplayed, TypeOK
  <2>2. CASE ~CompletionIsReplayed(i)
    <3>1. mail' = [mail EXCEPT ![t] = [NoMail EXCEPT !.status = i.status]]
      BY <2>2 DEF PublishComplete
    <3>2. [NoMail EXCEPT !.status = i.status] \in Mail
      BY <1>2 DEF NoMail, Mail, MailStatus
    <3>3. mail[t].status \in {"queued", "delivered"}
      BY <2>2, <1>1, <1>2, CompleteIsFirst
    <3>4. [NoMail EXCEPT !.status = i.status].claim = NoClaim
          /\ [NoMail EXCEPT !.status = i.status].status = i.status
      BY DEF NoMail
    <3>5. QED
      BY <3>1, <3>2, <3>3, <3>4, <1>1, <1>2 DEF TypeOK
  <2>3. QED
    BY <2>1, <2>2
<1> HIDE DEF i, k
<1>6. TypeOK' /\ CallInv'
  BY <1>1, <1>2, <1>3, <1>5 DEF TypeOK, CallInv, PublishComplete
<1>7. RunInv'
  BY <1>1, <1>3, RunFrame
<1>8. MailInv'
  <2>1. \A u \in Task : mail'[u].status # "none" => u \in run.delivered
    BY <1>1, <1>4, <1>5 DEF MailInv
  <2>2. ASSUME NEW u \in Task, mail'[u].status \in Terminal
        PROVE  \E l \in Intents("complete", u) : run.outbox[l].status = mail'[u].status
    <3>1. CASE u = t
      BY <3>1, <1>2, <1>4, <1>5
    <3>2. CASE u # t
      BY <3>2, <2>2, <1>1, <1>5 DEF MailInv
    <3>3. QED
      BY <3>1, <3>2
  <2>3. \A u \in Task : Intents("complete", u)' = Intents("complete", u)
    BY <1>3 DEF Intents
  <2>4. QED
    BY <2>1, <2>2, <2>3, <1>3 DEF MailInv
<1>9. i.status \notin {"none", "queued", "delivered"}
  BY <1>2 DEF Terminal
<1>10. PublishedIsInMailbox' /\ MarkInv'
  <2>1. \A u \in Task : Grows(u)
    BY <1>5, <1>9 DEF Grows, Terminal
  <2>2. \A q \in Runtime : pc'[q] = "mark" => q = r \/ pc[q] = "mark"
    BY <1>1, <1>3 DEF TypeOK
  <2>3. NextIntent(r)' = i
    BY <1>3 DEF NextIntent, i
  <2>4. IsInMailbox(NextIntent(r))'
    BY <2>3, <1>2, <1>5 DEF IsInMailbox
  <2>5. QED
    BY <2>1, <2>2, <2>4, <1>1, <1>2, <1>3, GrowthShows
<1>11. \A q \in Runtime : Answers(q)' => Answers(q)
  BY <1>1, <1>3 DEF TypeOK, Answers
<1>12. \A u \in Task : mail[u].status # "none" => mail'[u].status # "none"
  BY <1>5, <1>9
<1>13. HolderInv'
  BY <1>11, <1>12, <1>1, <1>3, HoldersStay
<1>14. OnceInv'
  <2>1. ASSUME ~ClaimLeases, NEW u \in Task PROVE GivenOnce(u)'
    <3>1. GivenOnce(u)
      BY <2>1, <1>1 DEF OnceInv
    <3>2. mail'[u].claim = NoClaim
      BY <3>1, <1>5 DEF GivenOnce
    <3>3. mail[u].status \notin {"none", "queued"} => mail'[u].status \notin {"none", "queued"}
      BY <1>5, <1>9
    <3>4. QED
      BY <3>1, <3>2, <3>3, <1>11, <1>3 DEF GivenOnce
  <2>2. QED
    BY <2>1 DEF OnceInv
<1>15. QED
  BY <1>6, <1>7, <1>8, <1>10, <1>13, <1>14 DEF IInv

\* A worker is given a message that nobody has, or whose claim has run out.
LEMMA ClaimKeeps == ASSUME Assumptions, IInv, NEW w \in Worker, Claim(w) PROVE IInv'
<1>1. /\ TypeOK /\ CallInv /\ RunInv /\ MailInv /\ HolderInv /\ OnceInv /\ PublishedIsInMailbox
      /\ MarkInv /\ OutboxInv
  BY DEF IInv, RunInv
<1>2. PICK t \in Task :
        /\ Claimable(t)
        /\ \E c \in IF ClaimLeases THEN Token \ Remembered ELSE {NoClaim} :
             /\ mail' = [mail EXCEPT ![t] = [status |-> "delivered", claim |-> c, lapsed |-> FALSE]]
             /\ work' = [work EXCEPT ![w] = [task |-> t, claim |-> c]]
  BY DEF Claim
<1>3. PICK c \in IF ClaimLeases THEN Token \ Remembered ELSE {NoClaim} :
        /\ mail' = [mail EXCEPT ![t] = [status |-> "delivered", claim |-> c, lapsed |-> FALSE]]
        /\ work' = [work EXCEPT ![w] = [task |-> t, claim |-> c]]
  BY <1>2
<1>4. c \in Token \cup {NoClaim} /\ (~ClaimLeases => c = NoClaim)
  OBVIOUS
<1>5. /\ run' = run /\ lease' = lease /\ pc' = pc /\ call' = call /\ todo' = todo
      /\ faults' = faults /\ work[w] = NoWork
  BY DEF Claim, IsFree
<1>6. mail[t].status \in {"queued", "delivered"}
  BY <1>2 DEF Claimable
<1>7. /\ mail' \in [Task -> Mail] /\ mail'[t].status = "delivered" /\ mail'[t].claim = c
      /\ \A u \in Task : u # t => mail'[u] = mail[u]
  <2>1. [status |-> "delivered", claim |-> c, lapsed |-> FALSE] \in Mail
    BY <1>4 DEF Mail, MailStatus
  <2>2. QED
    BY <2>1, <1>1, <1>3 DEF TypeOK
<1>8. /\ work' \in [Worker -> [task : Task, claim : Token \cup {NoClaim}] \cup {NoWork}]
      /\ work'[w].task = t /\ \A v \in Worker : v # w => work'[v] = work[v]
  BY <1>1, <1>3, <1>4 DEF TypeOK
<1>9. TypeOK' /\ CallInv'
  BY <1>1, <1>5, <1>7, <1>8 DEF TypeOK, CallInv
<1>10. RunInv'
  BY <1>1, <1>5, RunFrame
<1>11. MailInv'
  BY <1>1, <1>5, <1>6, <1>7 DEF MailInv, Intents, Terminal
<1>12. PublishedIsInMailbox' /\ MarkInv'
  <2>1. \A u \in Task : Grows(u)
    BY <1>6, <1>7 DEF Grows, Terminal
  <2>2. QED
    BY <2>1, <1>1, <1>5, GrowthShows
<1>13. \A r \in Runtime : Answers(r)' <=> Answers(r)
  BY <1>5 DEF Answers
<1>14. HolderInv'
  <2>1. \A v \in Worker : work'[v] # NoWork => mail'[work'[v].task].status # "none"
    <3>1. ASSUME NEW v \in Worker, v # w, work[v] # NoWork
          PROVE  mail'[work[v].task].status # "none"
      <4>1. work[v].task \in Task /\ mail[work[v].task].status # "none"
        BY <3>1, <1>1 DEF TypeOK, HolderInv
      <4>2. QED
        BY <4>1, <1>7
    <3>2. QED
      BY <3>1, <1>7, <1>8
  <2>2. \A r \in Runtime : Answers(r) => mail'[call[r].task].status # "none"
    <3>1. ASSUME NEW r \in Runtime, Answers(r) PROVE mail'[call[r].task].status # "none"
      <4>1. call[r] \in Call /\ call[r].kind = "complete" /\ call[r].task # NoTask
        BY <3>1, <1>1 DEF CallInv, Answers
      <4>2. call[r].task \in Task /\ mail[call[r].task].status # "none"
        BY <4>1, <3>1, <1>1 DEF Call, NoCall, HolderInv
      <4>3. QED
        BY <4>2, <1>7
    <3>2. QED
      BY <3>1
  <2>3. ASSUME NEW k \in 1 .. Len(run.outbox), mail'[run.outbox[k].task].status = "none"
        PROVE  run.outbox[k].kind = "enqueue"
    <3>1. run.outbox \in Seq(Intent)
      BY <1>1 DEF TypeOK, RunRecord
    <3>2. run.outbox[k] \in Intent
      BY <3>1
    <3>3. run.outbox[k].task \in Task
      BY <3>2 DEF Intent
    <3>4. QED
      BY <3>3, <2>3, <1>1, <1>7 DEF HolderInv
  <2>4. QED
    BY <2>1, <2>2, <2>3, <1>5, <1>13 DEF HolderInv
<1>15. OnceInv'
  <2>1. ASSUME ~ClaimLeases, NEW u \in Task PROVE GivenOnce(u)'
    <3>1. GivenOnce(u) /\ GivenOnce(t)
      BY <2>1, <1>1 DEF OnceInv
    <3>2. CASE u # t
      <4>1. \A v \in Worker : work'[v].task = u => work[v].task = u /\ v # w
        BY <3>2, <1>8
      <4>2. QED
        BY <3>1, <3>2, <4>1, <1>5, <1>7, <1>13 DEF GivenOnce
    <3>3. CASE u = t
      <4>1. mail[t].status = "queued"
        BY <3>1, <1>2 DEF GivenOnce, Claimable
      <4>2. /\ \A v \in Worker : work[v].task # t
            /\ \A r \in Runtime : Answers(r) => call[r].task # t
            /\ ~(run.completions[t] > 0)
        BY <3>1, <4>1 DEF GivenOnce
      <4>3. run.completions[t] = 0
        BY <4>2, <1>1 DEF TypeOK, RunRecord
      <4>4. mail'[t].claim = NoClaim
        BY <2>1, <1>4, <1>7
      <4>5. \A v \in Worker : work'[v].task = t => v = w
        BY <4>2, <1>8
      <4>6. QED
        BY <3>3, <4>2, <4>3, <4>4, <4>5, <1>5, <1>7, <1>13 DEF GivenOnce
    <3>4. QED
      BY <3>2, <3>3
  <2>2. QED
    BY <2>1 DEF OnceInv
<1>16. QED
  BY <1>9, <1>10, <1>11, <1>12, <1>14, <1>15 DEF IInv

LEMMA ExpiryKeeps ==
  ASSUME Assumptions, IInv, NEW t \in Task, ClaimLapses(t) \/ AbandonedClaimLapses(t)
  PROVE  IInv'
<1>1. /\ TypeOK /\ CallInv /\ RunInv /\ MailInv /\ HolderInv /\ OnceInv /\ PublishedIsInMailbox
      /\ MarkInv /\ MaxFaults \in Nat
  BY DEF IInv, Assumptions, FaultAssumption
<1>2. /\ mail' = [mail EXCEPT ![t].lapsed = TRUE] /\ run' = run /\ lease' = lease /\ pc' = pc
      /\ call' = call /\ todo' = todo /\ work' = work
  BY DEF ClaimLapses, AbandonedClaimLapses, ClaimExpires
<1>3. faults' \in 0 .. MaxFaults
  BY <1>1 DEF ClaimLapses, AbandonedClaimLapses, Spend, TypeOK
<1>4. mail' \in [Task -> Mail]
  <2>1. mail[t] \in Mail
    BY <1>1 DEF TypeOK
  <2>2. [mail[t] EXCEPT !.lapsed = TRUE] \in Mail
    BY <2>1 DEF Mail
  <2>3. QED
    BY <2>2, <1>1, <1>2 DEF TypeOK
<1>5. \A u \in Task : mail'[u].status = mail[u].status /\ mail'[u].claim = mail[u].claim
  <2>1. mail[t] \in Mail
    BY <1>1 DEF TypeOK
  <2>2. QED
    BY <2>1, <1>1, <1>2 DEF TypeOK, Mail
<1>6. TypeOK' /\ CallInv'
  BY <1>1, <1>2, <1>3, <1>4 DEF TypeOK, CallInv
<1>7. RunInv'
  BY <1>1, <1>2, RunFrame
<1>8. MailInv'
  BY <1>1, <1>2, <1>5 DEF MailInv, Intents
<1>9. PublishedIsInMailbox' /\ MarkInv'
  BY <1>1, <1>2, <1>5, GrowthShows DEF Grows
<1>10. \A r \in Runtime : Answers(r)' <=> Answers(r)
  BY <1>2 DEF Answers
<1>11. HolderInv'
  BY <1>1, <1>2, <1>5, <1>10, HoldersStay
<1>12. OnceInv'
  BY <1>1, <1>2, <1>5, <1>10 DEF OnceInv, GivenOnce
<1>13. QED
  BY <1>6, <1>7, <1>8, <1>9, <1>11, <1>12 DEF IInv

-----------------------------------------------------------------------------
(***************************************************************************)
(* The invariant: steps that write the run record.                         *)
(***************************************************************************)
\* The outbox only grows, by intents that are not published yet and whose message is
\* there if it has a result.
Extends(x) ==
  /\ \A k \in 1 .. Len(run.outbox) : k \in 1 .. Len(x.outbox) /\ x.outbox[k] = run.outbox[k]
  /\ \A k \in 1 .. Len(x.outbox) :
       \/ k \in 1 .. Len(run.outbox)
       \/ /\ ~x.outbox[k].published
          /\ x.outbox[k].kind = "complete" => mail[x.outbox[k].task].status # "none"

\* An update of runtime r that extends the outbox: all but the run record and OnceInv.
LEMMA UpdateFrame ==
  ASSUME Assumptions, IInv, NEW r \in Runtime, NEW x \in RunRecord, Extends(x),
         pc[r] = "update", run' = x, run.delivered \subseteq x.delivered,
         \/ pc' = [pc EXCEPT ![r] = "load"]
         \/ pc' = [pc EXCEPT ![r] = "release"],
         UNCHANGED <<mail, lease, call, todo, work, faults>>
  PROVE  /\ TypeOK' /\ CallInv' /\ MailInv' /\ PublishedIsInMailbox' /\ HolderInv' /\ MarkInv'
         /\ \A q \in Runtime : Answers(q)' <=> Answers(q) /\ q # r
<1>1. /\ TypeOK /\ CallInv /\ MailInv /\ HolderInv /\ PublishedIsInMailbox /\ MarkInv
  BY DEF IInv
<1>2. /\ pc'[r] \in {"load", "release"} /\ \A q \in Runtime : q # r => pc'[q] = pc[q]
      /\ pc' \in [Runtime -> {"idle", "update", "load", "flush", "mark", "release"}]
  BY <1>1 DEF TypeOK
<1>3. \A q \in Runtime : todo'[q] \subseteq 1 .. Len(x.outbox)
  BY <1>1 DEF TypeOK, Extends
<1>4. TypeOK'
  <2>1. \A q \in Runtime : call'[q] = NoCall <=> pc'[q] = "idle"
    BY <1>1, <1>2 DEF TypeOK
  <2>2. todo' \in [Runtime -> SUBSET (1 .. Len(run'.outbox))]
    BY <1>1, <1>3 DEF TypeOK
  <2>3. QED
    BY <1>1, <1>2, <2>1, <2>2 DEF TypeOK
<1>5. CallInv'
  BY <1>1, <1>2 DEF CallInv
<1>6. \A q \in Runtime : Answers(q)' <=> Answers(q) /\ q # r
  BY <1>2 DEF Answers
<1>7. MailInv'
  <2>1. ASSUME NEW t \in Task, mail[t].status \in Terminal
        PROVE  \E k \in Intents("complete", t)' : x.outbox[k].status = mail[t].status
    <3>1. PICK k \in Intents("complete", t) : run.outbox[k].status = mail[t].status
      BY <2>1, <1>1 DEF MailInv
    <3>2. k \in Intents("complete", t)' /\ x.outbox[k] = run.outbox[k]
      BY DEF Intents, Extends
    <3>3. QED
      BY <3>1, <3>2
  <2>2. QED
    BY <2>1, <1>1 DEF MailInv
<1>8. PublishedIsInMailbox'
  <2>1. ASSUME NEW k \in 1 .. Len(x.outbox), x.outbox[k].published
        PROVE  IsInMailbox(x.outbox[k])'
    <3>1. k \in 1 .. Len(run.outbox) /\ x.outbox[k] = run.outbox[k]
      BY <2>1 DEF Extends
    <3>2. QED
      BY <2>1, <3>1, <1>1 DEF PublishedIsInMailbox, IsInMailbox
  <2>2. QED
    BY <2>1 DEF PublishedIsInMailbox
<1>9. HolderInv'
  <2>1. ASSUME NEW k \in 1 .. Len(x.outbox), mail[x.outbox[k].task].status = "none"
        PROVE  x.outbox[k].kind = "enqueue"
    <3>1. x.outbox \in Seq(Intent)
      BY DEF RunRecord
    <3>2. x.outbox[k] \in Intent
      BY <3>1
    <3>3. x.outbox[k].kind \in {"enqueue", "complete"}
      BY <3>2 DEF Intent
    <3>4. QED
      BY <2>1, <3>3, <1>1 DEF Extends, HolderInv
  <2>2. QED
    BY <2>1, <1>1, <1>6 DEF HolderInv
<1>10. MarkInv'
  <2>1. ASSUME NEW q \in Runtime, pc'[q] = "mark"
        PROVE  todo'[q] # {} /\ IsInMailbox(NextIntent(q))'
    <3>1. pc[q] = "mark" /\ todo[q] # {} /\ IsInMailbox(NextIntent(q)) /\ todo'[q] = todo[q]
      BY <2>1, <1>1, <1>2 DEF MarkInv
    <3>2. Min(todo[q]) \in 1 .. Len(run.outbox)
      BY <3>1, <1>1, NextIntentIs
    <3>3. NextIntent(q)' = NextIntent(q)
      BY <3>1, <3>2 DEF NextIntent, Extends
    <3>4. QED
      BY <3>1, <3>3 DEF IsInMailbox
  <2>2. QED
    BY <2>1 DEF MarkInv
<1>11. QED
  BY <1>4, <1>5, <1>6, <1>7, <1>8, <1>9, <1>10

\* What recording an intent does to the outbox.
LEMMA RecordedExtends ==
  ASSUME TypeOK, OutboxInv, NEW x \in RunRecord, NEW kind, NEW t \in Task,
         NEW status, NEW claim, Recorded(x, kind, t, status, claim),
         kind = "complete" => mail[t].status # "none", run' = x
  PROVE  /\ Extends(x)
         /\ \A k, l \in 1 .. Len(x.outbox) :
              x.outbox[k].kind = x.outbox[l].kind /\ x.outbox[k].task = x.outbox[l].task => k = l
         /\ Intents(kind, t)' # {}
         /\ \A u \in Task : u # t => (Intents(kind, u)' # {} <=> Intents(kind, u) # {})
         /\ \A u \in Task, other \in {"enqueue", "complete"} : other # kind =>
              (Intents(other, u)' # {} <=> Intents(other, u) # {})
<1>1. run.outbox \in Seq(Intent) /\ Len(run.outbox) \in Nat
  BY DEF TypeOK, RunRecord
<1>2. CASE Intents(kind, t) # {}
  <2>1. x.outbox = run.outbox
    BY <1>2 DEF Recorded
  <2>2. QED
    BY <1>2, <2>1 DEF Extends, OutboxInv, Intents
<1>3. CASE Intents(kind, t) = {}
  <2> DEFINE i == [kind |-> kind, task |-> t, status |-> status, claim |-> claim,
                   published |-> FALSE]
             n == Len(run.outbox)
  <2>1. x.outbox = Append(run.outbox, i)
    BY <1>3 DEF Recorded
  <2>2. i.kind = kind /\ i.task = t /\ i.published = FALSE
    OBVIOUS
  <2> HIDE DEF i
  <2>3. /\ Len(x.outbox) = n + 1 /\ x.outbox[n + 1] = i
        /\ \A k \in 1 .. n : k \in 1 .. Len(x.outbox) /\ x.outbox[k] = run.outbox[k]
        /\ \A k \in 1 .. Len(x.outbox) : k \in 1 .. n \/ k = n + 1
    BY <1>1, <2>1
  <2>4. Extends(x)
    BY <2>2, <2>3 DEF Extends
  <2>5. \A k \in 1 .. n : ~(run.outbox[k].kind = kind /\ run.outbox[k].task = t)
    BY <1>3 DEF Intents
  <2>6. n + 1 \in Intents(kind, t)'
    BY <1>1, <2>2, <2>3 DEF Intents
  <2>7. \A u \in Task, other \in {"enqueue", "complete", kind} : other # kind \/ u # t =>
          Intents(other, u)' = Intents(other, u)
    BY <2>2, <2>3 DEF Intents
  <2>8. \A k, l \in 1 .. Len(x.outbox) :
          x.outbox[k].kind = x.outbox[l].kind /\ x.outbox[k].task = x.outbox[l].task => k = l
    <3> DEFINE Same(f, k, l) == f[k].kind = f[l].kind /\ f[k].task = f[l].task
    <3>1. ASSUME NEW k \in 1 .. n, NEW l \in 1 .. n, Same(x.outbox, k, l) PROVE k = l
      <4>1. Same(run.outbox, k, l)
        BY <3>1, <2>3
      <4>2. QED
        BY <4>1 DEF OutboxInv
    <3>2. ASSUME NEW k \in 1 .. n PROVE ~Same(x.outbox, k, n + 1) /\ ~Same(x.outbox, n + 1, k)
      BY <2>2, <2>3, <2>5
    <3>3. QED
      BY <2>3, <3>1, <3>2
  <2>9. QED
    BY <2>4, <2>6, <2>7, <2>8
<1>4. QED
  BY <1>2, <1>3

\* A handoff, a completion and an external completion of runtime r, in turn.
LEMMA HandoffKeeps ==
  ASSUME Assumptions, IInv, NEW r \in Runtime, NEW t \in Task, NEW x,
         HandoffIsRepeated(run, t) \/ HandoffIsLegal(run, t),
         x = Updated([kind |-> "handoff", task |-> t]), call[r].kind # "complete",
         pc[r] = "update", run' = x, pc' = [pc EXCEPT ![r] = "load"],
         UNCHANGED <<mail, lease, call, todo, work, faults>>
  PROVE  IInv' /\ Kind[run.node] # "terminate"
<1>1. /\ TypeOK /\ CallInv /\ RunInv /\ OutboxInv /\ OnceInv /\ AnsweredInv /\ AcceptedOnce
      /\ run.node \in Node
  BY DEF IInv, RunInv, TypeOK, RunRecord
<1>2. /\ Walks(x) /\ StatusInv(x) /\ Leads(run.node, x.node)
      /\ x.completions = run.completions /\ x.delivered = run.delivered \cup {t}
      /\ Recorded(x, "enqueue", t, "completed", NoClaim) /\ Kind[run.node] # "terminate"
  BY HandoffUpdate
<1>3. /\ Extends(x)
      /\ \A k, l \in 1 .. Len(x.outbox) :
           x.outbox[k].kind = x.outbox[l].kind /\ x.outbox[k].task = x.outbox[l].task => k = l
      /\ Intents("enqueue", t)' # {}
      /\ \A u \in Task : u # t => (Intents("enqueue", u)' # {} <=> Intents("enqueue", u) # {})
      /\ \A u \in Task : Intents("complete", u)' # {} <=> Intents("complete", u) # {}
  BY ZenonT(60), <1>1, <1>2, RecordedExtends DEF Walks
<1>4. /\ TypeOK' /\ CallInv' /\ MailInv' /\ PublishedIsInMailbox' /\ HolderInv' /\ MarkInv'
      /\ \A q \in Runtime : Answers(q)' <=> Answers(q) /\ q # r
  BY <1>2, <1>3, UpdateFrame DEF Walks
<1>5. OutboxInv'
  BY <1>1, <1>2, <1>3 DEF OutboxInv
<1>6. StatusInv(run)' /\ VisitInv(run)' /\ RetryInv(run)'
  BY <1>2 DEF Walks, StatusInv, VisitInv, RetryInv
<1>7. AnsweredInv'
  BY <1>1, <1>2, LeadsOnTrans DEF AnsweredInv
<1>8. AcceptedOnce'
  BY <1>1, <1>2 DEF AcceptedOnce
<1>9. OnceInv'
  BY <1>1, <1>2, <1>4 DEF OnceInv, GivenOnce
<1>10. QED
  BY <1>2, <1>4, <1>5, <1>6, <1>7, <1>8, <1>9 DEF IInv, RunInv

LEMMA ExternalKeeps ==
  ASSUME Assumptions, IInv, NEW r \in Runtime, call[r] \in Call, call[r].kind = "external", NEW x,
         ExternalIsLegal(run, call[r].node, call[r].condition), x = Updated(call[r]),
         pc[r] = "update", run' = x, pc' = [pc EXCEPT ![r] = "release"],
         UNCHANGED <<mail, lease, call, todo, work, faults>>
  PROVE  IInv' /\ Kind[run.node] # "terminate"
<1>1. /\ TypeOK /\ CallInv /\ RunInv /\ OutboxInv /\ OnceInv /\ AnsweredInv /\ AcceptedOnce
      /\ run.node \in Node
  BY DEF IInv, RunInv, TypeOK, RunRecord
<1>2. /\ Walks(x) /\ StatusInv(x) /\ Leads(run.node, x.node) /\ Keeps(run, x)
      /\ Kind[run.node] # "terminate"
  BY ExternalUpdate
<1>3. Extends(x) /\ run.delivered \subseteq x.delivered
  BY <1>2 DEF Keeps, Extends
<1>4. /\ TypeOK' /\ CallInv' /\ MailInv' /\ PublishedIsInMailbox' /\ HolderInv' /\ MarkInv'
      /\ \A q \in Runtime : Answers(q)' <=> Answers(q) /\ q # r
  BY <1>2, <1>3, UpdateFrame DEF Walks
<1>5. OutboxInv'
  BY <1>1, <1>2 DEF OutboxInv, Keeps, Intents
<1>6. StatusInv(run)' /\ VisitInv(run)' /\ RetryInv(run)'
  BY <1>2 DEF Walks, StatusInv, VisitInv, RetryInv
<1>7. AnsweredInv'
  BY <1>1, <1>2, LeadsOnTrans DEF AnsweredInv, Keeps
<1>8. AcceptedOnce'
  BY <1>1, <1>2 DEF AcceptedOnce, Keeps
<1>9. OnceInv'
  BY <1>1, <1>2, <1>4 DEF OnceInv, GivenOnce, Keeps
<1>10. QED
  BY <1>2, <1>4, <1>5, <1>6, <1>7, <1>8, <1>9 DEF IInv, RunInv

LEMMA CompletionKeeps ==
  ASSUME Assumptions, IInv, NEW r \in Runtime, NEW c \in Call, c = call[r], c.kind = "complete",
         CompletionIsLegal(run, c.agent, c.condition), NEW x, x = Updated(c),
         pc[r] = "update", run' = x,
         pc' = [pc EXCEPT ![r] = IF c.task = NoTask THEN "release" ELSE "load"],
         UNCHANGED <<mail, lease, call, todo, work, faults>>
  PROVE  IInv' /\ Kind[run.node] # "terminate"
<1> DEFINE t == c.task
<1>1. /\ TypeOK /\ CallInv /\ RunInv /\ OutboxInv /\ OnceInv /\ AnsweredInv /\ AcceptedOnce
      /\ HolderInv /\ run.node \in Node /\ run.completions \in [Task -> Nat]
  BY DEF IInv, RunInv, TypeOK, RunRecord
<1>2. /\ Walks(x) /\ StatusInv(x) /\ LeadsOn(run.node, x.node)
      /\ Kind[run.node] = "agent" /\ AgentAt[run.node] = c.agent
      /\ x.delivered = run.delivered
      /\ t = NoTask => x.outbox = run.outbox /\ x.completions = run.completions
      /\ t # NoTask =>
           /\ t \in Task /\ c.agent = t.target
           /\ x.completions = [run.completions EXCEPT ![t] = @ + 1]
           /\ Recorded(x, "complete", t, c.status, c.claim)
  BY CompleteUpdate
<1>3. Leads(run.node, x.node)
  <2>1. PICK e \in Edge : e[1] = run.node /\ Kind[run.node] # "terminate" /\ Leads(e[3], x.node)
    BY <1>2 DEF LeadsOn
  <2>2. Leads(run.node, e[3]) /\ e[3] \in Node
    BY <2>1 DEF Leads, Closed, Assumptions, GraphAssumption
  <2>3. QED
    BY <2>1, <2>2, LeadsTrans
<1>4. StatusInv(run)' /\ VisitInv(run)' /\ RetryInv(run)'
  BY <1>2 DEF Walks, StatusInv, VisitInv, RetryInv
<1>5. \/ pc' = [pc EXCEPT ![r] = "load"]
      \/ pc' = [pc EXCEPT ![r] = "release"]
  OBVIOUS
<1>6. CASE t = NoTask
  <2>1. Extends(x)
    BY <1>2, <1>6 DEF Extends
  <2>2. /\ TypeOK' /\ CallInv' /\ MailInv' /\ PublishedIsInMailbox' /\ HolderInv' /\ MarkInv'
        /\ \A q \in Runtime : Answers(q)' <=> Answers(q) /\ q # r
    BY <1>2, <1>5, <2>1, UpdateFrame DEF Walks
  <2>3. OutboxInv'
    BY SMTT(60), <1>1, <1>2, <1>6 DEF OutboxInv, Intents
  <2>4. AnsweredInv' /\ AcceptedOnce'
    BY <1>1, <1>2, <1>3, <1>6, LeadsOnTrans DEF AnsweredInv, AcceptedOnce
  <2>5. OnceInv'
    BY <1>1, <1>2, <1>6, <2>2 DEF OnceInv, GivenOnce
  <2>6. QED
    BY <1>2, <1>4, <2>2, <2>3, <2>4, <2>5 DEF IInv, RunInv
<1>7. CASE t # NoTask
  <2>1. /\ t \in Task /\ c.agent = t.target
        /\ x.completions = [run.completions EXCEPT ![t] = @ + 1]
        /\ Recorded(x, "complete", t, c.status, c.claim)
    BY <1>2, <1>7
  <2>2. Answers(r) /\ mail[t].status # "none"
    BY <1>1, <1>7 DEF Answers, HolderInv
  <2>3. /\ Extends(x)
        /\ \A k, l \in 1 .. Len(x.outbox) :
             x.outbox[k].kind = x.outbox[l].kind /\ x.outbox[k].task = x.outbox[l].task => k = l
        /\ Intents("complete", t)' # {}
        /\ \A u \in Task : u # t => (Intents("complete", u)' # {} <=> Intents("complete", u) # {})
        /\ \A u \in Task : Intents("enqueue", u)' # {} <=> Intents("enqueue", u) # {}
    <3> HIDE DEF t
    <3>1. x \in RunRecord /\ TypeOK /\ OutboxInv
      BY <1>1, <1>2 DEF Walks
    <3>2. t \in Task /\ Recorded(x, "complete", t, c.status, c.claim) /\ mail[t].status # "none"
      BY <2>1, <2>2
    <3>3. /\ Extends(x)
          /\ \A k, l \in 1 .. Len(x.outbox) :
               x.outbox[k].kind = x.outbox[l].kind /\ x.outbox[k].task = x.outbox[l].task => k = l
          /\ Intents("complete", t)' # {}
          /\ \A u \in Task : u # t =>
               (Intents("complete", u)' # {} <=> Intents("complete", u) # {})
          /\ \A u \in Task, other \in {"enqueue", "complete"} : other # "complete" =>
               (Intents(other, u)' # {} <=> Intents(other, u) # {})
      BY ONLY <3>1, <3>2, run' = x, RecordedExtends
    <3>4. QED
      BY <3>3
  <2>4. /\ TypeOK' /\ CallInv' /\ MailInv' /\ PublishedIsInMailbox' /\ HolderInv' /\ MarkInv'
        /\ \A q \in Runtime : Answers(q)' <=> Answers(q) /\ q # r
    BY <1>2, <1>5, <2>3, UpdateFrame DEF Walks
  <2>5. /\ x.completions[t] = run.completions[t] + 1 /\ run.completions[t] \in Nat
        /\ \A u \in Task : u # t => x.completions[u] = run.completions[u]
    BY <1>1, <2>1
  <2>6. OutboxInv'
    <3>1. \A u \in Task : x.completions[u] > 0 <=> Intents("complete", u)' # {}
      <4>1. x.completions[t] > 0
        BY <2>5
      <4>2. QED
        BY <4>1, <1>1, <2>3, <2>5 DEF OutboxInv
    <3>2. \A u \in Task : u \in x.delivered <=> Intents("enqueue", u)' # {}
      BY <1>1, <1>2, <2>3 DEF OutboxInv
    <3>3. QED
      BY <2>3, <3>1, <3>2 DEF OutboxInv
  <2>7. AnsweredInv'
    <3>1. ASSUME NEW u \in Task, x.completions[u] > 0
          PROVE  \E m \in Node : Kind[m] = "agent" /\ AgentAt[m] = u.target /\ LeadsOn(m, x.node)
      <4>1. CASE u = t
        BY <4>1, <1>1, <1>2, <2>1
      <4>2. CASE u # t
        BY <4>2, <3>1, <2>5, <1>1, <1>3, LeadsOnTrans DEF AnsweredInv
      <4>3. QED
        BY <4>1, <4>2
    <3>2. QED
      BY <3>1 DEF AnsweredInv
  <2>8. ASSUME NEW u \in Task, x.completions[u] > 1
        PROVE  ClaimLeases /\ AgentComesBack(u.target)
    <3>1. CASE u = t
      <4>1. run.completions[t] > 0
        BY <3>1, <2>5, <2>8
      <4>2. PICK m \in Node : Kind[m] = "agent" /\ AgentAt[m] = t.target /\ LeadsOn(m, run.node)
        BY <4>1, <2>1, <1>1 DEF AnsweredInv
      <4>3. AgentComesBack(t.target)
        BY <4>2, <1>1, <1>2, <2>1 DEF AgentComesBack
      <4>4. CASE ~ClaimLeases
        <5>1. run.completions[t] = 0
          BY <4>4, <1>1, <2>1, <2>2 DEF OnceInv, GivenOnce
        <5>2. QED
          BY <4>1, <5>1
      <4>5. QED
        BY <3>1, <4>3, <4>4 DEF Assumptions, ClaimAssumption
    <3>2. CASE u # t
      BY <3>2, <2>5, <2>8, <1>1 DEF AcceptedOnce
    <3>3. QED
      BY <3>1, <3>2
  <2>9. ASSUME ~ClaimLeases, NEW u \in Task PROVE GivenOnce(u)'
    <3>1. GivenOnce(u)
      BY <2>9, <1>1 DEF OnceInv
    <3>2. CASE u # t
      BY <3>1, <3>2, <2>4, <2>5 DEF GivenOnce
    <3>3. CASE u = t
      <4>1. /\ mail[t].status \notin {"none", "queued"} /\ run.completions[t] = 0
            /\ \A q \in Runtime : Answers(q) /\ call[q].task = t => q = r
        BY <3>1, <3>3, <2>2 DEF GivenOnce
      <4>2. \A w \in Worker : work[w].task # t
        BY <3>1, <3>3, <2>2 DEF GivenOnce
      <4>3. \A q \in Runtime : Answers(q)' => call[q].task # t
        BY <4>1, <2>4
      <4>4. x.completions[t] = 1
        BY <4>1, <2>5
      <4>5. QED
        BY <3>1, <3>3, <4>1, <4>2, <4>3, <4>4 DEF GivenOnce
    <3>4. QED
      BY <3>2, <3>3
  <2>10. QED
    BY <1>2, <1>4, <2>4, <2>6, <2>7, <2>8, <2>9 DEF IInv, RunInv, AcceptedOnce, OnceInv
<1>8. QED
  BY <1>6, <1>7

\* runs.update of a mutation, accepted or not.
LEMMA UpdateKeeps ==
  ASSUME Assumptions, IInv, NEW r \in Runtime, Update(r)
  PROVE  IInv' /\ (run' = run \/ Kind[run.node] # "terminate")
<1> DEFINE c == call[r]
<1>1. TypeOK /\ CallInv /\ pc[r] = "update" /\ c \in Call
      /\ c.kind \in {"handoff", "complete", "external"}
      /\ UNCHANGED <<mail, lease, call, todo, work, faults>>
  BY DEF IInv, CallInv, Update
<1>2. CASE ~(FenceIsValid(r) /\ UpdateIsLegal(c))
  <2>1. run' = run /\ pc' = [pc EXCEPT ![r] = "release"]
    BY <1>2 DEF Update, Goto
  <2>2. TypeOK' /\ CallInv'
    BY <1>1, <2>1 DEF TypeOK, CallInv
  <2>3. \A q \in Runtime : pc'[q] = "mark" => pc[q] = "mark" /\ todo'[q] = todo[q]
    BY <1>1, <2>1 DEF TypeOK
  <2>4. \A q \in Runtime : Answers(q)' => Answers(q) /\ call'[q] = call[q]
    BY <1>1, <2>1 DEF TypeOK, Answers
  <2>5. QED
    BY <1>1, <2>1, <2>2, <2>3, <2>4, ForgetKeeps
<1>3. CASE FenceIsValid(r) /\ UpdateIsLegal(c)
  <2> DEFINE x == Updated(c)
  <2>1. /\ run' = x
        /\ pc' = [pc EXCEPT ![r] = IF c.kind = "external" \/ c.task = NoTask
                                   THEN "release" ELSE "load"]
    BY <1>3 DEF Update, Goto
  <2>2. CASE c.kind = "handoff"
    <3>1. c = [kind |-> "handoff", task |-> c.task] /\ c.task \in Task
      BY <1>1, <2>2 DEF Call, NoCall
    <3>2. c.task # NoTask
      BY <3>1 DEF Assumptions, TaskAssumption
    <3>3. HandoffIsRepeated(run, c.task) \/ HandoffIsLegal(run, c.task)
      BY <1>3, <2>2 DEF UpdateIsLegal
    <3>4. pc' = [pc EXCEPT ![r] = "load"]
      BY <2>1, <2>2, <3>2
    <3>5. x = Updated([kind |-> "handoff", task |-> c.task])
      BY <3>1
    <3> HIDE DEF x
    <3>6. QED
      BY <1>1, <2>1, <2>2, <3>1, <3>3, <3>4, <3>5, HandoffKeeps
  <2>3. CASE c.kind = "external"
    <3>1. ExternalIsLegal(run, c.node, c.condition)
      BY <1>3, <2>3 DEF UpdateIsLegal
    <3>2. pc' = [pc EXCEPT ![r] = "release"]
      BY <2>1, <2>3
    <3>3. QED
      BY <1>1, <2>1, <2>3, <3>1, <3>2, ExternalKeeps
  <2>4. CASE c.kind = "complete"
    <3>1. CompletionIsLegal(run, c.agent, c.condition)
      BY <1>3, <2>4 DEF UpdateIsLegal
    <3>2. pc' = [pc EXCEPT ![r] = IF c.task = NoTask THEN "release" ELSE "load"]
      BY <2>1, <2>4
    <3>3. QED
      BY <1>1, <2>1, <2>4, <3>1, <3>2, CompletionKeeps
  <2>5. QED
    BY <1>1, <2>2, <2>3, <2>4
<1>4. QED
  BY <1>2, <1>3

\* Marking an intent changes nothing else of the run.
LEMMA MarkKeeps ==
  ASSUME Assumptions, IInv, NEW r \in Runtime, Mark(r)
  PROVE  IInv' /\ run'.node = run.node /\ run'.status = run.status
<1>1. /\ TypeOK /\ CallInv /\ RunInv /\ OutboxInv /\ MailInv /\ PublishedIsInMailbox /\ HolderInv
      /\ MarkInv /\ OnceInv /\ run \in RunRecord /\ pc[r] = "mark"
      /\ UNCHANGED <<mail, lease, call, work, faults>>
  BY DEF IInv, RunInv, TypeOK, Mark
<1>2. CASE ~FenceIsValid(r)
  <2>1. run' = run /\ todo' = [todo EXCEPT ![r] = {}] /\ pc' = [pc EXCEPT ![r] = "release"]
    BY <1>2 DEF Mark, Goto
  <2>2. TypeOK' /\ CallInv'
    BY <1>1, <2>1 DEF TypeOK, CallInv
  <2>3. \A q \in Runtime : pc'[q] = "mark" => pc[q] = "mark" /\ todo'[q] = todo[q]
    BY <1>1, <2>1 DEF TypeOK
  <2>4. \A q \in Runtime : Answers(q)' => Answers(q) /\ call'[q] = call[q]
    BY <1>1, <2>1 DEF TypeOK, Answers
  <2>5. QED
    BY <1>1, <2>1, <2>2, <2>3, <2>4, ForgetKeeps
<1>3. CASE FenceIsValid(r)
  <2> DEFINE i == NextIntent(r)
             n == Len(run.outbox)
             o == [k \in 1 .. n |-> IF k \in MarkedBy(i)
                                    THEN [run.outbox[k] EXCEPT !.published = TRUE]
                                    ELSE run.outbox[k]]
  <2>1. /\ run' = [run EXCEPT !.outbox = o]
        /\ todo' = [todo EXCEPT ![r] = @ \ {Min(@)}] /\ pc' = [pc EXCEPT ![r] = "flush"]
    BY <1>3 DEF Mark, Goto
  <2>2. run.outbox \in Seq(Intent) /\ n \in Nat /\ \A k \in 1 .. n : run.outbox[k] \in Intent
    BY <1>1 DEF RunRecord
  <2>3. \A k \in 1 .. n :
          /\ o[k] \in Intent /\ o[k].kind = run.outbox[k].kind /\ o[k].task = run.outbox[k].task
          /\ o[k].status = run.outbox[k].status
          /\ o[k].published => run.outbox[k].published \/ k \in MarkedBy(i)
    BY <2>2 DEF Intent
  <2>4. o \in Seq(Intent) /\ Len(o) = n
    <3> HIDE DEF i
    <3>1. o \in [1 .. n -> Intent]
      BY <2>3
    <3> HIDE DEF o
    <3>2. QED
      BY <2>2, <3>1
  <2> HIDE DEF o
  <2>5. /\ run' \in RunRecord /\ run'.outbox = o /\ run'.node = run.node
        /\ run'.top = run.top /\ run'.status = run.status /\ run'.agentRun = run.agentRun
        /\ run'.attempts = run.attempts /\ run'.delivered = run.delivered
        /\ run'.completions = run.completions
    BY <1>1, <2>1, <2>4 DEF RunRecord
  <2>6. /\ i \in Intent /\ i = run.outbox[Min(todo[r])] /\ Min(todo[r]) \in 1 .. n
        /\ IsInMailbox(i)
    BY <1>1, NextIntentIs DEF MarkInv
  <2>7. \A q \in Runtime : /\ Answers(q)' <=> Answers(q)
                           /\ pc'[q] = "mark" => pc[q] = "mark" /\ todo'[q] = todo[q]
    BY <1>1, <2>1 DEF TypeOK, Answers
  <2>8. TypeOK' /\ CallInv'
    <3>1. todo' \in [Runtime -> SUBSET (1 .. Len(run'.outbox))]
      BY <1>1, <2>1, <2>4, <2>5 DEF TypeOK
    <3>2. QED
      BY <1>1, <2>1, <2>5, <3>1 DEF TypeOK, CallInv
  <2>9. \A kind, t : Intents(kind, t)' = Intents(kind, t)
    BY <2>3, <2>4, <2>5 DEF Intents
  <2>10. RunInv'
    <3>1. OutboxInv'
      BY <1>1, <2>3, <2>4, <2>5, <2>9 DEF OutboxInv
    <3>2. StatusInv(run)' /\ VisitInv(run)' /\ RetryInv(run)' /\ AnsweredInv' /\ AcceptedOnce'
      BY <1>1, <2>5 DEF RunInv, StatusInv, VisitInv, RetryInv, AnsweredInv, AcceptedOnce
    <3>3. QED
      BY <3>1, <3>2 DEF RunInv
  <2>11. MailInv'
    <3>1. ASSUME NEW t \in Task, mail[t].status \in Terminal
          PROVE  \E k \in Intents("complete", t)' : o[k].status = mail[t].status
      <4>1. PICK k \in Intents("complete", t) : run.outbox[k].status = mail[t].status
        BY <3>1, <1>1 DEF MailInv
      <4>2. k \in Intents("complete", t)'
        BY <2>9
      <4>3. k \in 1 .. n
        BY DEF Intents
      <4>4. QED
        BY <4>1, <4>2, <4>3, <2>3
    <3>2. QED
      BY <3>1, <1>1, <2>5 DEF MailInv
  <2>12. ASSUME NEW k \in 1 .. n, IsInMailbox(run.outbox[k])
         PROVE  IsInMailbox(run.outbox[k])'
    BY <2>12, <2>3, <2>5, <1>1 DEF IsInMailbox
  <2>13. PublishedIsInMailbox'
    <3>1. ASSUME NEW k \in 1 .. n, o[k].published PROVE IsInMailbox(run.outbox[k])
      <4>1. CASE run.outbox[k].published
        BY <4>1, <1>1 DEF PublishedIsInMailbox
      <4>2. CASE k \in MarkedBy(i)
        <5>1. run.outbox[k].kind = i.kind /\ run.outbox[k].task = i.task
          BY <4>2 DEF MarkedBy, Intents
        <5>2. k = Min(todo[r])
          BY <5>1, <2>6, <1>1 DEF OutboxInv
        <5>3. QED
          BY <5>2, <2>6
      <4>3. QED
        BY <3>1, <2>3, <4>1, <4>2
    <3>2. QED
      BY <3>1, <2>4, <2>5, <2>12 DEF PublishedIsInMailbox
  <2>14. HolderInv'
    BY <1>1, <2>3, <2>4, <2>5, <2>7 DEF HolderInv
  <2>15. MarkInv'
    <3>1. ASSUME NEW q \in Runtime, pc'[q] = "mark"
          PROVE  todo'[q] # {} /\ IsInMailbox(NextIntent(q))'
      <4>1. /\ todo[q] # {} /\ todo'[q] = todo[q] /\ IsInMailbox(NextIntent(q))
        BY <3>1, <2>7, <1>1 DEF MarkInv
      <4>2. PICK k \in 1 .. n : k = Min(todo[q])
        BY <4>1, <1>1, NextIntentIs
      <4>3. NextIntent(q) = run.outbox[k] /\ NextIntent(q)' = run'.outbox[k]
        BY <4>1, <4>2 DEF NextIntent
      <4>4. IsInMailbox(run.outbox[k])'
        BY <4>1, <4>3, <2>12
      <4>5. QED
        BY <4>1, <4>3, <4>4 DEF IsInMailbox
    <3>2. QED
      BY <3>1 DEF MarkInv
  <2>16. OnceInv'
    BY <1>1, <2>5, <2>7 DEF OnceInv, GivenOnce
  <2>17. QED
    BY <2>5, <2>8, <2>10, <2>11, <2>13, <2>14, <2>15, <2>16 DEF IInv
<1>4. QED
  BY <1>2, <1>3
-----------------------------------------------------------------------------
(***************************************************************************)
(* The theorems.                                                           *)
(***************************************************************************)
LEMMA NextIInv == ASSUME Assumptions, IInv, [Next]_vars PROVE IInv'
<1>1. ASSUME NEW r \in Runtime,
             \/ Handoff(r) \/ CompleteDirectly(r) \/ CompleteExternal(r) \/ Reconcile(r)
             \/ Advance(r) \/ Crash(r)
      PROVE  IInv'
  BY <1>1, CallsKeep, UpdateKeeps, LoadKeeps, PublishEnqueueKeeps, PublishCompleteKeeps,
     RejectKeeps, MarkKeeps, ReleaseKeeps, CrashKeeps DEF Advance
<1>2. ASSUME NEW w \in Worker, Claim(w) \/ CompleteWork(w) \/ HandlerFails(w)
      PROVE  IInv'
  BY <1>2, ClaimKeeps, CompleteWorkKeeps, HandlerFailsKeeps
<1>3. ASSUME NEW t \in Task, ClaimLapses(t) \/ AbandonedClaimLapses(t)
      PROVE  IInv'
  BY <1>3, ExpiryKeeps
<1>4. CASE UNCHANGED vars
  <2>1. TypeOK' /\ CallInv'
    BY <1>4 DEF vars, IInv, TypeOK, CallInv
  <2>2. QED
    BY <1>4, <2>1, ForgetKeeps DEF vars, Answers
<1>5. QED
  BY <1>1, <1>2, <1>3, <1>4, LapseKeeps DEF Next

\* The state part of EndsAreStable, and the message and the run that a step leaves alone.
LEMMA StepEnds ==
  ASSUME Assumptions, IInv, [Next]_vars
  PROVE  TerminalMailIsStable /\ CompletedRunIsStable
<1>1. TypeOK /\ OutboxInv /\ MailInv /\ HolderInv /\ StatusInv(run)
  BY DEF IInv, RunInv
<1>2. TerminalMailIsStable
  <2>1. ASSUME NEW t \in Task, mail[t].status \in Terminal PROVE mail'[t] = mail[t]
    <3>1. mail[t].status \notin {"none", "queued", "delivered"}
      BY <2>1 DEF Terminal
    <3>2. ASSUME NEW r \in Runtime, PublishEnqueue(r) PROVE mail'[t] = mail[t]
      BY <3>1, <3>2, <1>1 DEF PublishEnqueue, Enqueued, TypeOK
    <3>3. ASSUME NEW r \in Runtime, PublishComplete(r) PROVE mail'[t] = mail[t]
      <4>1. CASE CompletionIsReplayed(NextIntent(r))
        BY <3>3, <4>1 DEF PublishComplete
      <4>2. CASE ~CompletionIsReplayed(NextIntent(r))
        <5>1. mail[NextIntent(r).task].status \in {"queued", "delivered"}
          BY <3>3, <4>2, <1>1, CompleteIsFirst DEF PublishComplete
        <5>2. NextIntent(r).task # t
          BY <3>1, <5>1
        <5>3. QED
          BY <3>3, <4>2, <5>2, <1>1 DEF PublishComplete, TypeOK
      <4>3. QED
        BY <4>1, <4>2
    <3>4. ASSUME NEW w \in Worker, Claim(w) PROVE mail'[t] = mail[t]
      <4>1. PICK u \in Task : Claimable(u) /\ \E m : mail' = [mail EXCEPT ![u] = m]
        BY <3>4 DEF Claim
      <4>2. u # t
        BY <4>1, <3>1 DEF Claimable
      <4>3. QED
        BY <4>1, <4>2, <1>1 DEF TypeOK
    <3>5. ASSUME NEW u \in Task, ClaimExpires(u) PROVE mail'[t] = mail[t]
      BY <3>1, <3>5, <1>1 DEF ClaimExpires, TypeOK
    <3>6. QED
      BY <3>2, <3>3, <3>4, <3>5
         DEF Next, vars, Handoff, CompleteDirectly, CompleteExternal, Reconcile, Begin, Advance,
             Update, Load, RejectComplete, Mark, Release, Crash, CompleteWork, HandlerFails,
             ClaimLapses, AbandonedClaimLapses, LeaseLapses, DeadLeaseLapses
  <2>2. QED
    BY <2>1 DEF TerminalMailIsStable
<1>3. CompletedRunIsStable
  <2>1. ASSUME NEW r \in Runtime, Update(r)
        PROVE  run' = run \/ Kind[run.node] # "terminate"
    BY <2>1, UpdateKeeps
  <2>2. ASSUME NEW r \in Runtime, Mark(r)
        PROVE  run'.node = run.node /\ run'.status = run.status
    BY <2>2, MarkKeeps
  <2>3. run.status = "completed" => Kind[run.node] = "terminate"
    BY <1>1 DEF StatusInv
  <2>4. (\E r \in Runtime : Update(r) \/ Mark(r)) \/ run' = run
    BY DEF Next, vars, Handoff, CompleteDirectly, CompleteExternal, Reconcile, Begin, Advance,
           Load, PublishEnqueue, PublishComplete, RejectComplete, Release, Crash, Claim,
           CompleteWork, HandlerFails, ClaimLapses, AbandonedClaimLapses, ClaimExpires,
           LeaseLapses, DeadLeaseLapses
  <2>5. QED
    BY <2>1, <2>2, <2>3, <2>4 DEF CompletedRunIsStable
<1>4. QED
  BY <1>2, <1>3

\* What RunningRunIsOpen says follows from where a run is and what it left behind.
LEMMA IInvOpen == ASSUME Assumptions, IInv PROVE RunningRunIsOpen
<1>1. StatusInv(run) /\ RetryInv(run) /\ run \in RunRecord
  BY DEF IInv, RunInv, TypeOK
<1>2. ActiveAgentIsOpen
  BY <1>1 DEF StatusInv, ActiveAgentIsOpen
<1>3. ASSUME NEW n \in Node, Kind[n] = "retry", run.attempts[n] > MaxAttempts[n] + 1
      PROVE  Leads(nextNodeForCondition(n, "exhausted"), n)
  <2>1. run.attempts[n] \in Nat /\ MaxAttempts[n] \in Nat
    BY <1>1, <1>3 DEF RunRecord, Assumptions, GraphAssumption
  <2>2. QED
    BY <2>1, <1>1, <1>3 DEF RetryInv
<1>4. QED
  BY <1>2, <1>3 DEF RunningRunIsOpen, AttemptsBounded

LEMMA AssumptionsHold == Assumptions
BY GraphAssumption, TaskAssumption, WorkerAssumption, OutcomeAssumption, ClaimAssumption,
   FaultAssumption DEF Assumptions

LEMMA Inductive == Spec => []IInv
<1>1. Init => IInv
  BY AssumptionsHold, InitIInv
<1>2. IInv /\ [Next]_vars => IInv'
  BY AssumptionsHold, NextIInv
<1>3. QED
  BY <1>1, <1>2, PTL DEF Spec

\* For any graph, processes, workers and handoffs, with and without claims, and whatever
\* crashes, lapses or fails: the mailbox never runs ahead of the run record, an intent
\* marked as published has and keeps its effect, and one result is recorded per message,
\* unless claims are configured and the graph comes back to the agent
\* (EventedV2MultiAgentRuntime with its outbox and mailbox).
THEOREM Agreement == Spec => []RunAndMailboxAgree
<1>1. IInv => RunAndMailboxAgree
  <2>1. ASSUME IInv PROVE MailboxFollowsRun
    <3>1. OutboxInv /\ MailInv
      BY <2>1 DEF IInv, RunInv
    <3>2. ASSUME NEW t \in Task, mail[t].status \in Terminal PROVE run.completions[t] > 0
      <4>1. Intents("complete", t) # {}
        BY <3>1, <3>2 DEF MailInv
      <4>2. QED
        BY <3>1, <4>1 DEF OutboxInv
    <3>3. QED
      BY <3>1, <3>2 DEF OutboxInv, MailInv, MailboxFollowsRun
  <2>2. QED
    BY <2>1 DEF IInv, RunInv, RunAndMailboxAgree
<1>2. QED
  BY <1>1, Inductive, PTL

\* For the same systems: a running run waits for the agent on top of its stack, whose
\* agentRun is open unless a handoff took the run back to a node it had left; a retry node
\* is entered at most once more than its limit unless its way out leads back to it; and no
\* step touches a message that is over or a run that is completed (completeAgentTask,
\* enterGraphNode, applyHandoff and mailbox.complete).
THEOREM EndsStay == Spec => EndsAreStable
<1>1. IInv /\ [Next]_vars => TerminalMailIsStable /\ CompletedRunIsStable
  BY AssumptionsHold, StepEnds
<1>2. IInv => RunningRunIsOpen
  BY AssumptionsHold, IInvOpen
<1>3. QED
  BY <1>1, <1>2, Inductive, PTL DEF Spec, EndsAreStable
=============================================================================
