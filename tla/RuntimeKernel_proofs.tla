------------------------ MODULE RuntimeKernel_proofs ------------------------
(***************************************************************************)
(* Proofs about RuntimeKernel for any processes, graph, outcomes and       *)
(* faults.                                                                 *)
(***************************************************************************)
EXTENDS RuntimeKernel, FiniteSetTheorems, WellFoundedInduction, TLAPS

-----------------------------------------------------------------------------
(***************************************************************************)
(* Logs: StepsIn, Pointers and Pointed of any log.                         *)
(***************************************************************************)
Completes(l, i) == l[i].kind = "completed" /\ l[i].outcome = NoOutcome

Points(l, i) == l[i].to # NoNode /\ (l[i].kind = "after" => l[i - 1].outcome = NoOutcome)

StepsOf(l, n) == Cardinality({i \in 1 .. n : Completes(l, i)})
PointersOf(l, n) == {i \in 1 .. n : Points(l, i)}
PointedOf(l, n) == IF PointersOf(l, n) = {} THEN StartNode ELSE l[Max(PointersOf(l, n))].to

\* None of the first n events has an outcome.
Quiet(l, n) == \A i \in 1 .. n : l[i].outcome = NoOutcome

\* o is the first outcome of the first n events.
EndsBy(l, n, o) == \E i \in 1 .. n : l[i].outcome = o /\ o # NoOutcome /\ Quiet(l, i - 1)

\* What EachStepRunsOnce says of event i, and what it needs.
EventOK(l, i) ==
  /\ l[i].kind # "after" => l[i].step = StepsOf(l, i - 1) /\ l[i].node = PointedOf(l, i - 1)
  /\ l[i].kind = "after" <=> i > 1 /\ l[i - 1].kind = "completed"
  /\ l[i].kind = "started" => Quiet(l, i - 1) /\ l[i].to = NoNode /\ l[i].outcome = NoOutcome
  /\ l[i].kind = "completed" =>
       i > 1 /\ l[i - 1].kind = "started" /\ (l[i].to = NoNode <=> l[i].outcome # NoOutcome)
  /\ l[i].kind = "after" => l[i].to = NoNode \/ l[i].outcome = NoOutcome

LogOK(l) == l \in Seq(Event) /\ \A i \in 1 .. Len(l) : EventOK(l, i)

\* A set of naturals has a least member.
LEMMA LeastMember ==
  ASSUME NEW T, T \subseteq Nat, T # {}
  PROVE  \E x \in T : \A y \in T : x <= y
<1>1. PICK x \in T : \A y \in T : ~(<<y, x>> \in OpToRel(<, Nat))
  BY WFMin, NatLessThanWellFounded
<1>2. ASSUME NEW y \in T PROVE ~(y < x)
  <2>1. y \in Nat /\ x \in Nat
    OBVIOUS
  <2>2. QED
    BY <1>1, <2>1, Zenon DEF OpToRel
<1>3. QED
  BY <1>2

\* A set of numbers up to n has a greatest member, and Max is that.
LEMMA MaxOf ==
  ASSUME NEW n \in Nat, NEW S, S \subseteq 1 .. n, S # {}
  PROVE  Max(S) \in S /\ \A x \in S : x <= Max(S)
<1> DEFINE T == {k \in Nat : \E x \in S : k = n - x}
<1>1. T # {}
  <2>1. PICK x \in S : TRUE
    OBVIOUS
  <2>2. n - x \in Nat
    OBVIOUS
  <2>3. QED
    BY <2>2
<1>2. PICK k \in T : \A j \in T : k <= j
  BY <1>1, LeastMember
<1>3. PICK m \in S : k = n - m
  OBVIOUS
<1>4. ASSUME NEW x \in S PROVE m >= x
  <2>1. n - x \in T
    OBVIOUS
  <2>2. QED
    BY <2>1, <1>2, <1>3
<1>5. QED
  BY <1>4 DEF Max

\* The largest member of a set of numbers that has n itself.
LEMMA MaxIs ==
  ASSUME NEW n \in Nat, NEW S, S \subseteq 1 .. n, n \in S
  PROVE  Max(S) = n
<1>1. S # {}
  OBVIOUS
<1>2. Max(S) \in S /\ \A x \in S : x <= Max(S)
  BY ONLY n \in Nat, S \subseteq 1 .. n, <1>1, MaxOf
<1>3. Max(S) \in 1 .. n /\ n <= Max(S)
  BY <1>2
<1>4. QED
  BY <1>3

\* One more event adds a step or none.
LEMMA StepsOfNext ==
  ASSUME NEW l, NEW n \in Nat, n > 0
  PROVE  /\ StepsOf(l, n - 1) \in Nat
         /\ StepsOf(l, n) = IF Completes(l, n) THEN StepsOf(l, n - 1) + 1 ELSE StepsOf(l, n - 1)
<1> DEFINE S(m) == {i \in 1 .. m : Completes(l, i)}
<1>1. IsFiniteSet(S(n - 1)) /\ S(n - 1) \subseteq 1 .. n - 1
  <2>1. n - 1 \in Int /\ S(n - 1) \subseteq 1 .. n - 1
    OBVIOUS
  <2>2. IsFiniteSet(1 .. n - 1)
    BY ONLY <2>1, 1 \in Int, FS_Interval
  <2>3. QED
    BY <2>1, <2>2, FS_Subset
<1>2. Cardinality(S(n - 1)) \in Nat
  BY <1>1, FS_CardinalityType
<1>3. CASE Completes(l, n)
  <2>1. S(n) = S(n - 1) \cup {n} /\ n \notin S(n - 1)
    BY <1>3
  <2>2. QED
    BY <2>1, <1>1, <1>2, <1>3, FS_AddElement DEF StepsOf
<1>4. CASE ~Completes(l, n)
  <2>1. S(n) = S(n - 1)
    BY <1>4
  <2>2. QED
    BY <2>1, <1>2, <1>4 DEF StepsOf
<1>5. QED
  BY <1>3, <1>4

\* One more event points elsewhere or nowhere.
LEMMA PointedOfNext ==
  ASSUME NEW l, NEW n \in Nat, n > 0
  PROVE  PointedOf(l, n) = IF Points(l, n) THEN l[n].to ELSE PointedOf(l, n - 1)
<1>1. CASE Points(l, n)
  <2>1. n \in PointersOf(l, n) /\ PointersOf(l, n) \subseteq 1 .. n
    BY <1>1 DEF PointersOf
  <2>2. QED
    BY <2>1, <1>1, MaxIs DEF PointedOf
<1>2. CASE ~Points(l, n)
  <2>1. PointersOf(l, n) = PointersOf(l, n - 1)
    BY <1>2 DEF PointersOf
  <2>2. QED
    BY <2>1, <1>2 DEF PointedOf
<1>3. QED
  BY <1>1, <1>2

\* Two logs that begin alike have the same steps and point alike there.
LEMMA SameBeginning ==
  ASSUME NEW l, NEW m, NEW n \in Nat, \A i \in 1 .. n : l[i] = m[i],
         \A i \in 1 .. n : l[i].kind = "after" => i > 1
  PROVE  /\ StepsOf(l, n) = StepsOf(m, n) /\ PointedOf(l, n) = PointedOf(m, n)
         /\ Quiet(l, n) = Quiet(m, n)
<1>1. \A i \in 1 .. n : Completes(l, i) = Completes(m, i)
  BY DEF Completes
<1>2. \A i \in 1 .. n : Points(l, i) = Points(m, i)
  BY DEF Points
<1>3. StepsOf(l, n) = StepsOf(m, n)
  <2>1. {i \in 1 .. n : Completes(l, i)} = {i \in 1 .. n : Completes(m, i)}
    BY <1>1
  <2>2. QED
    BY <2>1 DEF StepsOf
<1>4. PointersOf(l, n) = PointersOf(m, n)
  BY <1>2 DEF PointersOf
<1>5. PointersOf(l, n) # {} => Max(PointersOf(l, n)) \in 1 .. n
  BY MaxOf DEF PointersOf
<1>6. QED
  BY <1>3, <1>4, <1>5 DEF PointedOf, Quiet
-----------------------------------------------------------------------------
(***************************************************************************)
(* States that a log leads to.                                             *)
(***************************************************************************)
\* s is where the first s.seq events of the log lead.
Follows(l, s) ==
  /\ s \in State /\ s.seq <= Len(l)
  /\ s.step = StepsOf(l, s.seq) /\ s.node = PointedOf(l, s.seq)
  /\ s.status = "running" => Quiet(l, s.seq) /\ s.outcome \in {NoOutcome, "failed"}
  /\ s.status # "running" => s.outcome = s.status
  /\ s.seq > 0 /\ Completes(l, s.seq) => s.status = "running"

\* The run ended with what the state says, and the log has it.
IsLogged(l, s) == s.status \notin {"running", "failed"} => EndsBy(l, s.seq, s.outcome)

\* A state that was final, or made of one that was.
HasEnded(s) == s.status # "running" \/ s.outcome = "failed"

\* The end of a log is one outcome.
LEMMA EndIsOne ==
  ASSUME NEW l, NEW n \in Nat, NEW o, NEW p, EndsBy(l, n, o), EndsBy(l, n, p)
  PROVE  o = p
<1>1. PICK i \in 1 .. n : l[i].outcome = o /\ o # NoOutcome /\ Quiet(l, i - 1)
  BY DEF EndsBy
<1>2. PICK j \in 1 .. n : l[j].outcome = p /\ p # NoOutcome /\ Quiet(l, j - 1)
  BY DEF EndsBy
<1>3. ~(i < j) /\ ~(j < i)
  BY <1>1, <1>2 DEF Quiet
<1>4. QED
  BY <1>1, <1>2, <1>3

\* Nothing that is quiet has ended.
LEMMA QuietHasNoEnd ==
  ASSUME NEW l, NEW n \in Nat, NEW o, Quiet(l, n)
  PROVE  ~EndsBy(l, n, o)
BY DEF Quiet, EndsBy

\* The next event of a log leads from where the log was to where it then is. A failure
\* stays one unless the event completes a step.
LEMMA FollowsNext ==
  ASSUME NEW l, LogOK(l), NEW n \in 1 .. Len(l), NEW s, Follows(l, s), s.seq = n - 1,
         IsLogged(l, s)
  PROVE  LET t == Reduced(s, l[n], n) IN
         /\ Follows(l, t) /\ IsLogged(l, t) /\ t.seq = n
         /\ HasEnded(s) => HasEnded(t)
         /\ s.status = "failed" /\ ~Completes(l, n) => t.status = "failed"
<1> DEFINE e == l[n]
           t == Reduced(s, e, n)
<1>1. e \in Event /\ EventOK(l, n) /\ n \in Nat /\ n > 0 /\ Len(l) \in Nat
  BY DEF LogOK
<1>2. s \in State /\ s.node \in Node /\ s.step \in Nat
  BY DEF Follows, State
<1>3. /\ StepsOf(l, n - 1) \in Nat
      /\ StepsOf(l, n) = IF Completes(l, n) THEN StepsOf(l, n - 1) + 1 ELSE StepsOf(l, n - 1)
  BY <1>1, StepsOfNext
<1>4. PointedOf(l, n) = IF Points(l, n) THEN e.to ELSE PointedOf(l, n - 1)
  BY <1>1, PointedOfNext
<1>5. Quiet(l, n) <=> Quiet(l, n - 1) /\ e.outcome = NoOutcome
  BY <1>1 DEF Quiet
<1>6. ASSUME NEW o, EndsBy(l, n - 1, o) PROVE EndsBy(l, n, o)
  BY <1>6, <1>1 DEF EndsBy
<1>7. ASSUME e.outcome # NoOutcome, Quiet(l, n - 1) PROVE EndsBy(l, n, e.outcome)
  BY <1>7, <1>1 DEF EndsBy
<1>8. Quiet(l, n - 1) => s.status \in {"running", "failed"}
  BY <1>1, QuietHasNoEnd DEF IsLogged
<1>9. CASE e.kind = "started"
  <2>1. t = [s EXCEPT !.seq = n]
    BY <1>9 DEF Reduced
  <2>2. ~Completes(l, n) /\ ~Points(l, n) /\ e.outcome = NoOutcome
    BY <1>9, <1>1 DEF Completes, Points, EventOK
  <2>3. t \in State /\ t.seq = n
    BY <2>1, <1>1, <1>2 DEF State
  <2>4. Follows(l, t)
    BY <2>1, <2>2, <2>3, <1>1, <1>2, <1>3, <1>4, <1>5 DEF Follows, State
  <2>5. QED
    BY <2>1, <2>2, <2>3, <2>4, <1>2, <1>6 DEF IsLogged, HasEnded, State
<1>10. CASE e.kind = "completed"
  <2>1. Quiet(l, n - 1)
    <3>1. n > 1 /\ l[n - 1].kind = "started" /\ n - 1 \in 1 .. Len(l)
      BY <1>10, <1>1 DEF EventOK
    <3>2. EventOK(l, n - 1)
      BY <3>1 DEF LogOK
    <3>3. Quiet(l, n - 2) /\ l[n - 1].outcome = NoOutcome
      BY <3>1, <3>2 DEF EventOK
    <3>4. QED
      BY <3>1, <3>3 DEF Quiet
  <2>2. CASE e.outcome = NoOutcome
    <3>1. t = [s EXCEPT !.status = "running", !.node = e.to, !.step = @ + 1, !.seq = n]
      BY <1>10, <2>2 DEF Reduced, reduceCompletedNode
    <3>2. Completes(l, n) /\ Points(l, n) /\ e.to \in Node
      BY <1>10, <2>2, <1>1 DEF Completes, Points, EventOK, Event
    <3>3. t \in State /\ t.seq = n
      <4>1. t = [status |-> "running", outcome |-> s.outcome, node |-> e.to,
                 step |-> s.step + 1, seq |-> n]
        BY <3>1, <1>2 DEF State
      <4>2. QED
        BY <4>1, <3>2, <1>1, <1>2 DEF State
    <3>4. s.outcome \in {NoOutcome, "failed"} /\ (HasEnded(s) => s.outcome = "failed")
      BY <1>8, <2>1 DEF Follows, HasEnded
    <3>5. Follows(l, t)
      BY <3>1, <3>2, <3>3, <3>4, <2>1, <2>2, <1>1, <1>2, <1>3, <1>4, <1>5 DEF Follows, State
    <3>6. QED
      BY <3>1, <3>2, <3>3, <3>4, <3>5, <1>2 DEF IsLogged, HasEnded, State
  <2>3. CASE e.outcome # NoOutcome
    <3>1. t = [withOutcome(s, e.outcome) EXCEPT !.seq = n]
      BY <1>10, <2>3 DEF Reduced, reduceCompletedNode
    <3>2. ~Completes(l, n) /\ ~Points(l, n) /\ e.outcome \in Outcome /\ EndsBy(l, n, e.outcome)
      BY <1>10, <2>1, <2>3, <1>1, <1>7 DEF Completes, Points, EventOK, Event
    <3>3. t \in State /\ t.seq = n
      BY <3>1, <3>2, <1>1, <1>2 DEF State, withOutcome
    <3>4. Follows(l, t)
      BY <3>1, <3>2, <3>3, <2>3, <1>1, <1>2, <1>3, <1>4, KernelOutcomeAssumption
      DEF Follows, State, withOutcome, isTerminal
    <3>5. QED
      BY <3>1, <3>2, <3>3, <3>4, <1>2, <1>6, KernelOutcomeAssumption
      DEF IsLogged, HasEnded, State, withOutcome, isTerminal
  <2>4. QED
    BY <2>2, <2>3
<1>11. CASE e.kind = "after"
  <2>1. n > 1 /\ l[n - 1].kind = "completed" /\ ~Completes(l, n)
    BY <1>11, <1>1 DEF EventOK, Completes
  <2>2. CASE isTerminal(s)
    <3>1. t = [s EXCEPT !.seq = n]
      BY <1>11, <2>2 DEF Reduced, reduceAfterMiddleware
    <3>2. ~Points(l, n)
      BY <1>11, <2>1, <2>2 DEF Points, Follows, Completes, isTerminal
    <3>3. t \in State /\ t.seq = n
      BY <3>1, <1>1, <1>2 DEF State
    <3>4. Follows(l, t)
      BY <3>1, <3>2, <3>3, <2>1, <2>2, <1>1, <1>2, <1>3, <1>4 DEF Follows, State, isTerminal
    <3>5. QED
      BY <3>1, <3>3, <3>4, <2>1, <1>2, <1>6 DEF IsLogged, HasEnded, State
  <2>3. CASE ~isTerminal(s) /\ e.outcome # NoOutcome
    <3>1. t = [withOutcome(s, e.outcome) EXCEPT !.seq = n]
      BY <1>11, <2>3 DEF Reduced, reduceAfterMiddleware
    <3>2. ~Points(l, n) /\ e.outcome \in Outcome /\ EndsBy(l, n, e.outcome)
      BY <1>11, <2>3, <1>1, <1>7 DEF Points, EventOK, Event, Follows, isTerminal
    <3>3. t \in State /\ t.seq = n
      BY <3>1, <3>2, <1>1, <1>2 DEF State, withOutcome
    <3>4. Follows(l, t)
      BY <3>1, <3>2, <3>3, <2>1, <2>3, <1>1, <1>2, <1>3, <1>4, KernelOutcomeAssumption
      DEF Follows, State, withOutcome, isTerminal
    <3>5. QED
      BY <3>1, <3>2, <3>3, <3>4, <2>3, <1>2, <1>6, KernelOutcomeAssumption
      DEF IsLogged, HasEnded, State, withOutcome, isTerminal
  <2>4. CASE ~isTerminal(s) /\ e.outcome = NoOutcome
    <3>1. t = [Controlled(s, e) EXCEPT !.seq = n]
      BY <1>11, <2>4 DEF Reduced, reduceAfterMiddleware
    <3>2. Points(l, n) <=> e.to # NoNode
      <4>1. Quiet(l, n - 1) /\ n - 1 \in 1 .. n - 1
        BY <2>1, <2>4, <1>1 DEF Follows, isTerminal
      <4>2. l[n - 1].outcome = NoOutcome
        BY <4>1 DEF Quiet
      <4>3. QED
        BY <4>2 DEF Points
    <3>3. t \in State /\ t.seq = n
      BY <3>1, <1>1, <1>2 DEF State, Controlled, Event
    <3>4. Follows(l, t)
      BY <3>1, <3>2, <3>3, <2>1, <2>4, <1>1, <1>2, <1>3, <1>4, <1>5
      DEF Follows, State, Controlled, isTerminal
    <3>5. QED
      BY <3>1, <3>3, <3>4, <2>1, <2>4, <1>2 DEF IsLogged, HasEnded, State, Controlled, isTerminal
  <2>5. QED
    BY <2>2, <2>3, <2>4
<1>12. QED
  BY <1>1, <1>9, <1>10, <1>11 DEF Event
-----------------------------------------------------------------------------
(***************************************************************************)
(* What a replay does, event by event.                                     *)
(***************************************************************************)
\* What Replay(s) has after event n, given what it had after the events before.
AfterEvent(s, f, n) ==
  IF n = s.seq THEN [s |-> s, matches |-> TRUE]
  ELSE [s |-> Reduced(f[n - 1].s, log[n], n),
        matches |-> f[n - 1].matches /\ (log[n].kind = "completed" => log[n].node = f[n - 1].s.node)]

\* The recursive function of Replay exists.
LEMMA ReplayIsDefined ==
  ASSUME NEW s, s.seq \in Nat, Len(log) \in Nat, s.seq <= Len(log)
  PROVE  \E f : f = [n \in s.seq .. Len(log) |-> AfterEvent(s, f, n)] /\ Replay(s) = f[Len(log)]
<1> DEFINE Is(f, k) == f = [n \in s.seq .. k |-> AfterEvent(s, f, n)]
           T == {k \in s.seq .. Len(log) : ~\E f : Is(f, k)}
<1>1. T = {}
  <2>1. SUFFICES ASSUME T # {} PROVE FALSE
    OBVIOUS
  <2>2. PICK k \in T : \A j \in T : k <= j
    <3>1. T \subseteq Nat
      OBVIOUS
    <3>2. QED
      BY ONLY <2>1, <3>1, LeastMember
  <2>3. CASE k = s.seq
    <3>1. Is([n \in s.seq .. k |-> [s |-> s, matches |-> TRUE]], k)
      BY <2>3 DEF AfterEvent
    <3>2. QED
      BY <3>1
  <2>4. CASE k # s.seq
    <3>1. k - 1 \in s.seq .. Len(log) /\ k - 1 \notin T
      BY <2>2, <2>4
    <3>2. PICK f : Is(f, k - 1)
      BY <3>1
    <3> DEFINE g == [n \in s.seq .. k |-> IF n = k THEN AfterEvent(s, f, k) ELSE f[n]]
    <3>3. ASSUME NEW n \in s.seq .. k PROVE g[n] = AfterEvent(s, g, n)
      <4>1. CASE n = k
        <5>1. k # s.seq /\ k - 1 \in s.seq .. k /\ k - 1 # k /\ g[n] = AfterEvent(s, f, k)
          BY <4>1, <2>4
        <5>2. g[k - 1] = f[k - 1]
          BY <5>1
        <5> HIDE DEF g
        <5>3. QED
          BY <4>1, <5>1, <5>2 DEF AfterEvent
      <4>2. CASE n # k
        <5>1. n \in s.seq .. k - 1 /\ g[n] = f[n]
          BY <4>2
        <5>2. f[n] = AfterEvent(s, f, n)
          BY <5>1, <3>2
        <5>3. n # s.seq => n - 1 \in s.seq .. k /\ n - 1 # k
          BY <5>1
        <5>4. n # s.seq => g[n - 1] = f[n - 1]
          BY <5>3
        <5>5. AfterEvent(s, f, n) = AfterEvent(s, g, n)
          BY <5>4 DEF AfterEvent
        <5>6. QED
          BY <5>1, <5>2, <5>5
      <4>3. QED
        BY <4>1, <4>2
    <3>4. Is(g, k)
      BY <3>3
    <3>5. QED
      BY <3>4
  <2>5. QED
    BY <2>3, <2>4
<1>2. \E f : Is(f, Len(log))
  BY <1>1
<1> DEFINE at == CHOOSE f : Is(f, Len(log))
<1>3. Is(at, Len(log))
  BY <1>2
<1>4. Replay(s) = at[Len(log)]
  BY DEF Replay, AfterEvent
<1>5. QED
  BY <1>3, <1>4

\* The log completes a step beyond its first n events.
StepsBeyond(l, n) == \E i \in n + 1 .. Len(l) : Completes(l, i)

\* A state that has ended otherwise than in failure is of the whole log.
ClosesLog(l, s) == s.status \notin {"running", "failed"} => s.seq = Len(l)

\* A replay leads to where the log is, to an outcome it has unless that of the snapshot
\* is still the last word; it leaves a failure alone if it has no step to add.
LEMMA ReplayFollows ==
  ASSUME LogOK(log), NEW s, Follows(log, s), ClosesLog(log, s)
  PROVE  LET t == Replay(s).s IN
         /\ Follows(log, t) /\ t.seq = Len(log)
         /\ t = s \/ IsLogged(log, t)
         /\ HasEnded(s) => HasEnded(t)
         /\ s.status = "failed" /\ ~StepsBeyond(log, s.seq) => t.status = "failed"
<1>1. Len(log) \in Nat /\ s \in State /\ s.seq \in Nat /\ s.seq <= Len(log)
  BY DEF LogOK, Follows, State
<1>2. PICK f : f = [n \in s.seq .. Len(log) |-> AfterEvent(s, f, n)] /\ Replay(s) = f[Len(log)]
  BY <1>1, ReplayIsDefined
<1> DEFINE C(n) == LET t == f[n].s IN
              /\ Follows(log, t) /\ t.seq = n
              /\ (n = s.seq /\ t = s) \/ IsLogged(log, t)
              /\ HasEnded(s) => HasEnded(t)
              /\ s.status = "failed" /\ ~StepsBeyond(log, s.seq) => t.status = "failed"
           T == {n \in s.seq .. Len(log) : ~C(n)}
<1>3. T = {}
  <2>1. SUFFICES ASSUME T # {} PROVE FALSE
    OBVIOUS
  <2>2. PICK n \in T : \A j \in T : n <= j
    <3>1. T \subseteq Nat
      BY <1>1
    <3>2. QED
      BY ONLY <2>1, <3>1, LeastMember
  <2>3. n \in s.seq .. Len(log) /\ ~C(n) /\ f[n] = AfterEvent(s, f, n)
    BY <1>2
  <2>4. CASE n = s.seq
    <3>1. f[n].s = s
      BY <2>3, <2>4 DEF AfterEvent
    <3>2. C(n)
      BY <3>1, <2>4 DEF HasEnded
    <3>3. QED
      BY <2>3, <3>2
  <2>5. CASE n # s.seq
    <3> DEFINE p == f[n - 1].s
    <3>1. n - 1 \in s.seq .. Len(log) /\ n - 1 \notin T /\ n \in 1 .. Len(log)
      BY <2>2, <2>5, <1>1
    <3>2. C(n - 1)
      BY <3>1
    <3>3. IsLogged(log, p)
      <4>1. CASE n - 1 = s.seq /\ p = s
        BY <4>1, <3>1, <1>1 DEF IsLogged, ClosesLog
      <4>2. QED
        BY <4>1, <3>2
    <3>4. Follows(log, p) /\ p.seq = n - 1
      BY <3>2
    <3>5. f[n].s = Reduced(p, log[n], n)
      BY <2>3, <2>5 DEF AfterEvent
    <3>6. /\ Follows(log, f[n].s) /\ IsLogged(log, f[n].s) /\ f[n].s.seq = n
          /\ HasEnded(p) => HasEnded(f[n].s)
          /\ p.status = "failed" /\ ~Completes(log, n) => f[n].s.status = "failed"
      BY <3>1, <3>3, <3>4, <3>5, FollowsNext
    <3>7. ~StepsBeyond(log, s.seq) => ~Completes(log, n)
      BY <3>1, <2>5, <1>1 DEF StepsBeyond
    <3> HIDE DEF p
    <3>8. C(n)
      BY <3>2, <3>6, <3>7 DEF p
    <3>9. QED
      BY <2>3, <3>8
  <2>6. QED
    BY <2>4, <2>5
<1>4. C(Len(log))
  BY <1>1, <1>3
<1>5. QED
  BY <1>2, <1>4
-----------------------------------------------------------------------------
(***************************************************************************)
(* The inductive invariant.                                                *)
(***************************************************************************)
LastIs(l, kind) == l # <<>> /\ Last(l).kind = kind

IsClosed(s) == s.status \notin {"running", "failed"}

\* The run has ended with o: the log has it, or, of a hook that ended it before a node,
\* only the snapshot.
EndIs(o) ==
  EndsBy(log, Len(log), o) \/ (Quiet(log, Len(log)) /\ IsClosed(snapshot) /\ snapshot.outcome = o)

\* The snapshot is where the log was at some time, never between a completion and its
\* after event; nothing follows an end that it knows of.
SnapshotInv ==
  /\ Follows(log, snapshot) /\ ClosesLog(log, snapshot)
  /\ snapshot.seq > 0 => log[snapshot.seq].kind # "completed"
  /\ IsClosed(snapshot) => EndIs(snapshot.outcome)

Replaying == {"replayed", "replayedNode", "appendReplayed"}
Live == {"beforeRun", "node", "append", "beforeNode", "handler", "completedNode", "checkpoint"}

\* Whoever has an end in memory, with or without the lease, has the end of the run, or
\* a failure.
MemoryInv(r) ==
  /\ isTerminal(st[r]) =>
       st[r].outcome = st[r].status /\ (st[r].status = "failed" \/ EndIs(st[r].status))
  /\ pc[r] \in Replaying /\ isTerminal(loaded[r]) => HasEnded(st[r])
  /\ pc[r] = "afterRun" => isTerminal(st[r])

\* Event e is the next one of a log that leads to s.
Fits(l, s, e) ==
  /\ e.kind # "after" =>
       ~isTerminal(s) /\ e.node = s.node /\ e.step = s.step
  /\ e.kind = "started" =>
       ~LastIs(l, "completed") /\ e.to = NoNode /\ e.outcome = NoOutcome
  /\ e.kind = "completed" =>
       LastIs(l, "started") /\ (e.to = NoNode <=> e.outcome # NoOutcome)
  /\ e.kind = "after" =>
       LastIs(l, "completed") /\ (e.to = NoNode \/ e.outcome = NoOutcome)

\* What the process that has the lease may rely on.
HolderInv(r) ==
  FenceIsValid(r) =>
    /\ pc[r] = "replay" => st[r] = snapshot /\ loaded[r] = snapshot
    /\ pc[r] \in Replaying =>
         /\ loaded[r] = snapshot
         /\ snapshot.status = "failed" /\ ~StepsBeyond(log, snapshot.seq) => st[r].status = "failed"
    /\ pc[r] \in Live => snapshot.status = "running"
    /\ pc[r] \in Replaying \cup Live => Follows(log, st[r]) /\ st[r].seq = Len(log)
    /\ pc[r] \in {"beforeRun", "node", "beforeNode", "handler"} => ~isTerminal(st[r])
    /\ pc[r] \in {"replayed", "beforeRun", "node", "checkpoint"} => ~LastIs(log, "completed")
    /\ pc[r] \in {"beforeNode", "handler"} => LastIs(log, "started")
    /\ pc[r] \in {"completedNode", "replayedNode"} => LastIs(log, "completed")
    /\ pc[r] \in {"append", "appendReplayed"} =>
         seq[r] = Len(log) + 1 /\ Fits(log, st[r], event[r])
    /\ pc[r] = "appendReplayed" => event[r].kind = "after"

ToldInv == \A o \in told : EndIs(o)

IInv ==
  /\ TypeOK /\ LogOK(log) /\ SnapshotInv /\ ToldInv
  /\ \A r \in Runtime : MemoryInv(r) /\ HolderInv(r)
-----------------------------------------------------------------------------
(***************************************************************************)
(* Logs grow at their end.                                                 *)
(***************************************************************************)
\* What was true of a log stays true when it grows.
LEMMA LogGrows ==
  ASSUME NEW l, LogOK(l), NEW e \in Event
  PROVE  LET m == Append(l, e) IN
         /\ m \in Seq(Event) /\ Len(m) = Len(l) + 1 /\ m[Len(l) + 1] = e
         /\ \A i \in 1 .. Len(l) : m[i] = l[i]
         /\ \A n \in 0 .. Len(l) : /\ StepsOf(m, n) = StepsOf(l, n)
                                   /\ PointedOf(m, n) = PointedOf(l, n)
                                   /\ Quiet(m, n) = Quiet(l, n)
         /\ \A o : EndsBy(l, Len(l), o) => EndsBy(m, Len(m), o)
         /\ \A s : Follows(l, s) => Follows(m, s)
         /\ \A s : Follows(l, s) /\ IsLogged(l, s) => IsLogged(m, s)
<1> DEFINE m == Append(l, e)
<1>1. m \in Seq(Event) /\ Len(m) = Len(l) + 1 /\ m[Len(l) + 1] = e /\ Len(l) \in Nat
  BY DEF LogOK
<1>2. \A i \in 1 .. Len(l) : m[i] = l[i]
  BY DEF LogOK
<1> HIDE DEF m
<1>3. ASSUME NEW n \in 0 .. Len(l)
      PROVE  StepsOf(m, n) = StepsOf(l, n) /\ PointedOf(m, n) = PointedOf(l, n) /\ Quiet(m, n) = Quiet(l, n)
  <2>1. \A i \in 1 .. n : l[i] = m[i]
    BY <1>2, <1>1
  <2>2. \A i \in 1 .. n : l[i].kind = "after" => i > 1
    BY <1>1 DEF LogOK, EventOK
  <2>3. n \in Nat
    BY <1>1
  <2>4. QED
    BY ONLY <2>1, <2>2, <2>3, SameBeginning
<1>4. ASSUME NEW n \in 0 .. Len(l), NEW k \in n .. Len(m), NEW o, EndsBy(l, n, o)
      PROVE  EndsBy(m, k, o)
  <2>1. PICK i \in 1 .. n : l[i].outcome = o /\ o # NoOutcome /\ Quiet(l, i - 1)
    BY <1>4 DEF EndsBy
  <2>2. i \in 1 .. k /\ i \in 1 .. Len(l) /\ i - 1 \in 0 .. Len(l)
    BY <1>1
  <2>3. m[i].outcome = o /\ Quiet(m, i - 1)
    BY <2>1, <2>2, <1>2, <1>3
  <2>4. QED
    BY <2>1, <2>2, <2>3 DEF EndsBy
<1>5. \A o : EndsBy(l, Len(l), o) => EndsBy(m, Len(m), o)
  BY <1>1, <1>4
<1>6. ASSUME NEW s, Follows(l, s) PROVE Follows(m, s)
  <2>1. s.seq \in 0 .. Len(l)
    BY <1>6, <1>1 DEF Follows, State
  <2>2. s.seq > 0 => m[s.seq] = l[s.seq]
    BY <2>1, <1>2, <1>1
  <2>3. QED
    BY <1>6, <2>1, <2>2, <1>1, <1>3 DEF Follows, Completes
<1>7. ASSUME NEW s, Follows(l, s), IsLogged(l, s) PROVE IsLogged(m, s)
  <2>1. s.seq \in 0 .. Len(l) /\ s.seq \in s.seq .. Len(m)
    BY <1>7, <1>1 DEF Follows, State
  <2>2. QED
    BY <1>4, <1>7, <2>1 DEF IsLogged
<1>8. QED
  BY <1>1, <1>2, <1>3, <1>5, <1>6, <1>7 DEF m

\* An event that fits a state the whole log leads to continues the log.
LEMMA EventContinues ==
  ASSUME NEW l, LogOK(l), NEW s, Follows(l, s), s.seq = Len(l), NEW e \in Event, Fits(l, s, e)
  PROVE  LogOK(Append(l, e))
<1> DEFINE m == Append(l, e)
           n == Len(l)
<1>1. n \in Nat /\ (l # <<>> <=> n > 0) /\ l \in Seq(Event)
  BY DEF LogOK
<1>2. /\ m \in Seq(Event) /\ Len(m) = n + 1 /\ m[n + 1] = e
      /\ \A i \in 1 .. n : m[i] = l[i]
      /\ \A i \in 0 .. n : StepsOf(m, i) = StepsOf(l, i) /\ PointedOf(m, i) = PointedOf(l, i)
                           /\ Quiet(m, i) = Quiet(l, i)
  BY LogGrows
<1> HIDE DEF m
<1>3. ASSUME NEW i \in 1 .. n PROVE EventOK(m, i)
  <2>1. EventOK(l, i) /\ m[i] = l[i] /\ (i > 1 => m[i - 1] = l[i - 1]) /\ i - 1 \in 0 .. n
    BY <1>1, <1>2 DEF LogOK
  <2>2. QED
    BY <2>1, <1>2 DEF EventOK
<1>4. EventOK(m, n + 1)
  <2>1. \A k : LastIs(l, k) <=> n + 1 > 1 /\ m[n].kind = k
    BY <1>1, <1>2 DEF LastIs, Last
  <2>2. StepsOf(m, n) = s.step /\ PointedOf(m, n) = s.node /\ (~isTerminal(s) => Quiet(m, n))
    BY <1>1, <1>2 DEF Follows, isTerminal
  <2>3. e.kind \in {"started", "completed", "after"}
    BY DEF Event
  <2>4. QED
    BY <2>1, <2>2, <2>3, <1>1, <1>2 DEF Fits, EventOK
<1>5. QED
  BY <1>1, <1>2, <1>3, <1>4 DEF LogOK, m
-----------------------------------------------------------------------------
(***************************************************************************)
(* What a step does to the snapshot and the log, and what it leaves true   *)
(* of them.                                                                *)
(***************************************************************************)
\* A new snapshot tells where the log is; an end that it tells is in the log, or has
\* come before a node.
Tells(s) ==
  /\ Follows(log, s) /\ s.seq = Len(log) /\ ~LastIs(log, "completed")
  /\ IsClosed(s) => EndsBy(log, Len(log), s.outcome) \/ Quiet(log, Len(log))

\* Account of a step: the log goes on right, the snapshot stays one of it, and no end is
\* forgotten.
AccountKept == LogOK(log)' /\ SnapshotInv' /\ \A o : EndIs(o) => EndIs(o)'

\* A step that changes neither keeps the account.
LEMMA NothingKeeps ==
  ASSUME LogOK(log), SnapshotInv, log' = log, snapshot' = snapshot
  PROVE  AccountKept
BY DEF AccountKept, SnapshotInv, EndIs

\* A save of where the log is keeps it while the run has not ended.
LEMMA SaveKeeps ==
  ASSUME LogOK(log), SnapshotInv, ~IsClosed(snapshot), NEW s, Tells(s), snapshot' = s, log' = log
  PROVE  AccountKept
<1>1. Len(log) \in Nat /\ log \in Seq(Event)
  BY DEF LogOK
<1>2. s.seq > 0 => log[s.seq].kind # "completed"
  BY <1>1 DEF Tells, LastIs, Last
<1>3. \A o : EndIs(o) => EndIs(o)'
  BY DEF EndIs
<1>4. IsClosed(s) => EndIs(s.outcome)'
  BY DEF Tells, EndIs
<1>5. QED
  BY <1>2, <1>3, <1>4 DEF AccountKept, SnapshotInv, Tells, ClosesLog, IsClosed

\* The failure that run's catch saves loses nothing.
LEMMA FailKeeps ==
  ASSUME LogOK(log), SnapshotInv, snapshot' \in {snapshot, FailedOn(snapshot)}, log' = log
  PROVE  AccountKept
<1>1. CASE snapshot' = snapshot
  BY <1>1, NothingKeeps
<1>2. CASE isTerminal(snapshot) /\ snapshot' = FailedOn(snapshot)
  BY <1>2, NothingKeeps DEF FailedOn, withOutcome
<1>3. CASE ~isTerminal(snapshot) /\ snapshot' = FailedOn(snapshot)
  <2>1. snapshot' = [snapshot EXCEPT !.status = "failed", !.outcome = "failed"]
        /\ snapshot \in State
    BY <1>3 DEF FailedOn, withOutcome, SnapshotInv, Follows
  <2>2. snapshot' \in State
    BY <2>1, KernelOutcomeAssumption DEF State
  <2>3. Follows(log, snapshot')
    BY <2>1, <2>2 DEF SnapshotInv, Follows, Completes, State
  <2>4. snapshot'.seq = snapshot.seq /\ ~IsClosed(snapshot') /\ ~IsClosed(snapshot)
    BY <2>1, <1>3 DEF IsClosed, State, isTerminal
  <2>5. \A o : EndIs(o) => EndIs(o)'
    BY <2>4 DEF EndIs
  <2>6. QED
    BY <2>3, <2>4, <2>5 DEF AccountKept, SnapshotInv, ClosesLog, IsClosed
<1>4. QED
  BY <1>1, <1>2, <1>3

\* The log goes on while the snapshot has no end.
LEMMA AppendKeeps ==
  ASSUME LogOK(log), SnapshotInv, ~IsClosed(snapshot), NEW e \in Event,
         log' = Append(log, e), LogOK(log'), snapshot' = snapshot
  PROVE  AccountKept
<1>1. Len(log) \in Nat /\ snapshot.seq \in Nat /\ snapshot.seq <= Len(log)
  BY DEF LogOK, SnapshotInv, Follows, State
<1>2. /\ Follows(log', snapshot) /\ \A i \in 1 .. Len(log) : log'[i] = log[i]
      /\ \A o : EndsBy(log, Len(log), o) => EndsBy(log', Len(log'), o)
  BY LogGrows DEF SnapshotInv
<1>3. \A o : EndIs(o) => EndIs(o)'
  BY <1>2 DEF EndIs
<1>4. snapshot.seq > 0 => log'[snapshot.seq].kind # "completed"
  BY <1>1, <1>2 DEF SnapshotInv
<1>5. ClosesLog(log', snapshot)
  BY DEF ClosesLog, IsClosed
<1>6. QED
  BY <1>2, <1>3, <1>4, <1>5 DEF AccountKept, SnapshotInv

\* While a process may record an event, the run has not ended, and the event is right.
LEMMA HolderAppends ==
  ASSUME IInv, NEW r \in Runtime, pc[r] \in {"append", "appendReplayed"}, FenceIsValid(r)
  PROVE  LET m == Append(log, event[r])
             t == Reduced(st[r], event[r], seq[r])
         IN
         /\ seq[r] = Len(log) + 1 /\ ~IsClosed(snapshot) /\ event[r] \in Event
         /\ LogOK(m) /\ Len(m) = Len(log) + 1 /\ m[Len(m)] = event[r]
         /\ Follows(m, t) /\ IsLogged(m, t) /\ t.seq = Len(m)
         /\ HasEnded(st[r]) => HasEnded(t)
         /\ st[r].status = "failed" /\ event[r].kind # "completed" => t.status = "failed"
         /\ event[r].kind = "started" => ~isTerminal(t)
<1> DEFINE m == Append(log, event[r])
           n == Len(log) + 1
           t == Reduced(st[r], event[r], seq[r])
<1>1. MemoryInv(r) /\ HolderInv(r) /\ LogOK(log) /\ SnapshotInv /\ event[r] \in Event /\ Len(log) \in Nat
  BY DEF IInv, TypeOK, LogOK
<1>2. seq[r] = n /\ Fits(log, st[r], event[r]) /\ Follows(log, st[r]) /\ st[r].seq = Len(log)
  BY <1>1 DEF HolderInv, Live, Replaying
<1>3. pc[r] = "appendReplayed" => LastIs(log, "completed")
  BY <1>1, <1>2 DEF HolderInv, Fits
<1>4. ~IsClosed(snapshot)
  <2>1. CASE pc[r] = "append"
    BY <2>1, <1>1 DEF HolderInv, Live, IsClosed
  <2>2. CASE pc[r] = "appendReplayed"
    <3>1. log # <<>> /\ log[Len(log)].kind = "completed" /\ Len(log) > 0
      BY <2>2, <1>3, <1>1 DEF LastIs, Last, LogOK
    <3>2. IsClosed(snapshot) => snapshot.seq = Len(log)
      BY <1>1 DEF SnapshotInv, ClosesLog, IsClosed
    <3>3. QED
      BY <3>1, <3>2, <1>1 DEF SnapshotInv
  <2>3. QED
    BY <2>1, <2>2
<1>5. IsLogged(log, st[r])
  BY <1>1, <1>2, <1>4 DEF IsLogged, MemoryInv, EndIs, isTerminal
<1>6. LogOK(m)
  BY <1>1, <1>2, EventContinues
<1>7. Len(m) = n /\ m[n] = event[r] /\ Follows(m, st[r]) /\ IsLogged(m, st[r])
  BY <1>1, <1>2, <1>5, LogGrows
<1>8. n \in 1 .. Len(m) /\ st[r].seq = n - 1
  BY <1>7, <1>2, <1>1
<1>9. /\ Follows(m, t) /\ IsLogged(m, t) /\ t.seq = n
      /\ HasEnded(st[r]) => HasEnded(t)
      /\ st[r].status = "failed" /\ ~Completes(m, n) => t.status = "failed"
  <2> HIDE DEF m, n
  <2>1. QED
    BY <1>2, <1>6, <1>7, <1>8, FollowsNext
<1>10. event[r].kind = "started" => ~isTerminal(t)
  <2>1. CASE event[r].kind = "started"
    <3>1. ~isTerminal(st[r]) /\ t = [st[r] EXCEPT !.seq = seq[r]] /\ st[r] \in State
      BY <2>1, <1>2 DEF Fits, Reduced, Follows
    <3>2. QED
      BY <3>1 DEF isTerminal, State
  <2>2. QED
    BY <2>1
<1>11. QED
  BY <1>1, <1>2, <1>4, <1>6, <1>7, <1>9, <1>10 DEF Completes
-----------------------------------------------------------------------------
(***************************************************************************)
(* The steps.                                                              *)
(***************************************************************************)
StepOf(r) ==
  \/ Acquire(r) \/ Load(r) \/ ReplayLog(r) \/ FinishReplayed(r) \/ Resume(r)
  \/ HookPasses(r) \/ HookEnds(r) \/ StartNextNode(r) \/ HandlerReturns(r)
  \/ AfterHookReturns(r) \/ AppendEvent(r) \/ Checkpoint(r) \/ AfterRun(r) \/ Release(r)
  \/ LoseLease(r) \/ HandlerThrows(r) \/ HookThrows(r) \/ Crash(r)

\* Only who has the lease changes the log or the snapshot, and right.
LEMMA StepKeepsAccount ==
  ASSUME IInv, NEW r \in Runtime, StepOf(r)
  PROVE  AccountKept /\ (UNCHANGED <<log, snapshot>> \/ (FenceIsValid(r) /\ lease' = lease))
<1> USE DEF IInv
<1>1. CASE Acquire(r)
  <2>1. log' = log /\ snapshot' = snapshot
    BY <1>1 DEF Acquire
  <2>2. QED
    BY <2>1, NothingKeeps
<1>2. CASE Load(r)
  BY <1>2, NothingKeeps DEF Load
<1>3. CASE ReplayLog(r)
  <2>1. CASE Replay(st[r]).matches
    BY <1>3, <2>1, NothingKeeps DEF ReplayLog
  <2>2. CASE ~Replay(st[r]).matches
    BY <1>3, <2>2, FailKeeps DEF ReplayLog, ReturnError
  <2>3. QED
    BY <2>1, <2>2
<1>4. CASE FinishReplayed(r)
  <2>1. CASE snapshot' = snapshot
    BY <1>4, <2>1, NothingKeeps DEF FinishReplayed
  <2>2. CASE snapshot' # snapshot
    <3>1. /\ FenceIsValid(r) /\ snapshot' = st[r] /\ log' = log /\ lease' = lease
          /\ ~isTerminal(loaded[r]) \/ st[r].seq > loaded[r].seq
      BY <1>4, <2>2 DEF FinishReplayed, Save
    <3>2. /\ loaded[r] = snapshot /\ Follows(log, st[r]) /\ st[r].seq = Len(log)
          /\ ~LastIs(log, "completed")
      BY <1>4, <3>1 DEF FinishReplayed, HolderInv, Replaying
    <3>3. ~IsClosed(snapshot)
      BY <3>1, <3>2 DEF SnapshotInv, ClosesLog, IsClosed, isTerminal, Follows, State
    <3>4. Tells(st[r])
      BY <3>2, <3>3 DEF Tells, MemoryInv, EndIs, isTerminal, IsClosed
    <3>5. QED
      BY <3>1, <3>3, <3>4, SaveKeeps
  <2>3. QED
    BY <2>1, <2>2
<1>5. CASE Resume(r)
  <2>1. CASE FenceIsValid(r)
    <3>1. snapshot' = st[r] /\ log' = log /\ lease' = lease /\ ~isTerminal(loaded[r]) /\ ~isTerminal(st[r])
      BY <1>5, <2>1 DEF Resume, Save
    <3>2. /\ loaded[r] = snapshot /\ Follows(log, st[r]) /\ st[r].seq = Len(log)
          /\ ~LastIs(log, "completed")
      BY <1>5, <2>1 DEF Resume, HolderInv, Replaying
    <3>3. ~IsClosed(snapshot) /\ Tells(st[r])
      BY <3>1, <3>2 DEF Tells, isTerminal, IsClosed
    <3>4. QED
      BY <2>1, <3>1, <3>3, SaveKeeps
  <2>2. CASE ~FenceIsValid(r)
    BY <1>5, <2>2, NothingKeeps DEF Resume
  <2>3. QED
    BY <2>1, <2>2
<1>6. CASE HookPasses(r)
  BY <1>6, NothingKeeps DEF HookPasses
<1>7. CASE HookEnds(r)
  <2>1. PICK o \in HookOutcome : snapshot' = withOutcome(st[r], o)
    BY <1>7 DEF HookEnds, Save
  <2>2. pc[r] \in {"beforeRun", "beforeNode"} /\ FenceIsValid(r) /\ log' = log /\ lease' = lease
    BY <1>7 DEF HookEnds
  <2>3. /\ ~IsClosed(snapshot) /\ ~isTerminal(st[r]) /\ Follows(log, st[r])
        /\ st[r].seq = Len(log) /\ ~LastIs(log, "completed")
    BY <2>2 DEF HolderInv, Live, IsClosed, LastIs
  <2>4. snapshot' = [st[r] EXCEPT !.status = o, !.outcome = o] /\ o \in Outcome /\ st[r] \in State
    BY <2>1, <2>3, KernelOutcomeAssumption DEF withOutcome, Follows
  <2>5. snapshot' \in State /\ Quiet(log, Len(log))
    BY <2>3, <2>4 DEF State, Follows, isTerminal
  <2>6. Follows(log, snapshot')
    BY <2>3, <2>4, <2>5, KernelOutcomeAssumption DEF State, Follows, isTerminal, LastIs, Last, Completes
  <2>7. Tells(snapshot')
    BY <2>3, <2>4, <2>5, <2>6 DEF Tells, State
  <2>8. QED
    BY <2>2, <2>3, <2>7, SaveKeeps
<1>8. CASE StartNextNode(r)
  <2>1. CASE snapshot' = snapshot
    BY <1>8, <2>1, NothingKeeps DEF StartNextNode
  <2>2. CASE snapshot' = st[r]
    <3>1. pc[r] = "node" /\ FenceIsValid(r) /\ log' = log /\ lease' = lease
      BY <1>8 DEF StartNextNode
    <3>2. ~IsClosed(snapshot) /\ Tells(st[r])
      BY <3>1 DEF HolderInv, Live, Tells, IsClosed, isTerminal
    <3>3. QED
      BY <2>2, <3>1, <3>2, SaveKeeps
  <2>3. QED
    BY <1>8, <2>1, <2>2 DEF StartNextNode, Save
<1>9. CASE HandlerReturns(r)
  BY <1>9, NothingKeeps DEF HandlerReturns
<1>10. CASE AfterHookReturns(r)
  BY <1>10, NothingKeeps DEF AfterHookReturns
<1>11. CASE AppendEvent(r)
  <2>1. CASE UNCHANGED <<log, snapshot>>
    BY <1>11, <2>1, NothingKeeps DEF AppendEvent
  <2>2. CASE ~UNCHANGED <<log, snapshot>>
    <3>1. pc[r] \in {"append", "appendReplayed"} /\ FenceIsValid(r) /\ lease' = lease
      BY <1>11, <2>2 DEF AppendEvent, AppendIsAccepted
    <3>2. /\ seq[r] = Len(log) + 1 /\ ~IsClosed(snapshot) /\ event[r] \in Event
          /\ LogOK(Append(log, event[r])) /\ Len(log) \in Nat
      BY <3>1, HolderAppends DEF LogOK
    <3>3. log' = Append(log, event[r]) /\ snapshot' = snapshot
      BY <1>11, <3>1, <3>2 DEF AppendEvent, AppendIsAccepted
    <3>4. QED
      BY <3>1, <3>2, <3>3, AppendKeeps
  <2>3. QED
    BY <2>1, <2>2
<1>12. CASE Checkpoint(r)
  <2>1. CASE snapshot' = snapshot
    BY <1>12, <2>1, NothingKeeps DEF Checkpoint
  <2>2. CASE snapshot' # snapshot
    <3>1. /\ FenceIsValid(r) /\ snapshot' = st[r] /\ log' = log /\ lease' = lease
          /\ pc[r] = "checkpoint"
      BY <1>12, <2>2 DEF Checkpoint, Save
    <3>2. /\ ~IsClosed(snapshot) /\ Follows(log, st[r]) /\ st[r].seq = Len(log)
          /\ ~LastIs(log, "completed")
      BY <3>1 DEF HolderInv, Live, IsClosed
    <3>3. Tells(st[r])
      BY <3>2 DEF Tells, MemoryInv, EndIs, isTerminal, IsClosed
    <3>4. QED
      BY <3>1, <3>2, <3>3, SaveKeeps
  <2>3. QED
    BY <2>1, <2>2
<1>13. CASE AfterRun(r)
  BY <1>13, NothingKeeps DEF AfterRun
<1>14. CASE Release(r)
  <2>1. log' = log /\ snapshot' = snapshot
    BY <1>14 DEF Release
  <2>2. QED
    BY <2>1, NothingKeeps
<1>15. CASE LoseLease(r)
  BY <1>15, NothingKeeps DEF LoseLease
<1>16. CASE HandlerThrows(r)
  BY <1>16, FailKeeps DEF HandlerThrows, ReturnError
<1>17. CASE HookThrows(r)
  BY <1>17, FailKeeps DEF HookThrows, ReturnError
<1>18. CASE Crash(r)
  <2>1. log' = log /\ snapshot' = snapshot
    BY <1>18 DEF Crash
  <2>2. QED
    BY <2>1, NothingKeeps
<1>19. QED
  BY <1>1, <1>2, <1>3, <1>4, <1>5, <1>6, <1>7, <1>8, <1>9, <1>10, <1>11, <1>12, <1>13,
     <1>14, <1>15, <1>16, <1>17, <1>18
  DEF StepOf

ToldOK == told \subseteq Outcome /\ ToldInv

\* What run returns is a failure, which is no end, or the end.
LEMMA ReturnTells ==
  ASSUME IInv, AccountKept, NEW r \in Runtime, NEW o \in Outcome, o = "failed" \/ EndIs(o)',
         Return(r, o)
  PROVE  ToldOK'
BY DEF IInv, TypeOK, ToldInv, ToldOK, AccountKept, Return

\* What run returns from a terminal snapshot is a failure or the end.
LEMMA SnapshotTells ==
  ASSUME IInv, isTerminal(snapshot)
  PROVE  OutcomeOf(snapshot) \in Outcome
         /\ (OutcomeOf(snapshot) = "failed" \/ EndIs(OutcomeOf(snapshot)))
<1>1. snapshot \in State /\ snapshot.outcome = snapshot.status
  BY DEF IInv, TypeOK, SnapshotInv, Follows, isTerminal
<1>2. OutcomeOf(snapshot) = snapshot.status /\ snapshot.status \in Outcome
  BY <1>1 DEF OutcomeOf, State, isTerminal
<1>3. QED
  BY <1>1, <1>2 DEF IInv, SnapshotInv, IsClosed, isTerminal

\* A run that has lost its lease tells the end, if it tells one.
LEMMA LostTells ==
  ASSUME IInv, AccountKept, NEW r \in Runtime, NEW carried \in BOOLEAN,
         carried => isTerminal(st[r]), ReturnLost(r, carried)
  PROVE  ToldOK'
<1>1. CASE carried
  <2>1. Return(r, OutcomeOf(st[r])) /\ st[r] \in State /\ MemoryInv(r)
    BY <1>1 DEF ReturnLost, IInv, TypeOK
  <2>2. OutcomeOf(st[r]) = st[r].status /\ st[r].status \in Outcome
    BY <1>1, <2>1 DEF MemoryInv, OutcomeOf, State, isTerminal
  <2>3. st[r].status = "failed" \/ EndIs(st[r].status)
    BY <1>1, <2>1 DEF MemoryInv
  <2>4. QED
    BY <2>1, <2>2, <2>3, ReturnTells DEF AccountKept
<1>2. CASE ~carried /\ isTerminal(snapshot)
  <2>1. Return(r, OutcomeOf(snapshot))
    BY <1>2 DEF ReturnLost
  <2>2. QED
    BY <1>2, <2>1, SnapshotTells, ReturnTells DEF AccountKept
<1>3. CASE ~carried /\ ~isTerminal(snapshot)
  <2>1. Return(r, "failed")
    BY <1>3 DEF ReturnLost
  <2>2. QED
    BY <2>1, ReturnTells, KernelOutcomeAssumption
<1>4. QED
  BY <1>1, <1>2, <1>3

\* So does one that failed.
LEMMA ErrorTells ==
  ASSUME IInv, AccountKept, NEW r \in Runtime, ReturnError(r)
  PROVE  ToldOK'
<1>1. CASE isTerminal(snapshot)
  <2>1. Return(r, OutcomeOf(snapshot))
    BY <1>1 DEF ReturnError
  <2>2. QED
    BY <1>1, <2>1, SnapshotTells, ReturnTells DEF AccountKept
<1>2. CASE ~isTerminal(snapshot)
  <2>1. Return(r, "failed")
    BY <1>2 DEF ReturnError
  <2>2. QED
    BY <2>1, ReturnTells, KernelOutcomeAssumption
<1>3. QED
  BY <1>1, <1>2

\* An end that a hook gives a run is the end of the run.
LEMMA HookEndIsTheEnd ==
  ASSUME IInv, NEW r \in Runtime, pc[r] \in {"beforeRun", "beforeNode"}, FenceIsValid(r),
         NEW o \in HookOutcome, snapshot' = withOutcome(st[r], o), log' = log
  PROVE  /\ o \in Outcome /\ (o = "failed" \/ EndIs(o)')
         /\ withOutcome(st[r], o).status = o /\ withOutcome(st[r], o).outcome = o
<1>1. ~isTerminal(st[r]) /\ st[r] \in State /\ Quiet(log, Len(log)) /\ o \in Outcome
  BY KernelOutcomeAssumption DEF IInv, HolderInv, Live, Follows, isTerminal
<1>2. withOutcome(st[r], o).status = o /\ withOutcome(st[r], o).outcome = o
  BY <1>1 DEF withOutcome, State
<1>3. o = "failed" \/ EndIs(o)'
  BY <1>1, <1>2, KernelOutcomeAssumption DEF EndIs, IsClosed
<1>4. QED
  BY <1>1, <1>2, <1>3

\* Every step tells the end of the run, or nothing.
LEMMA StepTells ==
  ASSUME IInv, NEW r \in Runtime, StepOf(r)
  PROVE  ToldOK'
<1> USE DEF IInv
<1>1. AccountKept
  BY StepKeepsAccount
<1>0. ASSUME told' = told PROVE ToldOK'
  BY <1>0, <1>1 DEF ToldOK, ToldInv, TypeOK, AccountKept
<1>2. CASE Acquire(r)
  BY <1>2, <1>0 DEF Acquire
<1>3. CASE Load(r)
  BY <1>3, <1>0 DEF Load
<1>4. CASE ReplayLog(r)
  <2>1. told' = told \/ ReturnError(r)
    BY <1>4 DEF ReplayLog
  <2>2. QED
    BY <2>1, <1>0, <1>1, ErrorTells
<1>5. CASE FinishReplayed(r)
  <2>1. CASE Return(r, OutcomeOf(st[r]))
    <3>1. HasEnded(st[r]) /\ st[r] \in State
      BY <1>5 DEF FinishReplayed, MemoryInv, Replaying, TypeOK, HasEnded, isTerminal
    <3>2. OutcomeOf(st[r]) = "failed" \/ EndIs(OutcomeOf(st[r]))
      BY <3>1, KernelOutcomeAssumption DEF HasEnded, OutcomeOf, MemoryInv, isTerminal, State
    <3>3. OutcomeOf(st[r]) \in Outcome
      BY <3>1, KernelOutcomeAssumption DEF HasEnded, OutcomeOf, MemoryInv, isTerminal, State
    <3>4. QED
      BY <2>1, <3>2, <3>3, <1>1, ReturnTells DEF AccountKept
  <2>2. QED
    BY <1>5, <2>1, <1>1, LostTells DEF FinishReplayed
<1>6. CASE Resume(r)
  BY <1>6, <1>0, <1>1, LostTells DEF Resume
<1>7. CASE HookPasses(r)
  BY <1>7, <1>0 DEF HookPasses
<1>8. CASE HookEnds(r)
  <2>1. PICK o \in HookOutcome : snapshot' = withOutcome(st[r], o) /\ Return(r, o)
    BY <1>8 DEF HookEnds, Save
  <2>2. o \in Outcome /\ (o = "failed" \/ EndIs(o)')
    BY <1>8, <2>1, HookEndIsTheEnd DEF HookEnds
  <2>3. QED
    BY <2>1, <2>2, <1>1, ReturnTells
<1>9. CASE StartNextNode(r)
  BY <1>9, <1>0 DEF StartNextNode
<1>10. CASE HandlerReturns(r)
  BY <1>10, <1>0 DEF HandlerReturns
<1>11. CASE AfterHookReturns(r)
  BY <1>11, <1>0 DEF AfterHookReturns
<1>12. CASE AppendEvent(r)
  <2>1. told' = told \/ ReturnLost(r, FALSE) \/ ReturnError(r)
    BY <1>12 DEF AppendEvent
  <2>2. QED
    BY <2>1, <1>0, <1>1, LostTells, ErrorTells
<1>13. CASE Checkpoint(r)
  <2>1. told' = told \/ ReturnLost(r, FALSE)
    BY <1>13 DEF Checkpoint
  <2>2. QED
    BY <2>1, <1>0, <1>1, LostTells
<1>14. CASE AfterRun(r)
  <2>1. Return(r, OutcomeOf(st[r])) /\ isTerminal(st[r]) /\ st[r] \in State
    BY <1>14 DEF AfterRun, MemoryInv, TypeOK
  <2>2. OutcomeOf(st[r]) \in Outcome /\ (OutcomeOf(st[r]) = "failed" \/ EndIs(OutcomeOf(st[r])))
    BY <2>1 DEF MemoryInv, OutcomeOf, State, isTerminal
  <2>3. QED
    BY <2>1, <2>2, <1>1, ReturnTells DEF AccountKept
<1>15. CASE Release(r)
  BY <1>15, <1>0 DEF Release
<1>16. CASE LoseLease(r)
  <2>1. ReturnLost(r, isTerminal(st[r]))
    BY <1>16 DEF LoseLease
  <2>2. isTerminal(st[r]) \in BOOLEAN
    BY DEF isTerminal
  <2>3. QED
    BY <2>1, <2>2, <1>1, LostTells
<1>17. CASE HandlerThrows(r)
  BY <1>17, <1>1, ErrorTells DEF HandlerThrows
<1>18. CASE HookThrows(r)
  BY <1>18, <1>1, ErrorTells DEF HookThrows
<1>19. CASE Crash(r)
  BY <1>19, <1>0 DEF Crash
<1>20. QED
  BY <1>2, <1>3, <1>4, <1>5, <1>6, <1>7, <1>8, <1>9, <1>10, <1>11, <1>12, <1>13, <1>14,
     <1>15, <1>16, <1>17, <1>18, <1>19
  DEF StepOf

\* What the replay of the process that has the lease leads to.
LEMMA ReplayOfHolder ==
  ASSUME IInv, NEW r \in Runtime, pc[r] = "replay", FenceIsValid(r)
  PROVE  LET t == Replay(st[r]).s IN
         /\ st[r] = snapshot /\ loaded[r] = snapshot
         /\ Follows(log, t) /\ t.seq = Len(log)
         /\ t = snapshot \/ IsLogged(log, t)
         /\ HasEnded(snapshot) => HasEnded(t)
         /\ snapshot.status = "failed" /\ ~StepsBeyond(log, snapshot.seq) => t.status = "failed"
<1>1. st[r] = snapshot /\ loaded[r] = snapshot
  BY DEF IInv, HolderInv
<1>2. LogOK(log) /\ Follows(log, snapshot) /\ ClosesLog(log, snapshot)
  BY DEF IInv, SnapshotInv
<1>3. QED
  BY <1>1, <1>2, ReplayFollows

LocalTypes ==
  /\ lease \in [holder : Runtime \cup {Dead}, lapsed : BOOLEAN] \cup {NoLease}
  /\ pc \in [Runtime -> Label]
  /\ st \in [Runtime -> State] /\ loaded \in [Runtime -> State]
  /\ event \in [Runtime -> Event] /\ seq \in [Runtime -> Nat]
  /\ faults \in 0 .. MaxFaults

\* The first state, and the event that stands for none, have their types.
LEMMA FirstTypes == initialState \in State /\ NoEvent \in Event
BY KernelGraphAssumption DEF initialState, NoEvent, EventAt, State, Event

\* Every step leaves lease, memory and faults of their types.
LEMMA StepTypes ==
  ASSUME IInv, NEW r \in Runtime, StepOf(r)
  PROVE  LocalTypes'
<1>1. /\ LocalTypes /\ snapshot \in State /\ LogOK(log) /\ Len(log) \in Nat
      /\ st[r] \in State /\ event[r] \in Event
  BY DEF IInv, TypeOK, LocalTypes, LogOK
<1>2. initialState \in State /\ NoEvent \in Event
  BY FirstTypes
<1> USE <1>1 DEF LocalTypes, Label
<1>3. CASE Acquire(r)
  BY <1>3 DEF Acquire, Goto
<1>4. CASE Load(r)
  BY <1>4 DEF Load, Goto
<1>5. CASE ReplayLog(r)
  <2>1. Replay(st[r]).s \in State
    BY <1>5, ReplayOfHolder DEF ReplayLog, Follows
  <2>2. PendingAfter => Last(log) \in Event
    BY DEF PendingAfter, LogOK, Last
  <2>3. CASE Replay(st[r]).matches
    BY <1>5, <2>1, <2>2, <2>3 DEF ReplayLog, Goto
  <2>4. CASE ~Replay(st[r]).matches
    BY <1>5, <2>4 DEF ReplayLog, ReturnError, Return, Goto
  <2>5. QED
    BY <2>3, <2>4
<1>6. CASE FinishReplayed(r)
  BY <1>6 DEF FinishReplayed, Return, ReturnLost, ReturnError, Goto
<1>7. CASE Resume(r)
  BY <1>7 DEF Resume, Return, ReturnLost, ReturnError, Goto
<1>8. CASE HookPasses(r)
  BY <1>8 DEF HookPasses, Goto
<1>9. CASE HookEnds(r)
  <2>1. PICK o \in HookOutcome : st' = [st EXCEPT ![r] = withOutcome(@, o)]
    BY <1>9 DEF HookEnds
  <2>2. withOutcome(st[r], o) \in State
    BY KernelOutcomeAssumption DEF withOutcome, State
  <2>3. QED
    BY <1>9, <2>1, <2>2 DEF HookEnds, Return, Goto
<1>10. CASE StartNextNode(r)
  <2>1. EventAt("started", st[r], NoNode, NoOutcome) \in Event
    BY DEF EventAt, Event, State
  <2>2. QED
    BY <1>10, <2>1 DEF StartNextNode, Record, Goto
<1>11. CASE HandlerReturns(r)
  <2>1. PICK x \in Result(st[r]) : Record(r, EventAt("completed", st[r], x[1], x[2]))
    BY <1>11 DEF HandlerReturns
  <2>2. EventAt("completed", st[r], x[1], x[2]) \in Event
    BY KernelGraphAssumption, KernelOutcomeAssumption DEF EventAt, Event, State, Result
  <2>3. QED
    BY <1>11, <2>1, <2>2 DEF HandlerReturns, Record, Goto
<1>12. CASE AfterHookReturns(r)
  <2>1. PICK x \in AfterCommand :
          event' = [event EXCEPT ![r] = [@ EXCEPT !.kind = "after", !.to = x[1], !.outcome = x[2]]]
    BY <1>12 DEF AfterHookReturns
  <2>2. [event[r] EXCEPT !.kind = "after", !.to = x[1], !.outcome = x[2]] \in Event
    <3>1. x[1] \in Node \cup {NoNode} /\ x[2] \in Outcome \cup {NoOutcome}
      BY KernelGraphAssumption, KernelOutcomeAssumption DEF AfterCommand
    <3>2. QED
      BY <3>1 DEF Event
  <2>3. QED
    BY <1>12, <2>1, <2>2 DEF AfterHookReturns, Goto
<1>13. CASE AppendEvent(r)
  <2>1. CASE FenceIsValid(r)
    <3>1. seq[r] = Len(log) + 1 /\ Reduced(st[r], event[r], seq[r]) \in State
      BY <1>13, <2>1, HolderAppends DEF AppendEvent, Follows
    <3>2. NextLabel(event[r].kind) \in Label
      BY DEF NextLabel, Event, Label
    <3>3. ~(seq[r] <= Len(log))
      BY <3>1, <1>1
    <3>4. /\ st' = [st EXCEPT ![r] = Reduced(st[r], event[r], seq[r])]
          /\ pc' = [pc EXCEPT ![r] = IF pc[r] = "append" THEN NextLabel(event[r].kind) ELSE "replayed"]
          /\ UNCHANGED <<lease, loaded, event, seq, faults>>
      BY <1>13, <2>1, <3>3 DEF AppendEvent, AppendIsAccepted, Goto
    <3> HIDE <1>1
    <3>5. QED
      BY <1>1, <3>1, <3>2, <3>4
  <2>2. CASE ~FenceIsValid(r)
    BY <1>13, <2>2 DEF AppendEvent, AppendIsAccepted, Return, ReturnLost, Goto
  <2>3. QED
    BY <2>1, <2>2
<1>14. CASE Checkpoint(r)
  BY <1>14 DEF Checkpoint, Return, ReturnLost, ReturnError, Goto
<1>15. CASE AfterRun(r)
  BY <1>15 DEF AfterRun, Return, Goto
<1>16. CASE Release(r)
  BY <1>16, <1>2, KernelFaultAssumption DEF Release, Forget, Goto, Spend
<1>17. CASE LoseLease(r)
  BY <1>17, KernelFaultAssumption DEF LoseLease, Return, ReturnLost, ReturnError, Goto, Spend
<1>18. CASE HandlerThrows(r)
  BY <1>18, KernelFaultAssumption DEF HandlerThrows, Return, ReturnLost, ReturnError, Goto,
     Spend
<1>19. CASE HookThrows(r)
  BY <1>19, KernelFaultAssumption DEF HookThrows, Return, ReturnLost, ReturnError, Goto, Spend
<1>20. CASE Crash(r)
  BY <1>20, <1>2, KernelFaultAssumption DEF Crash, Forget, Goto, Spend
<1>21. QED
  BY <1>3, <1>4, <1>5, <1>6, <1>7, <1>8, <1>9, <1>10, <1>11, <1>12, <1>13, <1>14, <1>15,
     <1>16, <1>17, <1>18, <1>19, <1>20
  DEF StepOf

\* An end that a process has in memory stays the end of the run.
LEMMA StepKeepsMemory ==
  ASSUME IInv, NEW r \in Runtime, StepOf(r)
  PROVE  MemoryInv(r)'
<1> USE DEF IInv, TypeOK
<1>1. AccountKept
  BY StepKeepsAccount
<1>2. ASSUME st'[r] = st[r], pc'[r] \notin {"replayed", "replayedNode", "appendReplayed", "afterRun"}
      PROVE  MemoryInv(r)'
  BY <1>1, <1>2 DEF MemoryInv, AccountKept, Replaying
<1>3. isTerminal(st[r]) =>
        /\ st[r].outcome = st[r].status
        /\ st[r].status = "failed" \/ \E o : o = st[r].status /\ EndIs(o)'
  BY <1>1 DEF MemoryInv, AccountKept
<1>4. isTerminal(snapshot) =>
        /\ snapshot.outcome = snapshot.status
        /\ snapshot.status = "failed" \/ \E o : o = snapshot.status /\ EndIs(o)'
  BY <1>1 DEF SnapshotInv, Follows, IsClosed, AccountKept, isTerminal
<1>5. CASE Acquire(r)
  BY <1>5, <1>2 DEF Acquire, Goto, Record
<1>6. CASE Load(r)
  <2>1. st'[r] = snapshot /\ pc'[r] = "replay"
    BY <1>6 DEF Load, Goto
  <2>2. QED
    BY <2>1, <1>4 DEF MemoryInv, Replaying
<1>7. CASE ReplayLog(r)
  <2>1. CASE Replay(st[r]).matches
    <3> DEFINE t == Replay(st[r]).s
    <3>1. /\ st'[r] = t /\ loaded'[r] = snapshot /\ log' = log
          /\ pc'[r] \in {"replayed", "replayedNode"}
      BY <1>7, <2>1, ReplayOfHolder DEF ReplayLog, Goto
    <3>2. /\ Follows(log, t) /\ t.seq = Len(log) /\ (t = snapshot \/ IsLogged(log, t))
          /\ HasEnded(snapshot) => HasEnded(t)
      BY <1>7, ReplayOfHolder DEF ReplayLog
    <3>3. isTerminal(t) => t.outcome = t.status /\ (t.status = "failed" \/ \E o : o = t.status /\ EndIs(o)')
      <4>1. CASE t = snapshot
        BY <4>1, <1>4
      <4>2. CASE IsLogged(log, t)
        BY <4>2, <3>1, <3>2 DEF Follows, IsLogged, EndIs, isTerminal
      <4>3. QED
        BY <3>2, <4>1, <4>2
    <3>4. QED
      BY <3>1, <3>2, <3>3 DEF MemoryInv, HasEnded, isTerminal
  <2>2. CASE ~Replay(st[r]).matches
    BY <1>7, <2>2, <1>2 DEF ReplayLog, ReturnError, Return, Goto
  <2>3. QED
    BY <2>1, <2>2
<1>8. CASE FinishReplayed(r)
  BY <1>8, <1>2 DEF FinishReplayed, Return, ReturnLost, ReturnError, Goto
<1>9. CASE Resume(r)
  BY <1>9, <1>2 DEF Resume, Return, ReturnLost, ReturnError, Goto
<1>10. CASE HookPasses(r)
  BY <1>10, <1>2 DEF HookPasses, Goto, Record
<1>11. CASE HookEnds(r)
  <2>1. PICK o \in HookOutcome : /\ snapshot' = withOutcome(st[r], o) /\ Return(r, o)
                                  /\ st' = [st EXCEPT ![r] = withOutcome(@, o)]
    BY <1>11 DEF HookEnds, Save
  <2>2. /\ withOutcome(st[r], o).status = o /\ withOutcome(st[r], o).outcome = o
        /\ o = "failed" \/ EndIs(o)'
    BY <1>11, <2>1, HookEndIsTheEnd DEF HookEnds
  <2>3. QED
    BY <2>1, <2>2 DEF MemoryInv, Return, Goto, Replaying
<1>12. CASE StartNextNode(r)
  BY <1>12, <1>2 DEF StartNextNode, Goto, Record
<1>13. CASE HandlerReturns(r)
  BY <1>13, <1>2 DEF HandlerReturns, Goto, Record
<1>14. CASE AfterHookReturns(r)
  BY <1>14, <1>3 DEF AfterHookReturns, Goto, MemoryInv, Replaying
<1>15. CASE AppendEvent(r)
  <2>1. CASE FenceIsValid(r)
    <3> DEFINE t == Reduced(st[r], event[r], seq[r])
    <3>1. seq[r] = Len(log) + 1 /\ Len(log) \in Nat /\ event[r] \in Event
      BY <1>15, <2>1, HolderAppends DEF AppendEvent, LogOK
    <3>2. /\ log' = Append(log, event[r]) /\ st'[r] = t /\ loaded' = loaded
          /\ pc'[r] = IF pc[r] = "append" THEN NextLabel(event[r].kind) ELSE "replayed"
      BY <1>15, <2>1, <3>1 DEF AppendEvent, AppendIsAccepted, Goto
    <3>3. Follows(log', t) /\ IsLogged(log', t) /\ t.seq = Len(log') /\ (HasEnded(st[r]) => HasEnded(t))
      BY <1>15, <2>1, <3>2, HolderAppends DEF AppendEvent
    <3>4. isTerminal(t) => t.outcome = t.status /\ (t.status = "failed" \/ \E o : o = t.status /\ EndIs(o)')
      BY <3>3 DEF Follows, IsLogged, EndIs, isTerminal
    <3>5. pc'[r] \in Replaying \cup {"afterRun"} => pc[r] = "appendReplayed" /\ pc'[r] = "replayed"
      BY <1>15, <3>1, <3>2 DEF NextLabel, Event, Replaying, AppendEvent
    <3> HIDE DEF t
    <3>6. QED
      BY <3>2, <3>3, <3>4, <3>5 DEF MemoryInv, Replaying
  <2>2. CASE ~FenceIsValid(r)
    BY <1>15, <2>2, <1>2 DEF AppendEvent, AppendIsAccepted, Return, ReturnLost, Goto
  <2>3. QED
    BY <2>1, <2>2
<1>16. CASE Checkpoint(r)
  <2>1. st' = st /\ (pc'[r] = "afterRun" => isTerminal(st[r])) /\ pc'[r] \in {"afterRun", "node", "release"}
    BY <1>16 DEF Checkpoint, Return, ReturnLost, Goto
  <2>2. QED
    BY <2>1, <1>3 DEF MemoryInv, Replaying
<1>17. CASE AfterRun(r)
  BY <1>17, <1>2 DEF AfterRun, Return, ReturnLost, ReturnError, Goto
<1>18. CASE Release(r)
  BY <1>18 DEF Release, Forget, Goto, MemoryInv, Replaying, initialState, isTerminal
<1>19. CASE LoseLease(r)
  BY <1>19, <1>2 DEF LoseLease, Return, ReturnLost, ReturnError, Goto
<1>20. CASE HandlerThrows(r)
  BY <1>20, <1>2 DEF HandlerThrows, Return, ReturnLost, ReturnError, Goto
<1>21. CASE HookThrows(r)
  BY <1>21, <1>2 DEF HookThrows, Return, ReturnLost, ReturnError, Goto
<1>22. CASE Crash(r)
  BY <1>22 DEF Crash, Forget, Goto, MemoryInv, Replaying, initialState, isTerminal
<1>23. QED
  BY <1>5, <1>6, <1>7, <1>8, <1>9, <1>10, <1>11, <1>12, <1>13, <1>14, <1>15, <1>16, <1>17,
     <1>18, <1>19, <1>20, <1>21, <1>22
  DEF StepOf

\* A step of the process that has the lease leaves true what it relies on.
LEMMA StepKeepsHolder ==
  ASSUME IInv, NEW r \in Runtime, StepOf(r)
  PROVE  HolderInv(r)'
<1> USE DEF IInv, TypeOK
<1>2. ASSUME pc'[r] \in {"idle", "load", "afterRun", "release"} PROVE HolderInv(r)'
  BY <1>2 DEF HolderInv, Replaying, Live
<1>4. CASE Acquire(r)
  BY <1>4, <1>2 DEF Acquire, Goto
<1>5. CASE Load(r)
  <2>1. st'[r] = snapshot /\ loaded'[r] = snapshot /\ pc'[r] = "replay" /\ snapshot' = snapshot
    BY <1>5 DEF Load, Goto
  <2>2. QED
    BY <2>1 DEF HolderInv, Replaying, Live
<1>6. CASE ReplayLog(r)
  <2>1. CASE Replay(st[r]).matches
    <3> DEFINE t == Replay(st[r]).s
    <3>1. /\ st'[r] = t /\ loaded' = loaded /\ log' = log /\ snapshot' = snapshot
          /\ pc'[r] = IF LastIs(log, "completed") THEN "replayedNode" ELSE "replayed"
      BY <1>6, <2>1 DEF ReplayLog, Goto, PendingAfter, LastIs
    <3>2. /\ loaded[r] = snapshot /\ Follows(log, t) /\ t.seq = Len(log)
          /\ snapshot.status = "failed" /\ ~StepsBeyond(log, snapshot.seq) => t.status = "failed"
      BY <1>6, ReplayOfHolder DEF ReplayLog
    <3> HIDE DEF t
    <3>3. QED
      BY <3>1, <3>2 DEF HolderInv, Replaying, Live
  <2>2. CASE ~Replay(st[r]).matches
    BY <1>6, <2>2, <1>2 DEF ReplayLog, ReturnError, Return, Goto
  <2>3. QED
    BY <2>1, <2>2
<1>7. CASE FinishReplayed(r)
  BY <1>7, <1>2 DEF FinishReplayed, Return, ReturnLost, ReturnError, Goto
<1>8. CASE Resume(r)
  <2>1. CASE FenceIsValid(r)
    <3>1. /\ snapshot' = st[r] /\ log' = log /\ st' = st /\ pc'[r] = "beforeRun"
          /\ st[r].status = "running"
      BY <1>8, <2>1 DEF Resume, Save, Goto, isTerminal
    <3>2. /\ Follows(log, st[r]) /\ st[r].seq = Len(log) /\ ~LastIs(log, "completed")
      BY <1>8, <2>1 DEF Resume, HolderInv, Replaying
    <3>3. QED
      BY <3>1, <3>2 DEF HolderInv, Replaying, Live, isTerminal
  <2>2. CASE ~FenceIsValid(r)
    BY <1>8, <2>2, <1>2 DEF Resume, Return, ReturnLost, Goto
  <2>3. QED
    BY <2>1, <2>2
<1>9. CASE HookPasses(r)
  <2>1. /\ snapshot' = snapshot /\ log' = log /\ st' = st /\ FenceIsValid(r)
        /\ pc[r] \in {"beforeRun", "beforeNode"}
        /\ pc'[r] = IF pc[r] = "beforeRun" THEN "node" ELSE "handler"
    BY <1>9 DEF HookPasses, Goto
  <2>2. QED
    BY <2>1 DEF HolderInv, Replaying, Live, isTerminal
<1>10. CASE HookEnds(r)
  BY <1>10, <1>2 DEF HookEnds, Return, ReturnLost, ReturnError, Goto
<1>11. CASE StartNextNode(r)
  <2>1. /\ snapshot' \in {snapshot, st[r]} /\ log' = log /\ st' = st /\ FenceIsValid(r)
        /\ pc[r] = "node" /\ pc'[r] = "append" /\ seq'[r] = Len(log) + 1
        /\ event'[r] = EventAt("started", st[r], NoNode, NoOutcome)
    BY <1>11 DEF StartNextNode, Goto, Record, Save
  <2>2. /\ snapshot.status = "running" /\ Follows(log, st[r]) /\ st[r].seq = Len(log)
        /\ st[r].status = "running" /\ ~LastIs(log, "completed")
    BY <2>1 DEF HolderInv, Live, isTerminal
  <2>3. Fits(log, st[r], event'[r])
    BY <2>1, <2>2 DEF Fits, EventAt, isTerminal
  <2>4. QED
    BY <2>1, <2>2, <2>3 DEF HolderInv, Replaying, Live, isTerminal
<1>12. CASE HandlerReturns(r)
  <2>1. PICK x \in Result(st[r]) :
          event'[r] = EventAt("completed", st[r], x[1], x[2])
    BY <1>12 DEF HandlerReturns, Record
  <2>2. /\ snapshot' = snapshot /\ log' = log /\ st' = st /\ FenceIsValid(r)
        /\ pc[r] = "handler" /\ pc'[r] = "append" /\ seq'[r] = Len(log) + 1
    BY <1>12 DEF HandlerReturns, Goto, Record
  <2>3. /\ snapshot.status = "running" /\ Follows(log, st[r]) /\ st[r].seq = Len(log)
        /\ st[r].status = "running" /\ LastIs(log, "started")
    BY <2>2 DEF HolderInv, Live, isTerminal
  <2>4. x[1] = NoNode <=> x[2] # NoOutcome
    BY KernelGraphAssumption, KernelOutcomeAssumption DEF Result
  <2>5. Fits(log, st[r], event'[r])
    BY <2>1, <2>3, <2>4 DEF Fits, EventAt, isTerminal
  <2>6. QED
    BY <2>2, <2>3, <2>5 DEF HolderInv, Replaying, Live, isTerminal
<1>13. CASE AfterHookReturns(r)
  <2>1. PICK x \in AfterCommand :
          event'[r] = [event[r] EXCEPT !.kind = "after", !.to = x[1], !.outcome = x[2]]
    BY <1>13 DEF AfterHookReturns
  <2>2. /\ snapshot' = snapshot /\ log' = log /\ st' = st /\ loaded' = loaded /\ FenceIsValid(r)
        /\ pc[r] \in {"completedNode", "replayedNode"} /\ seq'[r] = Len(log) + 1
        /\ pc'[r] = IF pc[r] = "replayedNode" THEN "appendReplayed" ELSE "append"
    BY <1>13 DEF AfterHookReturns, Goto
  <2>3. /\ Follows(log, st[r]) /\ st[r].seq = Len(log) /\ LastIs(log, "completed")
    BY <2>2 DEF HolderInv, Live, Replaying
  <2>4. x[1] = NoNode \/ x[2] = NoOutcome
    BY DEF AfterCommand
  <2>5. event'[r].kind = "after" /\ event'[r].to = x[1] /\ event'[r].outcome = x[2]
    BY <2>1 DEF Event
  <2>6. Fits(log, st[r], event'[r])
    BY <2>3, <2>4, <2>5 DEF Fits
  <2>7. QED
    BY <2>2, <2>3, <2>5, <2>6 DEF HolderInv, Replaying, Live, isTerminal
<1>14. CASE AppendEvent(r)
  <2>1. CASE FenceIsValid(r)
    <3> DEFINE t == Reduced(st[r], event[r], seq[r])
    <3>1. seq[r] = Len(log) + 1 /\ Len(log) \in Nat /\ event[r] \in Event
      BY SMTT(60), <1>14, <2>1, HolderAppends DEF AppendEvent, LogOK
    <3>2. /\ log' = Append(log, event[r]) /\ st'[r] = t /\ loaded' = loaded /\ snapshot' = snapshot
          /\ pc[r] \in {"append", "appendReplayed"}
          /\ pc'[r] = IF pc[r] = "append" THEN NextLabel(event[r].kind) ELSE "replayed"
      BY <1>14, <2>1, <3>1 DEF AppendEvent, AppendIsAccepted, Goto
    <3>3. /\ Follows(log', t) /\ t.seq = Len(log') /\ log'[Len(log')] = event[r]
          /\ Len(log') = Len(log) + 1 /\ log' # <<>>
          /\ st[r].status = "failed" /\ event[r].kind # "completed" => t.status = "failed"
          /\ event[r].kind = "started" => ~isTerminal(t)
      BY <2>1, <3>1, <3>2, HolderAppends
    <3>4. \A k : LastIs(log', k) <=> event[r].kind = k
      BY <3>3 DEF LastIs, Last
    <3>5. CASE pc[r] = "append"
      <4>1. snapshot.status = "running"
        BY <2>1, <3>5 DEF HolderInv, Live
      <4>2. pc'[r] = NextLabel(event[r].kind) /\ event[r].kind \in {"started", "completed", "after"}
        BY <3>1, <3>2, <3>5 DEF Event
      <4> HIDE DEF t
      <4>3. QED
        BY <3>2, <3>3, <3>4, <4>1, <4>2 DEF HolderInv, Live, Replaying, NextLabel
    <3>6. CASE pc[r] = "appendReplayed"
      <4>1. /\ event[r].kind = "after" /\ loaded[r] = snapshot
            /\ snapshot.status = "failed" /\ ~StepsBeyond(log, snapshot.seq) => st[r].status = "failed"
        BY <2>1, <3>6 DEF HolderInv, Replaying
      <4>2. StepsBeyond(log, snapshot.seq) => StepsBeyond(log', snapshot.seq)
        <5>1. \A i \in 1 .. Len(log) : log'[i] = log[i]
          BY <3>1, <3>2
        <5>2. snapshot.seq \in Nat
          BY DEF State
        <5>3. ASSUME NEW i \in snapshot.seq + 1 .. Len(log), Completes(log, i)
              PROVE  i \in snapshot.seq + 1 .. Len(log') /\ Completes(log', i)
          <6>1. i \in 1 .. Len(log) /\ i \in snapshot.seq + 1 .. Len(log')
            BY ONLY <3>1, <3>3, <5>2
          <6>2. QED
            BY <6>1, <5>1, <5>3 DEF Completes
        <5>4. QED
          BY <5>3 DEF StepsBeyond
      <4>3. pc'[r] = "replayed"
        BY <3>2, <3>6
      <4> HIDE DEF t
      <4>4. QED
        BY <3>2, <3>3, <3>4, <4>1, <4>2, <4>3 DEF HolderInv, Live, Replaying
    <3>7. QED
      BY <3>2, <3>5, <3>6
  <2>2. CASE ~FenceIsValid(r)
    BY <1>14, <2>2, <1>2 DEF AppendEvent, AppendIsAccepted, Return, ReturnLost, Goto
  <2>3. QED
    BY <2>1, <2>2
<1>15. CASE Checkpoint(r)
  <2>1. CASE isTerminal(st[r])
    BY <1>15, <2>1, <1>2 DEF Checkpoint, Return, ReturnLost, Goto
  <2>2. CASE ~FenceIsValid(r)
    BY <1>15, <2>2 DEF Checkpoint, HolderInv, FenceIsValid
  <2>3. CASE ~isTerminal(st[r]) /\ FenceIsValid(r)
    <3>1. /\ snapshot' \in {snapshot, st[r]} /\ log' = log /\ st' = st /\ pc[r] = "checkpoint"
          /\ pc'[r] = "node"
      BY <1>15, <2>3 DEF Checkpoint, Save, Goto
    <3>2. /\ snapshot.status = "running" /\ Follows(log, st[r]) /\ st[r].seq = Len(log)
          /\ st[r].status = "running" /\ ~LastIs(log, "completed")
      BY <2>3, <3>1 DEF HolderInv, Live, isTerminal
    <3>3. QED
      BY <3>1, <3>2 DEF HolderInv, Live, Replaying, isTerminal
  <2>4. QED
    BY <2>1, <2>2, <2>3
<1>16. CASE AfterRun(r)
  BY <1>16, <1>2 DEF AfterRun, Return, ReturnLost, ReturnError, Goto
<1>17. CASE Release(r)
  BY <1>17, <1>2 DEF Release, Forget, Goto
<1>18. CASE LoseLease(r)
  BY <1>18, <1>2 DEF LoseLease, Return, ReturnLost, ReturnError, Goto
<1>19. CASE HandlerThrows(r)
  BY <1>19, <1>2 DEF HandlerThrows, Return, ReturnLost, ReturnError, Goto
<1>20. CASE HookThrows(r)
  BY <1>20, <1>2 DEF HookThrows, Return, ReturnLost, ReturnError, Goto
<1>21. CASE Crash(r)
  BY <1>21, <1>2 DEF Crash, Forget, Goto
<1>22. QED
  BY <1>4, <1>5, <1>6, <1>7, <1>8, <1>9, <1>10, <1>11, <1>12, <1>13, <1>14, <1>15, <1>16,
     <1>17, <1>18, <1>19, <1>20, <1>21
  DEF StepOf

\* The memory of one process is nothing to the others, and a step never gives the lease
\* to another.
LEMMA StepIsLocal ==
  ASSUME TypeOK, NEW r \in Runtime, NEW q \in Runtime, q # r, StepOf(r)
  PROVE  /\ pc'[q] = pc[q] /\ st'[q] = st[q] /\ loaded'[q] = loaded[q]
         /\ event'[q] = event[q] /\ seq'[q] = seq[q]
         /\ FenceIsValid(q)' => FenceIsValid(q)
<1> USE DEF TypeOK, FenceIsValid
<1>1. CASE Acquire(r)
  BY <1>1 DEF Acquire, Return, ReturnLost, ReturnError, Record, Forget, Goto
<1>2. CASE Load(r)
  BY <1>2 DEF Load, Return, ReturnLost, ReturnError, Record, Forget, Goto
<1>3. CASE ReplayLog(r)
  BY <1>3 DEF ReplayLog, Return, ReturnLost, ReturnError, Record, Forget, Goto
<1>4. CASE FinishReplayed(r)
  BY <1>4 DEF FinishReplayed, Return, ReturnLost, ReturnError, Record, Forget, Goto
<1>5. CASE Resume(r)
  BY <1>5 DEF Resume, Return, ReturnLost, ReturnError, Record, Forget, Goto
<1>6. CASE HookPasses(r)
  BY <1>6 DEF HookPasses, Return, ReturnLost, ReturnError, Record, Forget, Goto
<1>7. CASE HookEnds(r)
  BY <1>7 DEF HookEnds, Return, ReturnLost, ReturnError, Record, Forget, Goto
<1>8. CASE StartNextNode(r)
  BY <1>8 DEF StartNextNode, Return, ReturnLost, ReturnError, Record, Forget, Goto
<1>9. CASE HandlerReturns(r)
  BY <1>9 DEF HandlerReturns, Return, ReturnLost, ReturnError, Record, Forget, Goto
<1>10. CASE AfterHookReturns(r)
  BY <1>10 DEF AfterHookReturns, Return, ReturnLost, ReturnError, Record, Forget, Goto
<1>11. CASE AppendEvent(r)
  BY <1>11 DEF AppendEvent, Return, ReturnLost, ReturnError, Record, Forget, Goto
<1>12. CASE Checkpoint(r)
  BY <1>12 DEF Checkpoint, Return, ReturnLost, ReturnError, Record, Forget, Goto
<1>13. CASE AfterRun(r)
  BY <1>13 DEF AfterRun, Return, ReturnLost, ReturnError, Record, Forget, Goto
<1>14. CASE Release(r)
  BY <1>14 DEF Release, Return, ReturnLost, ReturnError, Record, Forget, Goto
<1>15. CASE LoseLease(r)
  BY <1>15 DEF LoseLease, Return, ReturnLost, ReturnError, Record, Forget, Goto
<1>16. CASE HandlerThrows(r)
  BY <1>16 DEF HandlerThrows, Return, ReturnLost, ReturnError, Record, Forget, Goto
<1>17. CASE HookThrows(r)
  BY <1>17 DEF HookThrows, Return, ReturnLost, ReturnError, Record, Forget, Goto
<1>18. CASE Crash(r)
  <2>1. lease' # NoLease /\ lease'.holder = q => lease' = lease
    <3>1. CASE lease # NoLease /\ lease.holder = r
      BY <1>18, <3>1, KernelFaultAssumption DEF Crash
    <3>2. CASE ~(lease # NoLease /\ lease.holder = r)
      BY <1>18, <3>2 DEF Crash
    <3>3. QED
      BY <3>1, <3>2
  <2>2. QED
    BY <1>18, <2>1 DEF Crash, Forget, Goto
<1>19. QED
  BY <1>1, <1>2, <1>3, <1>4, <1>5, <1>6, <1>7, <1>8, <1>9, <1>10, <1>11, <1>12, <1>13,
     <1>14, <1>15, <1>16, <1>17, <1>18
  DEF StepOf

\* What another process remembers, and relies on if it has the lease, stays true.
LEMMA StepKeepsOthers ==
  ASSUME IInv, NEW r \in Runtime, NEW q \in Runtime, q # r, StepOf(r)
  PROVE  MemoryInv(q)' /\ HolderInv(q)'
<1>1. /\ pc'[q] = pc[q] /\ st'[q] = st[q] /\ loaded'[q] = loaded[q]
      /\ event'[q] = event[q] /\ seq'[q] = seq[q]
      /\ FenceIsValid(q)' => FenceIsValid(q)
  BY StepIsLocal DEF IInv
<1>2. AccountKept /\ (UNCHANGED <<log, snapshot>> \/ (FenceIsValid(r) /\ lease' = lease))
  BY StepKeepsAccount
<1>3. MemoryInv(q) /\ HolderInv(q)
  BY DEF IInv
<1>4. MemoryInv(q)'
  BY <1>1, <1>2, <1>3 DEF MemoryInv, AccountKept
<1>5. FenceIsValid(q)' => UNCHANGED <<log, snapshot>>
  BY <1>1, <1>2 DEF FenceIsValid
<1>6. HolderInv(q)'
  BY <1>1, <1>3, <1>5 DEF HolderInv
<1>7. QED
  BY <1>4, <1>6

\* A lease that lapses takes nothing but the lease.
LEMMA LapseKeeps ==
  ASSUME IInv, LeaseLapses \/ DeadLeaseLapses
  PROVE  IInv'
<1>1. /\ UNCHANGED <<snapshot, log, pc, st, loaded, event, seq, told>>
      /\ lease' = [lease EXCEPT !.lapsed = TRUE] /\ lease # NoLease /\ TypeOK
  BY DEF LeaseLapses, DeadLeaseLapses, IInv
<1>2. faults' \in 0 .. MaxFaults
  BY <1>1, KernelFaultAssumption DEF LeaseLapses, DeadLeaseLapses, Spend, TypeOK
<1>3. TypeOK'
  BY <1>1, <1>2 DEF TypeOK
<1>4. \A r \in Runtime : ~FenceIsValid(r)'
  BY <1>1 DEF FenceIsValid, TypeOK
<1>5. \A o : EndIs(o) <=> EndIs(o)'
  BY <1>1 DEF EndIs
<1>6. LogOK(log)' /\ SnapshotInv' /\ ToldInv'
  BY <1>1, <1>5 DEF IInv, SnapshotInv, ToldInv
<1>7. ASSUME NEW r \in Runtime PROVE MemoryInv(r)' /\ HolderInv(r)'
  <2>1. MemoryInv(r)'
    BY <1>1, <1>5 DEF IInv, MemoryInv
  <2>2. HolderInv(r)'
    BY <1>4 DEF HolderInv
  <2>3. QED
    BY <2>1, <2>2
<1>8. QED
  BY <1>3, <1>6, <1>7 DEF IInv

\* Every step of a process keeps the inductive invariant,
LEMMA StepKeepsIInv ==
  ASSUME IInv, NEW r \in Runtime, StepOf(r)
  PROVE  IInv'
<1>1. AccountKept /\ ToldOK' /\ LocalTypes'
  BY StepKeepsAccount, StepTells, StepTypes
<1>2. TypeOK'
  BY <1>1 DEF TypeOK, LocalTypes, ToldOK, AccountKept, LogOK, SnapshotInv, Follows
<1>3. ASSUME NEW q \in Runtime PROVE MemoryInv(q)' /\ HolderInv(q)'
  BY StepKeepsOthers, StepKeepsMemory, StepKeepsHolder
<1>4. QED
  BY <1>1, <1>2, <1>3 DEF IInv, AccountKept, ToldOK

\* and so does every step there is.
LEMMA NextKeepsIInv ==
  ASSUME IInv, [Next]_vars
  PROVE  IInv'
<1>1. ASSUME NEW r \in Runtime, StepOf(r) PROVE IInv'
  BY <1>1, StepKeepsIInv
<1>2. CASE LeaseLapses \/ DeadLeaseLapses
  BY <1>2, LapseKeeps
<1>3. CASE UNCHANGED vars
  <2>1. UNCHANGED <<snapshot, log, lease, pc, st, loaded, event, seq, told, faults>>
    BY <1>3 DEF vars
  <2>2. \A o : EndIs(o) <=> EndIs(o)'
    BY <2>1 DEF EndIs
  <2>3. TypeOK' /\ LogOK(log)' /\ SnapshotInv' /\ ToldInv'
    BY <2>1, <2>2 DEF IInv, TypeOK, SnapshotInv, ToldInv
  <2>4. ASSUME NEW r \in Runtime PROVE MemoryInv(r)' /\ HolderInv(r)'
    BY <2>1, <2>2 DEF IInv, MemoryInv, HolderInv, FenceIsValid
  <2>5. QED
    BY <2>3, <2>4 DEF IInv
<1>4. QED
  BY <1>1, <1>2, <1>3 DEF Next, StepOf

\* It is true at first.
LEMMA InitIInv ==
  ASSUME Init
  PROVE  IInv
<1>1. /\ initialState \in State /\ NoEvent \in Event /\ Len(log) = 0 /\ log \in Seq(Event)
      /\ initialState.status = "running" /\ initialState.outcome = NoOutcome
      /\ initialState.node = StartNode /\ initialState.step = 0 /\ initialState.seq = 0
  BY FirstTypes DEF Init, initialState
<1>2. TypeOK
  BY <1>1, KernelFaultAssumption DEF Init, TypeOK, Label
<1>3. StepsOf(log, 0) = 0 /\ PointedOf(log, 0) = StartNode /\ Quiet(log, 0)
  <2>1. {i \in 1 .. 0 : Completes(log, i)} = {} /\ PointersOf(log, 0) = {}
    BY DEF PointersOf
  <2>2. QED
    BY <2>1, FS_EmptySet DEF StepsOf, PointedOf, Quiet
<1>4. LogOK(log)
  BY <1>1 DEF LogOK
<1>5. SnapshotInv
  BY <1>1, <1>3 DEF Init, SnapshotInv, Follows, ClosesLog, IsClosed
<1>6. ToldInv
  BY DEF Init, ToldInv
<1>7. ASSUME NEW r \in Runtime PROVE MemoryInv(r) /\ HolderInv(r)
  BY <1>1 DEF Init, MemoryInv, HolderInv, FenceIsValid, isTerminal, Replaying
<1>8. QED
  BY <1>2, <1>4, <1>5, <1>6, <1>7 DEF IInv

\* The inductive invariant is one.
LEMMA Invariance == Spec => []IInv
<1>1. Init => IInv
  BY InitIInv
<1>2. IInv /\ [Next]_vars => IInv'
  BY NextKeepsIInv
<1>3. QED
  BY <1>1, <1>2, PTL DEF Spec
-----------------------------------------------------------------------------
(***************************************************************************)
(* What the runs check.                                                    *)
(***************************************************************************)
\* A run ends once.
LEMMA EndIsUnique ==
  ASSUME IInv, NEW o, NEW p, EndIs(o), EndIs(p)
  PROVE  o = p
<1>1. Len(log) \in Nat
  BY DEF IInv, LogOK
<1>2. QED
  BY <1>1, EndIsOne, QuietHasNoEnd DEF EndIs

\* An account that the invariant allows is one of which LogTellsTheRun is true.
LEMMA IInvTells ==
  ASSUME IInv
  PROVE  LogTellsTheRun
<1>1. TypeOK /\ LogOK(log) /\ SnapshotInv /\ ToldInv /\ Len(log) \in Nat
  BY DEF IInv, LogOK
<1>2. \A n : StepsIn(n) = StepsOf(log, n) /\ Pointed(n) = PointedOf(log, n)
  BY DEF StepsIn, StepsOf, Completes, Pointed, Pointers, PointedOf, PointersOf, Points
<1>3. EachStepRunsOnce
  <2>1. SUFFICES ASSUME NEW i \in 1 .. Len(log)
                 PROVE  /\ log[i].kind # "after" => log[i].step = StepsIn(i - 1) /\ log[i].node = Pointed(i - 1)
                        /\ log[i].kind = "after" <=> i > 1 /\ log[i - 1].kind = "completed"
                        /\ log[i].kind = "started" => \A j \in 1 .. i - 1 : log[j].outcome = NoOutcome
    BY DEF EachStepRunsOnce
  <2>2. EventOK(log, i)
    BY <1>1 DEF LogOK
  <2>3. QED
    BY <2>2, <1>2 DEF EventOK, Quiet
<1>4. SnapshotReflectsLog
  BY <1>1, <1>2 DEF SnapshotReflectsLog, SnapshotInv, Follows
<1>5. HolderFollowsLog
  <2>1. SUFFICES ASSUME NEW r \in Runtime, FenceIsValid(r),
                        pc[r] \in {"node", "append", "beforeNode", "handler"}
                 PROVE  /\ st[r].seq = Len(log) /\ (pc[r] = "append" => seq[r] = Len(log) + 1)
                        /\ st[r].step = StepsIn(Len(log)) /\ st[r].node = Pointed(Len(log))
    BY DEF HolderFollowsLog
  <2>2. /\ Follows(log, st[r]) /\ st[r].seq = Len(log)
        /\ pc[r] = "append" => seq[r] = Len(log) + 1
    BY <2>1 DEF IInv, HolderInv, Live
  <2>3. QED
    BY <2>2, <1>2 DEF Follows
<1>6. OutcomeIsCommitted
  <2>1. Cardinality(told) <= 1
    <3>1. CASE told = {}
      BY <3>1, FS_EmptySet
    <3>2. CASE told # {}
      <4>1. PICK o \in told : TRUE
        BY <3>2
      <4>2. told = {o}
        BY <4>1, <1>1, EndIsUnique DEF ToldInv
      <4>3. Cardinality({o}) = 1
        BY FS_Singleton
      <4>4. QED
        BY <4>2, <4>3
    <3>3. QED
      BY <3>1, <3>2
  <2>2. ASSUME NEW o \in told
        PROVE  snapshot.outcome = o \/ \E i \in 1 .. Len(log) : log[i].outcome = o
    BY <1>1 DEF ToldInv, EndIs, EndsBy
  <2>3. QED
    BY <2>1, <2>2 DEF OutcomeIsCommitted
<1>7. QED
  BY <1>1, <1>3, <1>4, <1>5, <1>6 DEF LogTellsTheRun

\* For any processes, graph and faults: every step is in the event log once, from where
\* the log had got to; the snapshot and the copy of the process that has the lease are
\* where the log leads; and run() tells one final outcome, which is stored. No crash,
\* lapsed lease or late process that append, save or replayAfterCheckpoint meets makes
\* it otherwise.
THEOREM Account == Spec => []LogTellsTheRun
<1>1. IInv => LogTellsTheRun
  BY IInvTells
<1>2. QED
  BY <1>1, Invariance, PTL

\* No step takes a terminal snapshot back, unless it is a failure the log has overtaken.
LEMMA StepIsFinal ==
  ASSUME IInv, NEW r \in Runtime, StepOf(r), isTerminal(snapshot),
         ~(snapshot.status = "failed" /\ Overtaken)
  PROVE  snapshot'.status = snapshot.status /\ snapshot'.outcome = snapshot.outcome
<1>1. /\ Follows(log, snapshot) /\ ClosesLog(log, snapshot) /\ HolderInv(r)
      /\ snapshot.outcome = snapshot.status /\ snapshot.status # "running"
  BY DEF IInv, SnapshotInv, Follows, isTerminal
<1>2. ASSUME ReturnError(r) PROVE snapshot' = snapshot
  BY <1>2 DEF ReturnError, FailedOn, withOutcome
<1>3. FenceIsValid(r) => pc[r] \notin Live
  BY <1>1 DEF HolderInv
<1>4. CASE Acquire(r)
  BY <1>4 DEF Acquire
<1>5. CASE Load(r)
  BY <1>5 DEF Load
<1>6. CASE ReplayLog(r)
  BY <1>6, <1>2 DEF ReplayLog
<1>7. CASE FinishReplayed(r)
  <2>1. CASE snapshot' = snapshot
    BY <2>1
  <2>2. CASE snapshot' # snapshot
    <3>1. /\ FenceIsValid(r) /\ snapshot' = st[r] /\ pc[r] = "replayed"
          /\ ~isTerminal(loaded[r]) \/ st[r].seq > loaded[r].seq
      BY <1>7, <2>2 DEF FinishReplayed, Save
    <3>2. /\ loaded[r] = snapshot /\ Follows(log, st[r]) /\ st[r].seq = Len(log)
          /\ snapshot.status = "failed" /\ ~StepsBeyond(log, snapshot.seq) => st[r].status = "failed"
      BY <1>1, <3>1 DEF HolderInv, Replaying
    <3>3. ~IsClosed(snapshot)
      BY <1>1, <3>1, <3>2 DEF ClosesLog, Follows, State, IsClosed
    <3>4. snapshot.status = "failed" /\ st[r].status = "failed"
      BY <1>1, <3>2, <3>3 DEF IsClosed, Overtaken, StepsBeyond, Completes
    <3>5. st[r].outcome = st[r].status
      BY <3>2, <3>4 DEF Follows
    <3>6. QED
      BY <1>1, <3>1, <3>4, <3>5
  <2>3. QED
    BY <2>1, <2>2
<1>8. CASE Resume(r)
  BY <1>8, <1>1 DEF Resume, HolderInv, Replaying
<1>9. CASE HookPasses(r)
  BY <1>9 DEF HookPasses
<1>10. CASE HookEnds(r)
  BY <1>10, <1>3 DEF HookEnds, Live
<1>11. CASE StartNextNode(r)
  BY <1>11, <1>3 DEF StartNextNode, Live
<1>12. CASE HandlerReturns(r)
  BY <1>12 DEF HandlerReturns
<1>13. CASE AfterHookReturns(r)
  BY <1>13 DEF AfterHookReturns
<1>14. CASE AppendEvent(r)
  BY <1>14, <1>2 DEF AppendEvent
<1>15. CASE Checkpoint(r)
  BY <1>15, <1>3 DEF Checkpoint, Live
<1>16. CASE AfterRun(r)
  BY <1>16 DEF AfterRun
<1>17. CASE Release(r)
  BY <1>17 DEF Release
<1>18. CASE LoseLease(r)
  BY <1>18 DEF LoseLease
<1>19. CASE HandlerThrows(r)
  BY <1>19, <1>2 DEF HandlerThrows
<1>20. CASE HookThrows(r)
  BY <1>20, <1>2 DEF HookThrows
<1>21. CASE Crash(r)
  BY <1>21 DEF Crash
<1>22. QED
  BY <1>4, <1>5, <1>6, <1>7, <1>8, <1>9, <1>10, <1>11, <1>12, <1>13, <1>14, <1>15, <1>16,
     <1>17, <1>18, <1>19, <1>20, <1>21
  DEF StepOf

\* For any processes, graph and faults: once the snapshot store has a run completed,
\* failed or ended by a hook, no later save makes it anything else, whoever saves; a
\* failure alone may give way, to a log that had completed a node beyond it.
THEOREM Final == Spec => FinalUnlessOvertaken
<1> DEFINE Stays ==
      isTerminal(snapshot) /\ ~(snapshot.status = "failed" /\ Overtaken) =>
        snapshot'.status = snapshot.status /\ snapshot'.outcome = snapshot.outcome
<1>1. IInv /\ [Next]_vars => [Stays]_vars
  <2>1. SUFFICES ASSUME IInv, Next PROVE Stays
    OBVIOUS
  <2>2. ASSUME NEW r \in Runtime, StepOf(r) PROVE Stays
    BY <2>1, <2>2, StepIsFinal
  <2>3. CASE LeaseLapses \/ DeadLeaseLapses
    BY <2>3 DEF LeaseLapses, DeadLeaseLapses
  <2>4. QED
    BY <2>1, <2>2, <2>3 DEF Next, StepOf
<1>2. QED
  BY <1>1, Invariance, PTL DEF Spec, FinalUnlessOvertaken
-----------------------------------------------------------------------------
(***************************************************************************)
(* The refinement of RunSpec.                                              *)
(***************************************************************************)
\* A completion takes an edge, a hook jumps where it may, and neither ends the run with
\* the failure of run's catch.
EventWalks(e) ==
  /\ e.outcome # "failed"
  /\ e.kind = "completed" /\ e.outcome = NoOutcome => <<e.node, e.to>> \in Edge
  /\ e.kind = "after" => e.to \in HookJump \cup {NoNode}

WalkInv ==
  /\ \A i \in 1 .. Len(log) : EventWalks(log[i])
  /\ \A r \in Runtime : pc[r] \in {"append", "appendReplayed"} => EventWalks(event[r])

\* A set of naturals has a least member, and Min is that.
LEMMA MinOf ==
  ASSUME NEW S, S \subseteq Nat, S # {}
  PROVE  Min(S) \in S /\ \A x \in S : Min(S) <= x
BY LeastMember DEF Min

\* What CommittedOutcome promises: it is how the run ended, if it has, and nothing else is
\* told.
CommittedTells ==
  /\ \A o : EndIs(o) => CommittedOutcome = o /\ o # NoOutcome
  /\ CommittedOutcome # NoOutcome => EndIs(CommittedOutcome)
  /\ CommittedOutcome # NoOutcome => CommittedOutcome \in Outcome \ {"failed"}
  /\ told \subseteq IF CommittedOutcome = NoOutcome THEN {} ELSE {CommittedOutcome}

\* CommittedOutcome is that.
LEMMA CommittedIsTheEnd == IInv /\ WalkInv => CommittedTells
<1> SUFFICES ASSUME IInv, WalkInv PROVE CommittedTells
  OBVIOUS
<1>1. /\ Len(log) \in Nat /\ SnapshotInv /\ snapshot \in State
      /\ IsClosed(snapshot) =>
           /\ snapshot.outcome = snapshot.status /\ snapshot.outcome # NoOutcome
           /\ snapshot.outcome \in Outcome \ {"failed"}
  BY KernelOutcomeAssumption DEF IInv, LogOK, TypeOK, SnapshotInv, Follows, IsClosed, State
<1>2. CASE LoggedEnds # {}
  <2>1. LoggedEnds \subseteq Nat /\ LoggedEnds \subseteq 1 .. Len(log)
    BY DEF LoggedEnds
  <2>2. Min(LoggedEnds) \in LoggedEnds /\ \A x \in LoggedEnds : Min(LoggedEnds) <= x
    BY <1>2, <2>1, MinOf
  <2>3. CommittedOutcome = log[Min(LoggedEnds)].outcome
    BY <1>2 DEF CommittedOutcome
  <2>4. CommittedOutcome # NoOutcome
    BY <2>2, <2>3 DEF LoggedEnds
  <2>5. Quiet(log, Min(LoggedEnds) - 1)
    BY <2>1, <2>2, <1>1 DEF Quiet, LoggedEnds
  <2>6. EndIs(CommittedOutcome)
    BY <2>1, <2>2, <2>3, <2>4, <2>5 DEF EndIs, EndsBy
  <2>7. \A o : EndIs(o) => CommittedOutcome = o
    BY <2>6, EndIsUnique
  <2>8. CommittedOutcome \in Outcome \ {"failed"}
    <3>1. PICK i \in 1 .. Len(log) : i = Min(LoggedEnds)
      BY <2>1, <2>2
    <3>2. log[i] \in Event
      BY DEF IInv, LogOK
    <3>3. EventWalks(log[i])
      BY DEF WalkInv
    <3>4. QED
      BY <3>1, <3>2, <3>3, <2>3, <2>4 DEF Event, EventWalks
  <2>9. QED
    BY <2>4, <2>6, <2>7, <2>8 DEF CommittedTells, IInv, ToldInv
<1>3. CASE LoggedEnds = {}
  <2>1. Quiet(log, Len(log))
    BY <1>3 DEF Quiet, LoggedEnds
  <2>2. \A o : EndIs(o) <=> IsClosed(snapshot) /\ snapshot.outcome = o
    BY <2>1, <1>1, QuietHasNoEnd DEF EndIs
  <2>3. CommittedOutcome = IF IsClosed(snapshot) THEN snapshot.outcome ELSE NoOutcome
    BY <1>3 DEF CommittedOutcome, IsClosed
  <2>4. QED
    BY <2>2, <2>3, <1>1 DEF CommittedTells, IInv, ToldInv
<1>4. QED
  BY <1>2, <1>3

\* What run has told stays told.
LEMMA ToldGrows ==
  ASSUME NEW r \in Runtime, StepOf(r)
  PROVE  told \subseteq told'
<1>1. ASSUME NEW o, Return(r, o) PROVE told \subseteq told'
  BY <1>1 DEF Return
<1>2. ASSUME NEW c, ReturnLost(r, c) PROVE told \subseteq told'
  BY <1>1, <1>2 DEF ReturnLost
<1>3. ASSUME ReturnError(r) PROVE told \subseteq told'
  BY <1>1, <1>3 DEF ReturnError
<1>4. CASE Acquire(r)
  BY <1>4, <1>1, <1>2, <1>3 DEF Acquire
<1>5. CASE Load(r)
  BY <1>5, <1>1, <1>2, <1>3 DEF Load
<1>6. CASE ReplayLog(r)
  BY <1>6, <1>1, <1>2, <1>3 DEF ReplayLog
<1>7. CASE FinishReplayed(r)
  BY <1>7, <1>1, <1>2, <1>3 DEF FinishReplayed
<1>8. CASE Resume(r)
  BY <1>8, <1>1, <1>2, <1>3 DEF Resume
<1>9. CASE HookPasses(r)
  BY <1>9, <1>1, <1>2, <1>3 DEF HookPasses
<1>10. CASE HookEnds(r)
  <2>1. PICK o \in HookOutcome : Return(r, o)
    BY <1>10 DEF HookEnds
  <2>2. QED
    BY <2>1, <1>1
<1>11. CASE StartNextNode(r)
  BY <1>11, <1>1, <1>2, <1>3 DEF StartNextNode
<1>12. CASE HandlerReturns(r)
  BY <1>12, <1>1, <1>2, <1>3 DEF HandlerReturns
<1>13. CASE AfterHookReturns(r)
  BY <1>13, <1>1, <1>2, <1>3 DEF AfterHookReturns
<1>14. CASE AppendEvent(r)
  BY <1>14, <1>1, <1>2, <1>3 DEF AppendEvent
<1>15. CASE Checkpoint(r)
  BY <1>15, <1>1, <1>2, <1>3 DEF Checkpoint
<1>16. CASE AfterRun(r)
  BY <1>16, <1>1, <1>2, <1>3 DEF AfterRun
<1>17. CASE Release(r)
  BY <1>17, <1>1, <1>2, <1>3 DEF Release
<1>18. CASE LoseLease(r)
  BY <1>18, <1>1, <1>2, <1>3 DEF LoseLease
<1>19. CASE HandlerThrows(r)
  BY <1>19, <1>1, <1>2, <1>3 DEF HandlerThrows
<1>20. CASE HookThrows(r)
  BY <1>20, <1>1, <1>2, <1>3 DEF HookThrows
<1>21. CASE Crash(r)
  BY <1>21, <1>1, <1>2, <1>3 DEF Crash
<1>22. QED
  BY <1>4, <1>5, <1>6, <1>7, <1>8, <1>9, <1>10, <1>11, <1>12, <1>13, <1>14, <1>15,
     <1>16, <1>17, <1>18, <1>19, <1>20, <1>21
  DEF StepOf

\* Every step leaves the walk along edges and jumps.
LEMMA StepKeepsWalk ==
  ASSUME IInv, WalkInv, NEW r \in Runtime, StepOf(r)
  PROVE  WalkInv'
<1>1. /\ log \in Seq(Event) /\ Len(log) \in Nat /\ pc \in [Runtime -> Label]
      /\ event \in [Runtime -> Event]
  BY DEF IInv, LogOK, TypeOK
<1>2. ASSUME log' = log, pc'[r] \in {"append", "appendReplayed"} => EventWalks(event'[r]),
             \A q \in Runtime \ {r} : pc'[q] = pc[q] /\ event'[q] = event[q]
      PROVE  WalkInv'
  BY <1>2 DEF WalkInv, EventWalks
<1>3. NoOutcome # "failed" /\ \A o \in HookOutcome : o # "failed"
  BY KernelOutcomeAssumption
<1>4. CASE Acquire(r)
  BY <1>4, <1>1, <1>2 DEF Acquire, Return, ReturnLost, ReturnError, Record, Forget, Goto
<1>5. CASE Load(r)
  BY <1>5, <1>1, <1>2 DEF Load, Return, ReturnLost, ReturnError, Record, Forget, Goto
<1>6. CASE ReplayLog(r)
  BY <1>6, <1>1, <1>2 DEF ReplayLog, Return, ReturnLost, ReturnError, Record, Forget, Goto
<1>7. CASE FinishReplayed(r)
  BY <1>7, <1>1, <1>2 DEF FinishReplayed, Return, ReturnLost, ReturnError, Record, Forget, Goto
<1>8. CASE Resume(r)
  BY <1>8, <1>1, <1>2 DEF Resume, Return, ReturnLost, ReturnError, Record, Forget, Goto
<1>9. CASE HookPasses(r)
  BY <1>9, <1>1, <1>2 DEF HookPasses, Return, ReturnLost, ReturnError, Record, Forget, Goto
<1>10. CASE HookEnds(r)
  BY <1>10, <1>1, <1>2 DEF HookEnds, Return, ReturnLost, ReturnError, Record, Forget, Goto
<1>11. CASE StartNextNode(r)
  <2>1. EventWalks(event'[r])
    BY <1>11, <1>1, <1>3 DEF StartNextNode, Record, EventAt, EventWalks
  <2>2. QED
    BY <1>11, <2>1, <1>1, <1>2 DEF StartNextNode, Record, Goto
<1>12. CASE HandlerReturns(r)
  <2>1. PICK x \in Result(st[r]) : event' = [event EXCEPT ![r] = EventAt("completed", st[r], x[1], x[2])]
    BY <1>12 DEF HandlerReturns, Record
  <2>2. x[2] # "failed" /\ (x[2] = NoOutcome => <<st[r].node, x[1]>> \in Edge)
    <3>1. CASE x = <<NoNode, "completed">>
      BY <3>1, KernelOutcomeAssumption
    <3>2. CASE \E f \in Edge : f[1] = st[r].node /\ x = <<f[2], NoOutcome>>
      <4>1. PICK f \in Edge : f[1] = st[r].node /\ x = <<f[2], NoOutcome>>
        BY <3>2
      <4>2. f = <<f[1], f[2]>>
        BY KernelGraphAssumption
      <4>3. QED
        BY <4>1, <4>2, <1>3
    <3>3. QED
      BY <3>1, <3>2 DEF Result
  <2>3. EventWalks(event'[r])
    BY <2>1, <2>2, <1>1 DEF EventAt, EventWalks
  <2>4. QED
    BY <1>12, <2>3, <1>1, <1>2 DEF HandlerReturns, Record, Goto
<1>13. CASE AfterHookReturns(r)
  <2>1. PICK x \in AfterCommand :
          event' = [event EXCEPT ![r] = [@ EXCEPT !.kind = "after", !.to = x[1], !.outcome = x[2]]]
    BY <1>13 DEF AfterHookReturns
  <2>2. x[2] # "failed" /\ x[1] \in HookJump \cup {NoNode}
    BY <1>3 DEF AfterCommand
  <2>3. event'[r].kind = "after" /\ event'[r].to = x[1] /\ event'[r].outcome = x[2]
    BY <2>1, <1>1 DEF Event
  <2>4. EventWalks(event'[r])
    BY <2>2, <2>3 DEF EventWalks
  <2>5. QED
    BY <1>13, <2>1, <2>4, <1>1, <1>2 DEF AfterHookReturns, Goto
<1>14. CASE AppendEvent(r)
  <2>1. CASE log' = log
    BY <1>14, <2>1, <1>1, <1>2 DEF AppendEvent, Return, ReturnLost, ReturnError, Goto
  <2>2. CASE log' # log
    <3>1. log' = Append(log, event[r]) /\ event' = event /\ EventWalks(event[r])
      BY <1>14, <2>2 DEF AppendEvent, WalkInv
    <3>2. \A q \in Runtime : pc'[q] \in {"append", "appendReplayed"} => q # r /\ pc'[q] = pc[q]
      BY <1>14, <2>2, <1>1 DEF AppendEvent, Return, ReturnLost, ReturnError, Goto,
         NextLabel, Event
    <3>3. ASSUME NEW i \in 1 .. Len(log') PROVE EventWalks(log'[i])
      <4>1. /\ Len(log') = Len(log) + 1 /\ log'[Len(log) + 1] = event[r]
            /\ \A j \in 1 .. Len(log) : log'[j] = log[j]
        BY <3>1, <1>1
      <4>2. i \in 1 .. Len(log) \/ i = Len(log) + 1
        BY <4>1, <1>1
      <4>3. QED
        BY <4>1, <4>2, <3>1 DEF WalkInv
    <3>4. QED
      BY <3>1, <3>2, <3>3 DEF WalkInv, EventWalks
  <2>3. QED
    BY <2>1, <2>2
<1>15. CASE Checkpoint(r)
  BY <1>15, <1>1, <1>2 DEF Checkpoint, Return, ReturnLost, ReturnError, Record, Forget, Goto
<1>16. CASE AfterRun(r)
  BY <1>16, <1>1, <1>2 DEF AfterRun, Return, ReturnLost, ReturnError, Record, Forget, Goto
<1>17. CASE Release(r)
  BY <1>17, <1>1, <1>2 DEF Release, Return, ReturnLost, ReturnError, Record, Forget, Goto
<1>18. CASE LoseLease(r)
  BY <1>18, <1>1, <1>2 DEF LoseLease, Return, ReturnLost, ReturnError, Record, Forget, Goto
<1>19. CASE HandlerThrows(r)
  BY <1>19, <1>1, <1>2 DEF HandlerThrows, Return, ReturnLost, ReturnError, Record, Forget, Goto
<1>20. CASE HookThrows(r)
  BY <1>20, <1>1, <1>2 DEF HookThrows, Return, ReturnLost, ReturnError, Record, Forget, Goto
<1>21. CASE Crash(r)
  BY <1>21, <1>1, <1>2 DEF Crash, Return, ReturnLost, ReturnError, Record, Forget, Goto
<1>22. QED
  BY <1>4, <1>5, <1>6, <1>7, <1>8, <1>9, <1>10, <1>11, <1>12, <1>13, <1>14, <1>15,
     <1>16, <1>17, <1>18, <1>19, <1>20, <1>21
  DEF StepOf

\* Steps and place in RunSpec, of the log.
LEMMA PlaceOfLog ==
  /\ StepsIn(Len(log)) = StepsOf(log, Len(log)) /\ Pointed(Len(log)) = PointedOf(log, Len(log))
  /\ (StepsIn(Len(log)) = StepsOf(log, Len(log)))' /\ (Pointed(Len(log)) = PointedOf(log, Len(log)))'
BY DEF StepsIn, StepsOf, Completes, Pointed, Pointers, PointedOf, PointersOf, Points

\* A step that leaves the log alone ends the run, tells how it ended, or is none.
LEMMA SameLogRefines ==
  ASSUME CommittedTells, CommittedTells', log' = log, told \subseteq told',
         \A o : EndIs(o) => EndIs(o)'
  PROVE  [TheRun!Next]_(TheRun!vars)
<1>1. (Pointed(Len(log)))' = Pointed(Len(log)) /\ (StepsIn(Len(log)))' = StepsIn(Len(log))
  BY DEF Pointed, Pointers, StepsIn
<1>2. CASE CommittedOutcome = NoOutcome /\ CommittedOutcome' = NoOutcome
  <2>1. told' = told
    BY <1>2 DEF CommittedTells
  <2>2. QED
    BY <1>1, <1>2, <2>1 DEF TheRun!vars
<1>3. CASE CommittedOutcome = NoOutcome /\ CommittedOutcome' # NoOutcome
  <2>1. told' \in {{}, {CommittedOutcome'}} /\ CommittedOutcome' \in Outcome \ {"failed"}
    BY <1>3 DEF CommittedTells
  <2>2. TheRun!End
    BY <1>1, <1>3, <2>1 DEF TheRun!End
  <2>3. QED
    BY <2>2 DEF TheRun!Next
<1>4. CASE CommittedOutcome # NoOutcome
  <2>1. PICK o : o = CommittedOutcome
    OBVIOUS
  <2>2. EndIs(o)'
    BY <1>4, <2>1 DEF CommittedTells
  <2>3. CommittedOutcome' = CommittedOutcome /\ told' \subseteq {CommittedOutcome}
    BY <1>4, <2>1, <2>2 DEF CommittedTells
  <2>4. CASE told' = told
    BY <1>1, <2>3, <2>4 DEF TheRun!vars
  <2>5. CASE told' # told
    <3>1. told' = {CommittedOutcome}
      BY <2>3, <2>5
    <3>2. TheRun!Tell
      BY <1>1, <1>4, <2>3, <3>1 DEF TheRun!Tell
    <3>3. QED
      BY <3>2 DEF TheRun!Next
  <2>6. QED
    BY <2>4, <2>5
<1>5. QED
  BY <1>2, <1>3, <1>4

\* An event that the process with the lease appends completes a node, jumps, ends the run,
\* or is none of RunSpec's business.
LEMMA AppendRefines ==
  ASSUME IInv, WalkInv, CommittedTells, CommittedTells', NEW r \in Runtime, AppendEvent(r),
         log' # log, told \subseteq told', \A o : EndIs(o) => EndIs(o)'
  PROVE  [TheRun!Next]_(TheRun!vars)
<1> DEFINE e == event[r]
           n == Len(log)
<1>1. /\ pc[r] \in {"append", "appendReplayed"} /\ FenceIsValid(r) /\ log' = Append(log, e)
      /\ snapshot' = snapshot /\ told' = told
  BY DEF AppendEvent, AppendIsAccepted
<1>2. /\ e \in Event /\ EventWalks(e) /\ LogOK(log) /\ n \in Nat /\ (log # <<>> <=> n > 0)
      /\ ~IsClosed(snapshot) /\ LogOK(log') /\ Len(log') = n + 1 /\ log'[n + 1] = e
  BY <1>1, HolderAppends DEF IInv, WalkInv, LogOK
<1>3. Fits(log, st[r], e) /\ Follows(log, st[r]) /\ st[r].seq = n
  BY <1>1 DEF IInv, HolderInv, Replaying, Live
<1>4. /\ \A i \in 1 .. n : log'[i] = log[i]
      /\ StepsOf(log', n) = StepsOf(log, n) /\ PointedOf(log', n) = PointedOf(log, n)
      /\ Quiet(log', n) = Quiet(log, n)
  BY <1>1, <1>2, LogGrows
<1>5. /\ StepsOf(log, n) \in Nat
      /\ StepsOf(log', n + 1) = IF Completes(log', n + 1) THEN StepsOf(log, n) + 1 ELSE StepsOf(log, n)
  <2>1. n + 1 \in Nat /\ n + 1 > 0 /\ (n + 1) - 1 = n
    BY <1>2
  <2>2. QED
    BY <2>1, <1>4, StepsOfNext
<1>6. PointedOf(log', n + 1) = IF Points(log', n + 1) THEN e.to ELSE PointedOf(log, n)
  <2>1. n + 1 \in Nat /\ n + 1 > 0 /\ (n + 1) - 1 = n
    BY <1>2
  <2>2. QED
    BY <2>1, <1>2, <1>4, PointedOfNext
<1>7. /\ StepsIn(Len(log)) = StepsOf(log, n) /\ Pointed(Len(log)) = PointedOf(log, n)
      /\ (StepsIn(Len(log)))' = StepsOf(log', n + 1) /\ (Pointed(Len(log)))' = PointedOf(log', n + 1)
  BY <1>2, PlaceOfLog
<1>8. Quiet(log, n) => CommittedOutcome = NoOutcome
  BY <1>2, QuietHasNoEnd DEF CommittedTells, EndIs
<1>9. Quiet(log, n) /\ e.outcome = NoOutcome => CommittedOutcome' = NoOutcome
  <2>1. SUFFICES ASSUME Quiet(log, n), e.outcome = NoOutcome PROVE CommittedOutcome' = NoOutcome
    OBVIOUS
  <2>2. Quiet(log', n + 1)
    BY <2>1, <1>2, <1>4 DEF Quiet
  <2>3. \A o : ~EndIs(o)'
    BY <2>2, <1>1, <1>2, QuietHasNoEnd DEF EndIs, IsClosed
  <2>4. QED
    BY <2>3 DEF CommittedTells
<1>10. ASSUME Quiet(log, n), e.outcome # NoOutcome,
              ~Completes(log', n + 1), ~Points(log', n + 1)
       PROVE  [TheRun!Next]_(TheRun!vars)
  <2>1. (StepsIn(Len(log)))' = StepsIn(Len(log)) /\ (Pointed(Len(log)))' = Pointed(Len(log))
    BY <1>5, <1>6, <1>7, <1>10
  <2>2. CommittedOutcome = NoOutcome /\ told = {} /\ told' = {}
    BY <1>1, <1>8, <1>10 DEF CommittedTells
  <2>3. CommittedOutcome' # NoOutcome
    <3>1. EndsBy(log', n + 1, e.outcome)
      <4>1. n + 1 \in 1 .. n + 1 /\ (n + 1) - 1 = n
        BY <1>2
      <4>2. log'[n + 1].outcome = e.outcome /\ Quiet(log', n)
        BY <1>2, <1>4, <1>10
      <4>3. QED
        BY <1>10, <4>1, <4>2 DEF EndsBy
    <3>2. PICK o : o = e.outcome
      OBVIOUS
    <3>3. EndIs(o)'
      BY <3>1, <3>2, <1>2 DEF EndIs
    <3>4. QED
      BY <3>3 DEF CommittedTells
  <2>4. CommittedOutcome' \in Outcome \ {"failed"}
    BY <2>3 DEF CommittedTells
  <2>5. TheRun!End
    BY <2>1, <2>2, <2>4 DEF TheRun!End
  <2>6. QED
    BY <2>5 DEF TheRun!Next
<1>11. CASE e.kind = "started"
  <2>1. Quiet(log, n) /\ e.outcome = NoOutcome /\ e.to = NoNode
    BY <1>3, <1>11 DEF Fits, Follows, isTerminal
  <2>2. ~Completes(log', n + 1) /\ ~Points(log', n + 1)
    BY <1>2, <1>11, <2>1 DEF Completes, Points
  <2>3. QED
    BY <1>1, <1>5, <1>6, <1>7, <1>8, <1>9, <2>1, <2>2 DEF TheRun!vars
<1>12. CASE e.kind = "completed"
  <2>1. Quiet(log, n) /\ (e.to = NoNode <=> e.outcome # NoOutcome) /\ e.node = PointedOf(log, n)
    BY <1>3, <1>12 DEF Fits, Follows, isTerminal
  <2>2. CASE e.outcome = NoOutcome
    <3>1. Completes(log', n + 1) /\ Points(log', n + 1)
      BY <1>2, <1>12, <2>1, <2>2 DEF Completes, Points
    <3>2. <<e.node, e.to>> \in Edge
      BY <1>2, <1>12, <2>2 DEF EventWalks
    <3>3. TheRun!Complete
      BY <1>1, <1>5, <1>6, <1>7, <1>8, <1>9, <2>1, <2>2, <3>1, <3>2 DEF TheRun!Complete
    <3>4. QED
      BY <3>3 DEF TheRun!Next
  <2>3. CASE e.outcome # NoOutcome
    <3>1. ~Completes(log', n + 1) /\ ~Points(log', n + 1)
      BY <1>2, <1>12, <2>1, <2>3 DEF Completes, Points
    <3>2. QED
      BY <1>10, <2>1, <2>3, <3>1
  <2>4. QED
    BY <2>2, <2>3
<1>13. CASE e.kind = "after"
  <2>1. /\ n > 0 /\ log[n].kind = "completed" /\ EventOK(log, n)
        /\ e.to = NoNode \/ e.outcome = NoOutcome
    BY <1>2, <1>3, <1>13 DEF Fits, LastIs, Last, LogOK
  <2>2. ~Completes(log', n + 1) /\ (Points(log', n + 1) <=> e.to # NoNode /\ log[n].outcome = NoOutcome)
    BY <1>2, <1>4, <1>13, <2>1 DEF Completes, Points
  <2>3. Quiet(log, n - 1)
    <3>1. n > 1 /\ log[n - 1].kind = "started" /\ n - 1 \in 1 .. n
      BY <1>2, <2>1 DEF EventOK
    <3>2. EventOK(log, n - 1)
      BY <1>2, <3>1 DEF LogOK
    <3>3. Quiet(log, n - 2) /\ log[n - 1].outcome = NoOutcome
      BY <3>1, <3>2 DEF EventOK
    <3>4. QED
      BY <1>2, <3>1, <3>3 DEF Quiet
  <2>4. Quiet(log, n) <=> log[n].outcome = NoOutcome
    BY <1>2, <2>1, <2>3 DEF Quiet
  <2>5. CASE Quiet(log, n) /\ e.outcome = NoOutcome /\ e.to = NoNode
    BY <1>1, <1>5, <1>6, <1>7, <1>8, <1>9, <2>2, <2>5 DEF TheRun!vars
  <2>6. CASE Quiet(log, n) /\ e.outcome = NoOutcome /\ e.to # NoNode
    <3>1. StepsIn(Len(log)) > 0
      <4>1. Completes(log, n) /\ n \in Nat
        BY <1>2, <2>1, <2>4, <2>6 DEF Completes
      <4>2. StepsOf(log, n) = StepsOf(log, n - 1) + 1 /\ StepsOf(log, n - 1) \in Nat
        BY <4>1, <2>1, StepsOfNext
      <4>3. QED
        BY <4>2, <1>7
    <3>2. (Pointed(Len(log)))' \in HookJump /\ (StepsIn(Len(log)))' = StepsIn(Len(log))
      BY <1>2, <1>5, <1>6, <1>7, <1>13, <2>2, <2>4, <2>6 DEF EventWalks
    <3>3. TheRun!Jump
      BY <1>1, <1>8, <1>9, <2>6, <3>1, <3>2 DEF TheRun!Jump
    <3>4. QED
      BY <3>3 DEF TheRun!Next
  <2>7. CASE Quiet(log, n) /\ e.outcome # NoOutcome
    BY <1>10, <2>1, <2>2, <2>7
  <2>8. CASE ~Quiet(log, n)
    <3>1. ~Points(log', n + 1)
      BY <2>2, <2>4, <2>8
    <3>2. PICK o : EndIs(o)
      <4>1. log[n].outcome # NoOutcome /\ n \in 1 .. n
        BY <1>2, <2>1, <2>4, <2>8
      <4>2. EndsBy(log, n, log[n].outcome)
        BY <4>1, <2>3 DEF EndsBy
      <4>3. QED
        BY <4>2 DEF EndIs
    <3>3. CommittedOutcome = o /\ CommittedOutcome' = o
      BY <3>2 DEF CommittedTells
    <3>4. QED
      BY <1>1, <1>5, <1>6, <1>7, <2>2, <3>1, <3>3 DEF TheRun!vars
  <2>9. QED
    BY <2>5, <2>6, <2>7, <2>8
<1>14. QED
  BY <1>2, <1>11, <1>12, <1>13 DEF Event

\* The walk is invariant too.
LEMMA NextKeepsWalk ==
  ASSUME IInv, WalkInv, [Next]_vars
  PROVE  WalkInv'
<1>1. ASSUME NEW r \in Runtime, StepOf(r) PROVE WalkInv'
  BY <1>1, StepKeepsWalk
<1>2. CASE LeaseLapses \/ DeadLeaseLapses \/ UNCHANGED vars
  BY <1>2 DEF LeaseLapses, DeadLeaseLapses, vars, WalkInv, EventWalks
<1>3. QED
  BY <1>1, <1>2 DEF Next, StepOf

\* Nothing has walked yet.
LEMMA InitWalks ==
  ASSUME Init
  PROVE  WalkInv
BY DEF Init, WalkInv

\* Both invariants are invariant.
LEMMA WalkInvariance == Spec => [](IInv /\ WalkInv)
<1>1. IInv /\ WalkInv /\ [Next]_vars => WalkInv'
  BY NextKeepsWalk
<1>2. Init => WalkInv
  BY InitWalks
<1>3. QED
  BY <1>1, <1>2, Invariance, PTL DEF Spec

\* A step of RuntimeKernel is a step of RunSpec or none.
LEMMA NextRefines ==
  ASSUME IInv, WalkInv, CommittedTells, CommittedTells', [Next]_vars
  PROVE  [TheRun!Next]_(TheRun!vars)
<1>1. ASSUME NEW r \in Runtime, StepOf(r) PROVE [TheRun!Next]_(TheRun!vars)
  <2>1. told \subseteq told' /\ \A o : EndIs(o) => EndIs(o)'
    BY <1>1, ToldGrows, StepKeepsAccount DEF AccountKept
  <2>2. CASE log' = log
    BY <2>1, <2>2, SameLogRefines
  <2>3. CASE log' # log
    <3>1. AppendEvent(r)
      BY <1>1, <2>3
      DEF StepOf, Acquire, Load, ReplayLog, FinishReplayed, Resume, HookPasses, HookEnds,
          StartNextNode, HandlerReturns, AfterHookReturns, Checkpoint, AfterRun, Release,
          LoseLease, HandlerThrows, HookThrows, Crash
    <3>2. QED
      BY <2>1, <2>3, <3>1, AppendRefines
  <2>4. QED
    BY <2>2, <2>3
<1>2. CASE LeaseLapses \/ DeadLeaseLapses \/ UNCHANGED vars
  <2>1. log' = log /\ snapshot' = snapshot /\ told' = told
    BY <1>2 DEF LeaseLapses, DeadLeaseLapses, vars
  <2>2. \A o : EndIs(o) => EndIs(o)'
    BY <2>1 DEF EndIs
  <2>3. QED
    BY <2>1, <2>2, SameLogRefines
<1>3. QED
  BY <1>1, <1>2 DEF Next, StepOf

\* The first state is the first one of RunSpec.
LEMMA InitRefines ==
  ASSUME Init, CommittedTells
  PROVE  TheRun!Init
<1>1. log = <<>> /\ Len(log) = 0 /\ snapshot = initialState /\ told = {}
  BY DEF Init
<1>2. StepsIn(Len(log)) = 0
  <2>1. {i \in 1 .. 0 : log[i].kind = "completed" /\ log[i].outcome = NoOutcome} = {}
    OBVIOUS
  <2>2. QED
    BY <1>1, <2>1, FS_EmptySet DEF StepsIn
<1>3. Pointed(Len(log)) = StartNode
  <2>1. Pointers(Len(log)) = {}
    BY <1>1 DEF Pointers
  <2>2. QED
    BY <2>1 DEF Pointed
<1>4. CommittedOutcome = NoOutcome
  BY <1>1 DEF CommittedOutcome, LoggedEnds, initialState
<1>5. QED
  BY <1>1, <1>2, <1>3, <1>4 DEF TheRun!Init

\* Whatever processes call run() for a run, crash, or lose their leases, snapshot store and
\* event log of it go through one walk along the edges of the graph and the jumps of its
\* hooks; it ends once, and run() returns no other final outcome than that.
THEOREM Implements == Spec => ProcessesRunAsOne
<1>1. [](IInv /\ WalkInv => CommittedTells)
  BY CommittedIsTheEnd, PTL
<1>2. Init /\ CommittedTells => TheRun!Init
  BY InitRefines
<1>3. IInv /\ WalkInv /\ CommittedTells /\ CommittedTells' /\ [Next]_vars
        => [TheRun!Next]_(TheRun!vars)
  BY NextRefines
<1>4. QED
  BY <1>1, <1>2, <1>3, WalkInvariance, PTL DEF Spec, ProcessesRunAsOne, TheRun!Spec
=============================================================================
