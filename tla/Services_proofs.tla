-------------------------- MODULE Services_proofs --------------------------
(***************************************************************************)
(* Proofs about Delegation, A2ATasks, FileMutations, WorkerPool,           *)
(* TaskRevisions, BashSessions and HybridThreads, which share no state:    *)
(* for any calls and limits, any cancellers and restarts, any jobs and     *)
(* processes, any shards, any writers and compactions, any calls on a      *)
(* command, and any calls on a thread.                                     *)
(***************************************************************************)
EXTENDS Delegation, A2ATasks, FileMutations, WorkerPool, TaskRevisions, BashSessions,
        HybridThreads, FiniteSetTheorems, SequenceTheorems, TLAPS

(***************************************************************************)
(* Delegation.                                                             *)
(***************************************************************************)
\* There are finitely many calls, and the limits are numbers.
LimitsAreNumbers ==
  /\ IsFiniteSet(Child)
  /\ MaxParallel \in Nat /\ MaxChildRuns \in Nat /\ MaxLostEvents \in Nat

-----------------------------------------------------------------------------
(***************************************************************************)
(* The inductive invariant.                                                *)
(***************************************************************************)
CallType ==
  /\ call \in [Child -> {"idle", "refused", "checked", "listed", "stored", "running", "waiting",
                         "done", "finished", "over", "threw", "gone"}]
  /\ record \in [Child -> {"none", "running", "completed", "failed", "aborted"}]
  /\ outcome \in [Child -> {"none", "completed", "failed"}]
  /\ mishaps \in 0 .. MaxLostEvents

\* Calls that are being admitted at once know it.
EnteringInv == \A c, d \in Entering : c = d \/ c \in admitted

\* Those that run or are about to, and those that have a record or are about to, count
\* from the moment the limit was looked at.
Admitted == Running \cup Entering
Recorded == {c \in Child : record[c] # "none"}
Listed == {c \in Child : call[c] = "listed"}

LimitInv ==
  /\ Cardinality(Admitted \ admitted) <= MaxParallel
  /\ Cardinality((Recorded \cup Listed) \ admitted) <= MaxChildRuns

\* The record follows the executor, until an event is lost.
RecordInv ==
  \A c \in Child :
    /\ call[c] \in {"stored", "running", "waiting", "done", "finished"} => record[c] # "none"
    /\ call[c] = "done" => outcome[c] \in {"completed", "failed"}
    /\ call[c] \in {"finished", "over"} /\ c \notin unheard =>
         record[c] # "running" /\ (record[c] = "completed" <=> outcome[c] = "completed")
    /\ call[c] \in {"threw", "gone"} => c \in unheard

DelegationInv == CallType /\ EnteringInv /\ ActiveIsExact /\ LimitInv /\ RecordInv
-----------------------------------------------------------------------------
\* Any set of children is finite.
LEMMA ChildrenAreFinite ==
  ASSUME LimitsAreNumbers, NEW S, S \subseteq Child
  PROVE  /\ IsFiniteSet(S) /\ Cardinality(S) \in Nat
         /\ \A T : T \subseteq S => Cardinality(T) <= Cardinality(S) /\ Cardinality(T) \in Nat
<1>1. IsFiniteSet(S) /\ Cardinality(S) \in Nat
  BY FS_Subset, FS_CardinalityType DEF LimitsAreNumbers
<1>2. QED
  BY <1>1, FS_Subset, FS_CardinalityType

LEMMA InitDelegationInv == ASSUME LimitsAreNumbers, DelegationInit PROVE DelegationInv
<1>1. CallType /\ EnteringInv /\ RecordInv
  BY DEF LimitsAreNumbers, DelegationInit, CallType, EnteringInv, Entering, RecordInv
<1>2. Running = {} /\ Admitted \ admitted = {} /\ (Recorded \cup Listed) \ admitted = {}
  BY DEF DelegationInit, Running, Admitted, Entering, Recorded, Listed
<1>3. ActiveIsExact /\ LimitInv
  BY <1>2, FS_EmptySet DEF DelegationInit, LimitsAreNumbers, ActiveIsExact, LimitInv
<1>4. QED
  BY <1>1, <1>3 DEF DelegationInv

\* Every step keeps the types, and tells calls that are admitted at once.
LEMMA CallStepType ==
  ASSUME LimitsAreNumbers, CallType, EnteringInv, [DelegationNext]_delegationVars
  PROVE  CallType' /\ EnteringInv'
<1> USE DEF LimitsAreNumbers, CallType, EnteringInv, Entering
<1>1. ASSUME NEW c \in Child, RunChild(c) PROVE CallType' /\ EnteringInv'
  BY <1>1 DEF RunChild, To, history
<1>2. ASSUME NEW c \in Child, ListRuns(c) PROVE CallType' /\ EnteringInv'
  BY <1>2 DEF ListRuns, RefusedUnless, To, history
<1>3. ASSUME NEW c \in Child, StoreRunning(c) PROVE CallType' /\ EnteringInv'
  BY <1>3 DEF StoreRunning, To, history
<1>4. ASSUME NEW c \in Child, Announce(c) PROVE CallType' /\ EnteringInv'
  BY <1>4 DEF Announce, EventFails, To, history
<1>5. ASSUME NEW c \in Child, Execute(c) PROVE CallType' /\ EnteringInv'
  BY <1>5 DEF Execute, To, history
<1>6. ASSUME NEW c \in Child, StoreEnd(c) PROVE CallType' /\ EnteringInv'
  BY <1>6 DEF StoreEnd, StatusOf, To, history
<1>7. ASSUME NEW c \in Child, AnnounceEnd(c) PROVE CallType' /\ EnteringInv'
  BY <1>7 DEF AnnounceEnd, EventFails, StatusOf, To, history
<1>8. CASE AbortParent
  BY <1>8 DEF AbortParent, history
<1>9. CASE Restart
  BY <1>9 DEF Restart
<1>10. CASE UNCHANGED delegationVars
  BY <1>10 DEF delegationVars
<1>11. QED
  BY <1>1, <1>2, <1>3, <1>4, <1>5, <1>6, <1>7, <1>8, <1>9, <1>10 DEF DelegationNext, Own

\* Every step keeps records with how their children ended.
LEMMA StepRecord ==
  ASSUME LimitsAreNumbers, CallType, RecordInv, [DelegationNext]_delegationVars
  PROVE  RecordInv'
<1> USE DEF CallType, RecordInv
<1>1. ASSUME NEW c \in Child, RunChild(c) PROVE RecordInv'
  BY <1>1 DEF RunChild, To, history
<1>2. ASSUME NEW c \in Child, ListRuns(c) PROVE RecordInv'
  BY <1>2 DEF ListRuns, RefusedUnless, To, history
<1>3. ASSUME NEW c \in Child, StoreRunning(c) PROVE RecordInv'
  BY <1>3 DEF StoreRunning, To, history
<1>4. ASSUME NEW c \in Child, Announce(c) PROVE RecordInv'
  BY <1>4 DEF Announce, EventFails, To, history
<1>5. ASSUME NEW c \in Child, Execute(c) PROVE RecordInv'
  BY <1>5 DEF Execute, To, history
<1>6. ASSUME NEW c \in Child, StoreEnd(c) PROVE RecordInv'
  BY <1>6 DEF StoreEnd, StatusOf, To, history
<1>7. ASSUME NEW c \in Child, AnnounceEnd(c) PROVE RecordInv'
  BY <1>7 DEF AnnounceEnd, EventFails, StatusOf, To, history
<1>8. CASE AbortParent
  BY <1>8 DEF AbortParent, history
<1>9. CASE Restart
  BY <1>9 DEF Restart, Alive
<1>10. CASE UNCHANGED delegationVars
  BY <1>10 DEF delegationVars
<1>11. QED
  BY <1>1, <1>2, <1>3, <1>4, <1>5, <1>6, <1>7, <1>8, <1>9, <1>10 DEF DelegationNext, Own

\* What a step does to the children that run: one is started, one gives its place back,
\* or none is left.
LEMMA StepRunning ==
  ASSUME LimitsAreNumbers, CallType, ActiveIsExact, [DelegationNext]_delegationVars
  PROVE  ActiveIsExact'
<1> USE DEF CallType
<1>1. IsFiniteSet(Running) /\ Cardinality(Running) \in Nat
  BY ChildrenAreFinite DEF Running
<1>2. ASSUME NEW c \in Child, Announce(c), call'[c] = "running" PROVE ActiveIsExact'
  <2>1. c \notin Running /\ Running' = Running \cup {c} /\ active' = active + 1
    BY <1>2 DEF Announce, To, Running
  <2>2. QED
    BY <1>1, <2>1, FS_AddElement DEF ActiveIsExact
<1>3. ASSUME NEW c \in Child, AnnounceEnd(c), call' # call PROVE ActiveIsExact'
  <2>1. c \in Running /\ Running' = Running \ {c} /\ active' = active - 1
    BY <1>3 DEF AnnounceEnd, NoLongerActive, To, Running
  <2>2. QED
    BY <1>1, <2>1, FS_RemoveElement DEF ActiveIsExact
<1>4. CASE Restart
  <2>1. Running' = {} /\ active' = 0
    BY <1>4 DEF Restart, Alive, Running
  <2>2. QED
    BY <2>1, FS_EmptySet DEF ActiveIsExact
<1>5. ASSUME Running' = Running, active' = active PROVE ActiveIsExact'
  BY <1>5 DEF ActiveIsExact
<1>6. ASSUME NEW c \in Child, RunChild(c) PROVE Running' = Running /\ active' = active
  BY <1>6 DEF RunChild, To, Running
<1>7. ASSUME NEW c \in Child, ListRuns(c) PROVE Running' = Running /\ active' = active
  BY <1>7 DEF ListRuns, RefusedUnless, To, Running
<1>8. ASSUME NEW c \in Child, StoreRunning(c) PROVE Running' = Running /\ active' = active
  BY <1>8 DEF StoreRunning, To, Running
<1>9. ASSUME NEW c \in Child, Announce(c), call'[c] # "running"
      PROVE  Running' = Running /\ active' = active
  BY <1>9 DEF Announce, To, Running
<1>10. ASSUME NEW c \in Child, Execute(c) PROVE Running' = Running /\ active' = active
  BY <1>10 DEF Execute, To, Running
<1>11. ASSUME NEW c \in Child, StoreEnd(c) PROVE Running' = Running /\ active' = active
  BY <1>11 DEF StoreEnd, To, Running
<1>12. ASSUME NEW c \in Child, AnnounceEnd(c), call' = call
       PROVE  Running' = Running /\ active' = active
  BY <1>12 DEF AnnounceEnd, To, Running
<1>13. CASE AbortParent
  BY <1>5, <1>13 DEF AbortParent, Running
<1>14. CASE UNCHANGED delegationVars
  BY <1>5, <1>14 DEF delegationVars, Running
<1>15. QED
  BY <1>2, <1>3, <1>4, <1>5, <1>6, <1>7, <1>8, <1>9, <1>10, <1>11, <1>12, <1>13, <1>14
     DEF DelegationNext, Own

\* A call that is let in alone found a place free; one that is not alone is admitted.
LEMMA StepParallel ==
  ASSUME LimitsAreNumbers, CallType, ActiveIsExact, LimitInv, [DelegationNext]_delegationVars
  PROVE  Cardinality(Admitted \ admitted)' <= MaxParallel
<1> DEFINE Counted == Admitted \ admitted
<1> USE DEF CallType, Admitted, Running, Entering
<1>1. ASSUME Counted' \subseteq Counted PROVE Cardinality(Counted') <= MaxParallel
  <2>1. Counted \subseteq Child /\ MaxParallel \in Nat
    BY DEF LimitsAreNumbers
  <2>2. Cardinality(Counted') <= Cardinality(Counted) /\ Cardinality(Counted') \in Nat /\ Cardinality(Counted) \in Nat
    BY <1>1, <2>1, ChildrenAreFinite
  <2>3. QED
    BY <2>1, <2>2 DEF LimitInv
<1>2. ASSUME NEW c \in Child, RunChild(c) PROVE Cardinality(Counted') <= MaxParallel
  <2>1. CASE ActiveIsLow(c) /\ Entering = {}
    <3>1. Counted' \subseteq Running \cup {c} /\ Running \cup {c} \subseteq Child
      BY <1>2, <2>1 DEF RunChild, To
    <3>2. /\ IsFiniteSet(Running) /\ Cardinality(Running) \in Nat
          /\ Cardinality(Counted') <= Cardinality(Running \cup {c})
          /\ Cardinality(Counted') \in Nat
      BY <3>1, ChildrenAreFinite
    <3>3. Cardinality(Running \cup {c}) <= Cardinality(Running) + 1
      BY <3>2, FS_AddElement
    <3>4. Cardinality(Running) + 1 <= MaxParallel
      BY <2>1, <3>2 DEF ActiveIsLow, ActiveIsExact, LimitsAreNumbers
    <3>5. Cardinality(Running \cup {c}) \in Nat
      BY <3>1, ChildrenAreFinite
    <3>6. QED
      BY <3>2, <3>3, <3>4, <3>5 DEF LimitsAreNumbers
  <2>2. CASE ActiveIsLow(c) /\ Entering # {}
    BY <1>1, <1>2, <2>2 DEF RunChild, To
  <2>3. CASE ~ActiveIsLow(c)
    BY <1>1, <1>2, <2>3 DEF RunChild, To
  <2>4. QED
    BY <2>1, <2>2, <2>3
<1>3. ASSUME NEW c \in Child, ListRuns(c) PROVE Counted' \subseteq Counted
  BY <1>3 DEF ListRuns, RefusedUnless, To, history
<1>4. ASSUME NEW c \in Child, StoreRunning(c) PROVE Counted' \subseteq Counted
  BY <1>4 DEF StoreRunning, To, history
<1>5. ASSUME NEW c \in Child, Announce(c) PROVE Counted' \subseteq Counted
  BY <1>5 DEF Announce, To
<1>6. ASSUME NEW c \in Child, Execute(c) PROVE Counted' \subseteq Counted
  BY <1>6 DEF Execute, To
<1>7. ASSUME NEW c \in Child, StoreEnd(c) PROVE Counted' \subseteq Counted
  BY <1>7 DEF StoreEnd, To, history
<1>8. ASSUME NEW c \in Child, AnnounceEnd(c) PROVE Counted' \subseteq Counted
  BY <1>8 DEF AnnounceEnd, To
<1>9. CASE AbortParent
  BY <1>1, <1>9 DEF AbortParent, history
<1>10. CASE Restart
  BY <1>1, <1>10 DEF Restart, Alive
<1>11. CASE UNCHANGED delegationVars
  BY <1>1, <1>11 DEF delegationVars
<1>12. QED
  BY <1>1, <1>2, <1>3, <1>4, <1>5, <1>6, <1>7, <1>8, <1>9, <1>10, <1>11 DEF DelegationNext, Own

\* A call that lists the records alone found room for its own.
LEMMA StepRuns ==
  ASSUME LimitsAreNumbers, CallType, EnteringInv, LimitInv, RecordInv, [DelegationNext]_delegationVars
  PROVE  Cardinality((Recorded \cup Listed) \ admitted)' <= MaxChildRuns
<1> DEFINE Counted == (Recorded \cup Listed) \ admitted
<1> USE DEF CallType
<1>1. ASSUME Counted' \subseteq Counted PROVE Cardinality(Counted') <= MaxChildRuns
  <2>1. Counted \subseteq Child /\ MaxChildRuns \in Nat
    BY DEF LimitsAreNumbers, Recorded, Listed
  <2>2. Cardinality(Counted') <= Cardinality(Counted) /\ Cardinality(Counted') \in Nat /\ Cardinality(Counted) \in Nat
    BY <1>1, <2>1, ChildrenAreFinite
  <2>3. QED
    BY <2>1, <2>2 DEF LimitInv
<1>2. ASSUME NEW c \in Child, ListRuns(c) PROVE Cardinality(Counted') <= MaxChildRuns
  <2>1. CASE RunsAreFew /\ c \notin admitted
    <3>1. Listed \subseteq admitted
      BY <1>2, <2>1 DEF ListRuns, EnteringInv, Entering, Listed
    <3>2. Counted' \subseteq Recorded \cup {c} /\ Recorded \cup {c} \subseteq Child
      BY <1>2, <3>1 DEF ListRuns, RefusedUnless, To, history, Recorded, Listed
    <3>3. /\ IsFiniteSet(Recorded) /\ Cardinality(Recorded) \in Nat
          /\ Cardinality(Counted') <= Cardinality(Recorded \cup {c})
          /\ Cardinality(Counted') \in Nat /\ Cardinality(Recorded \cup {c}) \in Nat
      BY <3>2, ChildrenAreFinite
    <3>4. Cardinality(Recorded \cup {c}) <= Cardinality(Recorded) + 1
      <4>1. Cardinality(Recorded \cup {c}) =
              IF c \in Recorded THEN Cardinality(Recorded) ELSE Cardinality(Recorded) + 1
        BY <3>3, FS_AddElement, Zenon
      <4>2. QED
        BY <3>3, <4>1
    <3>5. Cardinality(Recorded) + 1 <= MaxChildRuns
      BY <2>1, <3>3 DEF RunsAreFew, Recorded, LimitsAreNumbers
    <3>6. QED
      BY <3>3, <3>4, <3>5 DEF LimitsAreNumbers
  <2>2. CASE ~RunsAreFew \/ c \in admitted
    BY <1>1, <1>2, <2>2 DEF ListRuns, RefusedUnless, To, history, Recorded, Listed
  <2>3. QED
    BY <2>1, <2>2
<1>3. ASSUME NEW c \in Child, RunChild(c) PROVE Counted' \subseteq Counted
  BY <1>3 DEF RunChild, To, Recorded, Listed
<1>4. ASSUME NEW c \in Child, StoreRunning(c) PROVE Counted' \subseteq Counted
  BY <1>4 DEF StoreRunning, To, history, Recorded, Listed
<1>5. ASSUME NEW c \in Child, Announce(c) PROVE Counted' \subseteq Counted
  BY <1>5 DEF Announce, To, Recorded, Listed
<1>6. ASSUME NEW c \in Child, Execute(c) PROVE Counted' \subseteq Counted
  BY <1>6 DEF Execute, To, Recorded, Listed
<1>7. ASSUME NEW c \in Child, StoreEnd(c) PROVE Counted' \subseteq Counted
  BY <1>7 DEF StoreEnd, To, history, RecordInv, Recorded, Listed
<1>8. ASSUME NEW c \in Child, AnnounceEnd(c) PROVE Counted' \subseteq Counted
  <2>1. Recorded' \subseteq Recorded /\ admitted' = admitted
    BY <1>8 DEF AnnounceEnd, Recorded
  <2>2. Listed' \subseteq Listed
    BY <1>8 DEF AnnounceEnd, To, Listed
  <2>3. QED
    BY <2>1, <2>2
<1>9. CASE AbortParent
  BY <1>1, <1>9 DEF AbortParent, history, Recorded, Listed
<1>10. CASE Restart
  BY <1>1, <1>10 DEF Restart, Alive, Recorded, Listed
<1>11. CASE UNCHANGED delegationVars
  BY <1>1, <1>11 DEF delegationVars, Recorded, Listed
<1>12. QED
  BY <1>1, <1>2, <1>3, <1>4, <1>5, <1>6, <1>7, <1>8, <1>9, <1>10, <1>11 DEF DelegationNext, Own

LEMMA NextDelegationInv == ASSUME LimitsAreNumbers, DelegationInv, [DelegationNext]_delegationVars PROVE DelegationInv'
<1>1. LimitInv'
  BY StepParallel, StepRuns DEF DelegationInv, LimitInv
<1>2. QED
  BY <1>1, CallStepType, StepRecord, StepRunning DEF DelegationInv

LEMMA InvAccounts == ASSUME LimitsAreNumbers, DelegationInv PROVE ChildrenAreAccountedFor
<1>1. DelegationTypeOK
  <2>1. Cardinality(Running) <= Cardinality(Child) /\ Cardinality(Running) \in Nat
    BY ChildrenAreFinite DEF Running
  <2>2. Cardinality(Child) \in Nat
    BY ChildrenAreFinite
  <2>3. QED
    BY <2>1, <2>2 DEF DelegationInv, ActiveIsExact, CallType, DelegationTypeOK
<1>2. LimitsHoldOneByOne
  <2>1. /\ Admitted \ admitted \subseteq Child
        /\ (Recorded \cup Listed) \ admitted \subseteq Child
    BY DEF Admitted, Running, Entering, Recorded, Listed
  <2>2. /\ Cardinality(Running \ admitted) <= Cardinality(Admitted \ admitted)
        /\ Cardinality(Recorded \ admitted) <= Cardinality((Recorded \cup Listed) \ admitted)
        /\ Cardinality(Running \ admitted) \in Nat /\ Cardinality(Recorded \ admitted) \in Nat
    <3>1. /\ Running \ admitted \subseteq Admitted \ admitted
          /\ Recorded \ admitted \subseteq (Recorded \cup Listed) \ admitted
      BY DEF Admitted
    <3>2. QED
      BY <2>1, <3>1, ChildrenAreFinite
  <2>3. /\ Cardinality(Admitted \ admitted) \in Nat
        /\ Cardinality((Recorded \cup Listed) \ admitted) \in Nat
    BY <2>1, ChildrenAreFinite
  <2>4. QED
    BY <2>2, <2>3 DEF DelegationInv, LimitInv, LimitsAreNumbers, LimitsHoldOneByOne, Recorded
<1>3. RecordsTellTheEnd
  BY DEF DelegationInv, RecordInv, RecordsTellTheEnd
<1>4. QED
  BY <1>1, <1>2, <1>3 DEF DelegationInv, ChildrenAreAccountedFor

\* runChild keeps count of its children for any number of calls and any limits: every
\* way out of a started child gives its place back, maxParallel and maxChildRuns hold
\* unless calls were admitted together, and a record tells how its child ended unless
\* an event was lost or the process was restarted.
THEOREM Accounting == ASSUME LimitsAreNumbers PROVE DelegationSpec => []ChildrenAreAccountedFor
<1>1. DelegationInit => DelegationInv
  BY InitDelegationInv
<1>2. DelegationInv /\ [DelegationNext]_delegationVars => DelegationInv'
  BY NextDelegationInv
<1>3. DelegationInv => ChildrenAreAccountedFor
  BY InvAccounts
<1>4. QED
  BY <1>1, <1>2, <1>3, PTL DEF DelegationSpec
-----------------------------------------------------------------------------
(***************************************************************************)
(* A2ATasks.                                                               *)
(***************************************************************************)
\* The request that submits the task is not one that cancels it.
SubmitIsNoCancel == "submit" \notin Canceller /\ MaxCrashes \in Nat

-----------------------------------------------------------------------------
(***************************************************************************)
(* The inductive invariant.                                                *)
(***************************************************************************)
Kept == [status : Terminal \cup {"none", "submitted", "working"}, turn : BOOLEAN]
Place == Writing \cup {"idle", "stored", "starting", "started", "running", "ran", "asking",
                       "done", "gone"}

Slot == [at : Place, next : Kept, over : BOOLEAN, after : {"stored", "starting", "running", "done"}]

A2AType ==
  /\ file \in Kept \cup {Torn}
  /\ writer \in [Request -> Slot]
  /\ listener \in {"none", "polling", "left"} /\ turn \in {"none", "running", "completed", "failed"}
  /\ asked \in BOOLEAN /\ collided \in BOOLEAN /\ early \in BOOLEAN
  /\ ended \in Terminal \cup {"none"}
  /\ writer["submit"].at = "ran" => turn \in {"completed", "failed"}

\* There is a task, and there are records of it, once it is submitted.
BeginInv ==
  /\ writer["submit"].at = "idle" => file = NoTask /\ \A r \in Request : writer[r].at = "idle"
  /\ \A r \in Request : writer[r].at \in Writing \cup {"asking"} => writer[r].next.status # "none"
  /\ ended # "none" => file.status # "none"

\* One upsert at a time reads the end that the file tells, and writes it again.
EndInv ==
  /\ \A r, q \in InUpsert : r = q
  /\ \A r \in InUpsert : ~writer[r].over
  /\ file.status = "torn" => (\E r \in Request : writer[r].at = "filling") \/ Working = {}
  /\ ended # "none" =>
       /\ Readable(file) => file.status = ended
       /\ \A r \in Request : writer[r].at \in {"opening", "filling"} => writer[r].next.status = ended

\* The turn was started, or is not started any more.
Late ==
  \/ writer["submit"].at \in {"started", "running", "ran", "done", "gone"}
  \/ writer["submit"].at \in Writing /\ writer["submit"].after \in {"running", "done"}

\* A record that knows the turn is of a task whose turn was started, and one that says
\* "cancelled" is of a cancel that asked the turn to stop, came after it, or too early.
TurnInv ==
  /\ file.turn => Late
  /\ \A r \in Request : writer[r].next.turn => Late
  /\ file.status = "cancelled" => early \/ asked \/ (Late /\ turn # "running")
  /\ \A r \in Request :
       writer[r].next.status = "cancelled" => early \/ asked \/ (Late /\ turn # "running")

A2AInv ==
  /\ A2AType /\ BeginInv /\ TurnInv
  /\ ~collided => EndInv
-----------------------------------------------------------------------------
LEMMA InitA2AInv == ASSUME SubmitIsNoCancel, A2AInit PROVE A2AInv
<1>1. A2AType
  <2>1. NoTask \in Kept
    BY DEF NoTask, Kept
  <2>2. [at |-> "idle", next |-> NoTask, over |-> FALSE, after |-> "done"] \in Slot
    BY <2>1 DEF Slot, Place
  <2>3. "submit" \in Request
    BY DEF Request
  <2>4. QED
    BY <2>1, <2>2, <2>3 DEF A2AInit, A2AType
<1>2. BeginInv /\ TurnInv /\ EndInv
  BY DEF A2AInit, BeginInv, TurnInv, EndInv, NoTask, InUpsert, Writing, Request
<1>3. QED
  BY <1>1, <1>2 DEF A2AInv

\* upsert begins with the record to write, and nobody wrote over it yet.
LEMMA UpsertBegins ==
  ASSUME A2AType, NEW r \in Request, NEW entry \in Kept,
         NEW after \in {"stored", "starting", "running", "done"}, Upsert(r, entry, after)
  PROVE  /\ writer' \in [Request -> Slot] /\ collided' \in BOOLEAN
         /\ writer'[r].at = "reading" /\ writer'[r].next = entry
         /\ ~writer'[r].over /\ writer'[r].after = after
         /\ \A q \in Request \ {r} : writer'[q] = writer[q]
         /\ ~collided' => ~collided /\ InUpsert = {}
<1> DEFINE new == [at |-> "reading", next |-> entry, over |-> FALSE, after |-> after]
<1>1. /\ new \in Slot /\ new.at = "reading" /\ new.next = entry
      /\ ~new.over /\ new.after = after
  BY DEF Slot, Place, Writing
<1>2. writer' = [writer EXCEPT ![r] = new]
  BY DEF Upsert
<1>3. collided' \in BOOLEAN /\ (~collided' => ~collided /\ InUpsert = {})
  BY DEF Upsert, A2AType
<1> HIDE DEF new
<1>4. QED
  BY <1>1, <1>2, <1>3 DEF A2AType

\* The steps of a submission by themselves: a record is stored, or the turn is started.
LEMMA SubmitSteps ==
  ASSUME SubmitTask
  PROVE  /\ UNCHANGED <<file, asked, listener, downs, ended, early>>
         /\ \/ /\ writer["submit"].at = "idle" /\ turn' = turn
               /\ Upsert("submit", [status |-> "submitted", turn |-> FALSE], "stored")
            \/ /\ writer["submit"].at = "stored" /\ turn' = turn
               /\ Upsert("submit", [status |-> "working", turn |-> FALSE], "starting")
            \/ /\ writer["submit"].at = "starting" /\ turn' = "running"
               /\ Goto("submit", "started")
            \/ /\ writer["submit"].at = "starting" /\ turn' = turn
               /\ Upsert("submit", [status |-> "failed", turn |-> FALSE], "done")
            \/ /\ writer["submit"].at = "started" /\ turn' = turn
               /\ Upsert("submit", [status |-> "working", turn |-> TRUE], "running")
BY DEF SubmitTask, Submit

\* A request that goes on keeps its record.
LEMMA GoesOn ==
  ASSUME A2AType, NEW r \in Request, NEW at \in Place, Goto(r, at)
  PROVE  /\ writer' \in [Request -> Slot] /\ collided' = collided
         /\ writer'[r].at = at /\ writer'[r].next = writer[r].next
         /\ writer'[r].over = writer[r].over /\ writer'[r].after = writer[r].after
         /\ \A q \in Request \ {r} : writer'[q] = writer[q]
<1> DEFINE new == [writer[r] EXCEPT !.at = at]
<1>1. /\ new \in Slot
      /\ new.at = at /\ new.next = writer[r].next
      /\ new.over = writer[r].over /\ new.after = writer[r].after
  BY DEF A2AType, Slot
<1>2. writer' = [writer EXCEPT ![r] = new]
  BY DEF Goto, A2AType
<1>3. collided' = collided
  BY DEF Goto
<1> HIDE DEF new
<1>4. QED
  BY <1>1, <1>2, <1>3 DEF A2AType

\* Every step keeps the types.
LEMMA A2AStepType ==
  ASSUME SubmitIsNoCancel, A2AType, [A2ANext]_a2aVars
  PROVE  A2AType'
<1> USE DEF SubmitIsNoCancel, A2AType
<1>a. "submit" \in Request /\ Canceller \subseteq Request
  BY DEF Request
<1>b. \A at \in {"opening", "filling", "started", "ran", "done"} : at \in Place
  BY DEF Place, Writing
<1>1. ASSUME NEW r \in Request, UpsertRead(r) PROVE A2AType'
  <2> DEFINE next == IF Readable(file) THEN PreserveTerminal(file, writer[r].next)
                     ELSE writer[r].next
  <2>1. writer[r].next \in Kept
    BY DEF Slot
  <2>2. next \in Kept
    BY <2>1 DEF Readable, PreserveTerminal, Torn
  <2>3. [writer[r] EXCEPT !.at = "opening", !.next = next] \in Slot
    BY <2>2, <1>b DEF Slot
  <2>4. writer' = [writer EXCEPT ![r] = [writer[r] EXCEPT !.at = "opening", !.next = next]]
    BY <1>1 DEF UpsertRead
  <2>5. writer' \in [Request -> Slot] /\ (writer'["submit"].at = "ran" => writer["submit"].at = "ran")
    BY <1>a, <2>3, <2>4 DEF Slot
  <2>6. QED
    BY <1>1, <2>5 DEF UpsertRead
<1>2. ASSUME NEW r \in Request, UpsertOpen(r) PROVE A2AType'
  <2>1. writer' \in [Request -> Slot] /\ (writer'["submit"].at = "ran" => writer["submit"].at = "ran")
    BY <1>2, <1>a, <1>b, GoesOn DEF UpsertOpen
  <2>2. QED
    BY <1>2, <2>1 DEF UpsertOpen, Goto
<1>3. ASSUME NEW r \in Request, UpsertFill(r) PROVE A2AType'
  <2>1. [writer[r] EXCEPT !.at = writer[r].after] \in Slot
    BY DEF Slot, Place
  <2>2. \A q \in Request, b \in BOOLEAN : [writer[q] EXCEPT !.over = b] \in Slot
    BY DEF Slot
  <2>3. \A q \in Request : (writer[q].over \/ writer[q].at = "filling") \in BOOLEAN
    OBVIOUS
  <2>4. writer' \in [Request -> Slot]
    BY <1>3, <2>1, <2>2, <2>3 DEF UpsertFill
  <2>5. file' \in Kept \cup {Torn}
    BY <1>3 DEF UpsertFill, Slot
  <2>6. ended' \in Terminal \cup {"none"}
    BY <1>3 DEF UpsertFill
  <2>7. /\ UNCHANGED <<turn, asked, listener, collided, early>>
        /\ writer'["submit"].at = "ran" => writer["submit"].at = "ran"
    BY <1>3, <1>a DEF UpsertFill, Slot
  <2>8. QED
    BY <2>4, <2>5, <2>6, <2>7
<1>4. CASE SubmitTask
  <2>1. \A s \in {"submitted", "working", "failed"}, b \in BOOLEAN :
          [status |-> s, turn |-> b] \in Kept
    BY DEF Kept, Terminal
  <2>2. CASE writer["submit"].at = "starting" /\ turn' = "running" /\ Goto("submit", "started")
    <3>1. writer' \in [Request -> Slot] /\ writer'["submit"].at = "started" /\ collided' = collided
      BY <1>a, <1>b, <2>2, GoesOn
    <3>2. QED
      BY <1>4, <2>2, <3>1, SubmitSteps
  <2>3. ASSUME NEW entry \in Kept, NEW after \in {"stored", "starting", "running", "done"},
               Upsert("submit", entry, after), turn' = turn
        PROVE  A2AType'
    <3>1. /\ writer' \in [Request -> Slot] /\ writer'["submit"].at = "reading"
          /\ collided' \in BOOLEAN
      BY <1>a, <2>3, UpsertBegins
    <3>2. QED
      BY <1>4, <2>3, <3>1, SubmitSteps
  <2>4. QED
    BY <1>4, <2>1, <2>2, <2>3, SubmitSteps
<1>5. CASE RunTurn
  <2>1. writer' \in [Request -> Slot] /\ collided' = collided
    BY <1>a, <1>b, <1>5, GoesOn DEF RunTurn
  <2>2. QED
    BY <1>5, <2>1 DEF RunTurn
<1>6. CASE Complete
  <2>1. turn \in {"completed", "failed"}
    BY <1>6 DEF Complete
  <2>2. CASE Goto("submit", "done")
    <3>1. writer' \in [Request -> Slot] /\ collided' = collided
      BY <1>a, <1>b, <2>2, GoesOn
    <3>2. QED
      BY <1>6, <2>1, <3>1 DEF Complete
  <2>3. CASE Upsert("submit", [status |-> turn, turn |-> TRUE], "done")
    <3>1. [status |-> turn, turn |-> TRUE] \in Kept
      BY <2>1 DEF Kept, Terminal
    <3>2. writer' \in [Request -> Slot] /\ collided' \in BOOLEAN
      BY <1>a, <2>3, <3>1, UpsertBegins
    <3>3. QED
      BY <1>6, <2>1, <3>2 DEF Complete
  <2>4. QED
    BY <1>6, <2>2, <2>3 DEF Complete, EndOf
<1>7. ASSUME NEW c \in Canceller, CancelTask(c) PROVE A2AType'
  <2>1. [file EXCEPT !.status = "cancelled"] \in Kept
    BY <1>7 DEF CancelTask, Readable, Torn, Kept, Terminal
  <2>2. [writer[c] EXCEPT !.at = "asking", !.next = [file EXCEPT !.status = "cancelled"]] \in Slot
    BY <1>a, <2>1 DEF Slot, Place
  <2>3. writer' = [writer EXCEPT ![c] =
          [writer[c] EXCEPT !.at = "asking", !.next = [file EXCEPT !.status = "cancelled"]]]
    BY <1>7 DEF CancelTask
  <2>4. writer' \in [Request -> Slot] /\ writer'["submit"] = writer["submit"]
    BY <1>a, <2>2, <2>3
  <2>5. asked' \in BOOLEAN /\ early' \in BOOLEAN
    BY <1>7 DEF CancelTask, InterruptTurn
  <2>6. QED
    BY <1>7, <2>4, <2>5 DEF CancelTask
<1>8. ASSUME NEW c \in Canceller, StoreCancelled(c) PROVE A2AType'
  <2>1. writer[c].next \in Kept
    BY <1>a DEF Slot
  <2>2. writer' \in [Request -> Slot] /\ collided' \in BOOLEAN /\ writer'["submit"] = writer["submit"]
    BY <1>a, <1>8, <2>1, UpsertBegins DEF StoreCancelled
  <2>3. QED
    BY <1>8, <2>2 DEF StoreCancelled
<1>9. CASE Subscribe
  BY <1>9 DEF Subscribe
<1>10. CASE Poll
  BY <1>10 DEF Poll
<1>11. CASE A2ARestart
  <2>1. \A r \in Request, at \in Place : [writer[r] EXCEPT !.at = at] \in Slot
    BY DEF Slot
  <2>2. \A r \in Request : (IF r \in Working THEN "gone" ELSE writer[r].at) \in Place
    BY DEF Slot, Place
  <2>3. writer' \in [Request -> Slot]
    BY <1>11, <2>1, <2>2 DEF A2ARestart
  <2>4. writer'["submit"].at # "ran"
    BY <1>11, <1>a DEF A2ARestart, Working, Slot
  <2>5. QED
    BY <1>11, <2>3, <2>4 DEF A2ARestart
<1>12. CASE UNCHANGED a2aVars
  BY <1>12 DEF a2aVars
<1>13. QED
  BY <1>1, <1>2, <1>3, <1>4, <1>5, <1>6, <1>7, <1>8, <1>9, <1>10, <1>11, <1>12 DEF A2ANext, Step

\* Every step keeps that a task is there once it is submitted.
LEMMA StepBegin ==
  ASSUME SubmitIsNoCancel, A2AType, BeginInv, [A2ANext]_a2aVars
  PROVE  BeginInv'
<1> USE DEF SubmitIsNoCancel, A2AType, BeginInv, Slot, Kept, Place, Writing, Terminal, Request, Torn, NoTask
<1>1. ASSUME NEW r \in Request, UpsertRead(r) PROVE BeginInv'
  BY <1>1 DEF UpsertRead, PreserveTerminal, Readable
<1>2. ASSUME NEW r \in Request, UpsertOpen(r) PROVE BeginInv'
  BY <1>2 DEF UpsertOpen, Goto
<1>3. ASSUME NEW r \in Request, UpsertFill(r) PROVE BeginInv'
  BY <1>3 DEF UpsertFill
<1>4. CASE SubmitTask
  BY <1>4 DEF SubmitTask, Submit, Upsert, Goto
<1>5. CASE RunTurn
  BY <1>5 DEF RunTurn, Goto
<1>6. CASE Complete
  BY <1>6 DEF Complete, EndOf, Upsert, Goto
<1>7. ASSUME NEW c \in Canceller, CancelTask(c) PROVE BeginInv'
  BY <1>7 DEF CancelTask, Readable
<1>8. ASSUME NEW c \in Canceller, StoreCancelled(c) PROVE BeginInv'
  BY <1>8 DEF StoreCancelled, Upsert
<1>9. CASE Subscribe
  BY <1>9 DEF Subscribe
<1>10. CASE Poll
  BY <1>10 DEF Poll
<1>11. CASE A2ARestart
  BY <1>11 DEF A2ARestart, Working
<1>12. CASE UNCHANGED a2aVars
  BY <1>12 DEF a2aVars
<1>13. QED
  BY <1>1, <1>2, <1>3, <1>4, <1>5, <1>6, <1>7, <1>8, <1>9, <1>10, <1>11, <1>12 DEF A2ANext, Step

\* The turn is not started twice, and is late for good.
LEMMA StepLate ==
  ASSUME SubmitIsNoCancel, A2AType, [A2ANext]_a2aVars, Late
  PROVE  Late' /\ (turn # "running" => turn' # "running")
<1> USE DEF SubmitIsNoCancel, A2AType, Late, Slot, Place, Writing, Request
<1>1. ASSUME NEW r \in Request, UpsertRead(r) PROVE Late' /\ (turn # "running" => turn' # "running")
  BY <1>1 DEF UpsertRead, PreserveTerminal
<1>2. ASSUME NEW r \in Request, UpsertOpen(r) PROVE Late' /\ (turn # "running" => turn' # "running")
  BY <1>2 DEF UpsertOpen, Goto
<1>3. ASSUME NEW r \in Request, UpsertFill(r) PROVE Late' /\ (turn # "running" => turn' # "running")
  BY <1>3 DEF UpsertFill
<1>4. CASE SubmitTask
  BY <1>4 DEF SubmitTask, Submit, Upsert, Goto
<1>5. CASE RunTurn
  BY <1>5 DEF RunTurn, Goto
<1>6. CASE Complete
  BY <1>6 DEF Complete, EndOf, Upsert, Goto
<1>7. ASSUME NEW c \in Canceller, CancelTask(c) PROVE Late' /\ (turn # "running" => turn' # "running")
  BY <1>7 DEF CancelTask, InterruptTurn
<1>8. ASSUME NEW c \in Canceller, StoreCancelled(c) PROVE Late' /\ (turn # "running" => turn' # "running")
  BY <1>8 DEF StoreCancelled, Upsert
<1>9. CASE Subscribe
  BY <1>9 DEF Subscribe
<1>10. CASE Poll
  BY <1>10 DEF Poll
<1>11. CASE A2ARestart
  BY <1>11 DEF A2ARestart, Working
<1>12. CASE UNCHANGED a2aVars
  BY <1>12 DEF a2aVars
<1>13. QED
  BY <1>1, <1>2, <1>3, <1>4, <1>5, <1>6, <1>7, <1>8, <1>9, <1>10, <1>11, <1>12 DEF A2ANext, Step

\* Every step keeps that a cancelled task has a turn that was asked to stop.
LEMMA StepTurn ==
  ASSUME SubmitIsNoCancel, A2AType, TurnInv, [A2ANext]_a2aVars
  PROVE  TurnInv'
<1> USE StepLate DEF SubmitIsNoCancel, A2AType, TurnInv, Slot, Kept, Terminal, Request, Torn, NoTask
<1>1. ASSUME NEW r \in Request, UpsertRead(r) PROVE TurnInv'
  BY <1>1 DEF UpsertRead, PreserveTerminal
<1>2. ASSUME NEW r \in Request, UpsertOpen(r) PROVE TurnInv'
  BY <1>2 DEF UpsertOpen, Goto
<1>3. ASSUME NEW r \in Request, UpsertFill(r) PROVE TurnInv'
  BY <1>3 DEF UpsertFill
<1>4. CASE SubmitTask
  <2>1. "submit" \in Request
    OBVIOUS
  <2>2. file' = file /\ asked' = asked /\ early' = early
    BY <1>4, SubmitSteps
  <2>3. CASE writer["submit"].at = "starting" /\ turn' = "running" /\ Goto("submit", "started")
    <3>1. ~Late
      BY <2>3 DEF Late, Writing
    <3>2. \A r \in Request : writer'[r].next = writer[r].next
      BY <2>1, <2>3, GoesOn DEF Place
    <3>3. QED
      BY <2>2, <3>1, <3>2
  <2>4. ASSUME NEW entry \in Kept, NEW after \in {"stored", "starting", "running", "done"},
               Upsert("submit", entry, after), turn' = turn,
               entry.status # "cancelled", entry.turn => after = "running"
        PROVE  TurnInv'
    <3>1. /\ \A r \in Request \ {"submit"} : writer'[r].next = writer[r].next
          /\ writer'["submit"].next = entry /\ writer'["submit"].after = after
          /\ writer'["submit"].at = "reading"
      BY <2>1, <2>4, UpsertBegins
    <3>2. entry.turn => Late'
      BY <2>4, <3>1 DEF Late, Writing
    <3>3. QED
      BY <2>2, <2>4, <3>1, <3>2
  <2>5. \A s \in {"submitted", "working", "failed"}, b \in BOOLEAN :
          LET entry == [status |-> s, turn |-> b] IN
          entry \in Kept /\ entry.status # "cancelled" /\ entry.turn = b
    OBVIOUS
  <2>6. QED
    BY <1>4, <2>3, <2>4, <2>5, SubmitSteps
<1>5. CASE RunTurn
  BY <1>5 DEF RunTurn, Goto
<1>6. CASE Complete
  <2>1. /\ file' = file /\ asked' = asked /\ early' = early /\ turn' = turn
        /\ turn \in {"completed", "failed"} /\ Late
    BY <1>6 DEF Complete, Late
  <2>2. CASE Goto("submit", "done")
    <3>1. \A r \in Request : writer'[r].next = writer[r].next
      BY <2>2, GoesOn DEF Place
    <3>2. QED
      BY <2>1, <3>1
  <2>3. CASE Upsert("submit", [status |-> turn, turn |-> TRUE], "done")
    <3> DEFINE entry == [status |-> turn, turn |-> TRUE]
    <3>1. entry \in Kept /\ entry.status # "cancelled"
      BY <2>1
    <3>2. /\ \A r \in Request \ {"submit"} : writer'[r].next = writer[r].next
          /\ writer'["submit"].next = entry
      BY ZenonT(60), <2>3, <3>1, UpsertBegins
    <3>3. QED
      BY <2>1, <3>1, <3>2
  <2>4. QED
    BY <1>6, <2>2, <2>3 DEF Complete, EndOf
<1>7. ASSUME NEW c \in Canceller, CancelTask(c) PROVE TurnInv'
  BY <1>7 DEF CancelTask, InterruptTurn
<1>8. ASSUME NEW c \in Canceller, StoreCancelled(c) PROVE TurnInv'
  BY <1>8 DEF StoreCancelled, Upsert
<1>9. CASE Subscribe
  BY <1>9 DEF Subscribe
<1>10. CASE Poll
  BY <1>10 DEF Poll
<1>11. CASE A2ARestart
  BY <1>11 DEF A2ARestart
<1>12. CASE UNCHANGED a2aVars
  BY <1>12 DEF a2aVars
<1>13. QED
  BY <1>1, <1>2, <1>3, <1>4, <1>5, <1>6, <1>7, <1>8, <1>9, <1>10, <1>11, <1>12 DEF A2ANext, Step

\* An upsert that begins while no other is at work finds the file whole.
LEMMA UpsertAlone ==
  ASSUME A2AType, EndInv, NEW r \in Request, NEW entry \in Kept,
         NEW after \in {"stored", "starting", "running", "done"}, Upsert(r, entry, after),
         ~collided', r \in Working \/ file = NoTask, UNCHANGED <<file, ended>>
  PROVE  EndInv'
<1>1. /\ writer'[r].at = "reading" /\ ~writer'[r].over
      /\ \A q \in Request \ {r} : writer'[q] = writer[q]
      /\ InUpsert = {}
  BY UpsertBegins
<1>2. \A q \in Request : writer[q].at \notin Writing
  BY <1>1 DEF InUpsert
<1>3. file.status # "torn"
  BY <1>2 DEF EndInv, Writing, NoTask
<1>4. \A q \in Request : writer'[q].at \in Writing => q = r
  BY <1>1, <1>2
<1>5. QED
  BY <1>1, <1>3, <1>4 DEF EndInv, InUpsert, Readable, Writing

\* A request that does something else leaves the file to the one that writes it.
LEMMA GoesOnAside ==
  ASSUME A2AType, EndInv, NEW r \in Working, NEW at \in Place, Goto(r, at),
         writer[r].at \notin Writing, at \notin Writing, UNCHANGED <<file, ended>>
  PROVE  EndInv'
<1>1. r \in Request
  BY DEF Working
<1>2. /\ writer'[r].at = at
      /\ \A q \in Request \ {r} : writer'[q] = writer[q]
  BY <1>1, GoesOn
<1>3. InUpsert' = InUpsert /\ r \notin InUpsert
  BY <1>1, <1>2 DEF InUpsert
<1>4. file.status = "torn" => \E q \in Request \ {r} : writer[q].at = "filling"
  BY DEF EndInv, Writing
<1>5. QED
  BY <1>1, <1>2, <1>3, <1>4 DEF EndInv, Readable, Writing, InUpsert

\* As long as no two upserts were at work at once, the end that the file told first is
\* the one that is read and written again.
LEMMA StepEnd ==
  ASSUME SubmitIsNoCancel, A2AType, BeginInv, ~collided => EndInv, [A2ANext]_a2aVars, ~collided'
  PROVE  EndInv'
<1>a. "submit" \in Request /\ Canceller \subseteq Request
  BY DEF Request
<1>1. ASSUME NEW r \in Request, UpsertRead(r) PROVE EndInv'
  <2>1. EndInv /\ writer[r].at = "reading" /\ UNCHANGED <<file, ended>>
    BY <1>1 DEF UpsertRead
  <2>2. \A q \in Request : writer[q].at \in Writing => q = r
    BY <2>1 DEF EndInv, InUpsert, Writing
  <2>3. file.status # "torn"
    BY <2>1, <2>2 DEF EndInv, Working, Writing
  <2>4. ended # "none" => Readable(file) /\ file.status = ended /\ ended \in Terminal
    BY <2>1, <2>3 DEF EndInv, BeginInv, Readable, A2AType
  <2> DEFINE next == IF Readable(file) THEN PreserveTerminal(file, writer[r].next)
                     ELSE writer[r].next
             new == [writer[r] EXCEPT !.at = "opening", !.next = next]
  <2>5. ended # "none" => next.status = ended
    BY <2>4 DEF PreserveTerminal
  <2>6. writer' = [writer EXCEPT ![r] = new]
    BY <1>1 DEF UpsertRead
  <2>7. new.at = "opening" /\ new.next = next /\ new.over = writer[r].over
    BY DEF A2AType, Slot
  <2> HIDE DEF new, next
  <2>8. /\ writer'[r].at = "opening" /\ writer'[r].next = next /\ writer'[r].over = writer[r].over
        /\ \A q \in Request \ {r} : writer'[q] = writer[q]
    BY <2>6, <2>7 DEF A2AType
  <2>9. InUpsert' = InUpsert
    BY <2>1, <2>8 DEF InUpsert, Writing
  <2>10. QED
    BY <2>1, <2>2, <2>3, <2>5, <2>8, <2>9 DEF EndInv, Readable, InUpsert, Writing
<1>2. ASSUME NEW r \in Request, UpsertOpen(r) PROVE EndInv'
  <2>1. /\ EndInv /\ writer[r].at = "opening" /\ file' = Torn /\ ended' = ended
        /\ Goto(r, "filling")
    BY <1>2 DEF UpsertOpen, Goto
  <2>2. /\ writer'[r].at = "filling" /\ writer'[r].next = writer[r].next
        /\ writer'[r].over = writer[r].over
        /\ \A q \in Request \ {r} : writer'[q] = writer[q]
    BY <2>1, GoesOn DEF Place, Writing
  <2>3. InUpsert' = InUpsert
    BY <2>1, <2>2 DEF InUpsert, Writing
  <2>4. QED
    BY <2>1, <2>2, <2>3 DEF EndInv, Readable, Torn, InUpsert, Writing
<1>3. ASSUME NEW r \in Request, UpsertFill(r) PROVE EndInv'
  <2>1. EndInv /\ writer[r].at = "filling" /\ ~writer[r].over
    BY <1>3 DEF UpsertFill, EndInv, InUpsert, Writing
  <2>2. \A q \in Request : writer[q].at \in Writing => q = r
    BY <2>1 DEF EndInv, InUpsert, Writing
  <2>3. file' = writer[r].next /\ file' \in Kept /\ file'.status # "none" /\ Readable(file')
    BY <1>3, <2>1 DEF UpsertFill, A2AType, Slot, BeginInv, Writing, Readable, Kept, Terminal
  <2>4. \A q \in Request : writer'[q].at \notin Writing
    BY <1>3, <2>2 DEF UpsertFill, A2AType, Slot, Writing
  <2>5. ended' # "none" => file'.status = ended'
    BY <1>3, <2>1, <2>3 DEF UpsertFill, EndInv
  <2>6. QED
    BY <2>3, <2>4, <2>5 DEF EndInv, InUpsert, Readable, Writing
<1>4. CASE SubmitTask
  <2>1. /\ \A s \in {"submitted", "working", "failed"}, b \in BOOLEAN :
             [status |-> s, turn |-> b] \in Kept
        /\ "started" \in Place
    BY DEF Kept, Terminal, Place
  <2>2. /\ EndInv /\ UNCHANGED <<file, ended>>
        /\ "submit" \in Working \/ file = NoTask
    <3>1. ~collided /\ UNCHANGED <<file, ended>>
      BY <1>4, SubmitSteps DEF Upsert, Goto, A2AType
    <3>2. "submit" \in Working \/ writer["submit"].at = "idle"
      BY <1>4, <1>a, SubmitSteps DEF Working
    <3>3. QED
      BY <3>1, <3>2 DEF BeginInv
  <2>3. CASE writer["submit"].at = "starting" /\ Goto("submit", "started")
    <3>1. "submit" \in Working /\ "started" \notin Writing /\ "starting" \notin Writing
      BY <1>a, <2>3 DEF Working, Writing
    <3>2. QED
      BY <2>1, <2>2, <2>3, <3>1, GoesOnAside
  <2>4. ASSUME NEW entry \in Kept, NEW after \in {"stored", "starting", "running", "done"},
               Upsert("submit", entry, after)
        PROVE  EndInv'
    BY <1>a, <2>2, <2>4, UpsertAlone
  <2>5. QED
    BY <1>4, <2>1, <2>3, <2>4, SubmitSteps
<1>5. CASE RunTurn
  <2>1. /\ EndInv /\ UNCHANGED <<file, ended>> /\ Goto("submit", "ran")
        /\ writer["submit"].at = "running"
    BY <1>5 DEF RunTurn, Goto
  <2>2. /\ "submit" \in Working /\ "ran" \in Place
        /\ "ran" \notin Writing /\ "running" \notin Writing
    BY <1>a, <2>1 DEF Working, Writing, Place
  <2>3. QED
    BY <2>1, <2>2, GoesOnAside
<1>6. CASE Complete
  <2>1. /\ EndInv /\ UNCHANGED <<file, ended>> /\ writer["submit"].at = "ran"
        /\ turn \in {"completed", "failed"}
    BY <1>6 DEF Complete, Goto, Upsert, A2AType
  <2>2. /\ "submit" \in Working /\ "done" \in Place
        /\ "ran" \notin Writing /\ "done" \notin Writing
    BY <1>a, <2>1 DEF Working, Writing, Place
  <2>3. [status |-> turn, turn |-> TRUE] \in Kept
    BY <2>1 DEF Kept, Terminal
  <2>4. CASE Goto("submit", "done")
    BY <2>1, <2>2, <2>4, GoesOnAside
  <2>5. CASE Upsert("submit", [status |-> turn, turn |-> TRUE], "done")
    BY <1>a, <2>1, <2>2, <2>3, <2>5, UpsertAlone
  <2>6. QED
    BY <1>6, <2>4, <2>5 DEF Complete, EndOf
<1>7. ASSUME NEW c \in Canceller, CancelTask(c) PROVE EndInv'
  <2>1. /\ EndInv /\ writer[c].at = "idle" /\ Readable(file) /\ UNCHANGED <<file, ended>>
    BY <1>7 DEF CancelTask
  <2>2. /\ writer'[c].at = "asking"
        /\ \A q \in Request \ {c} : writer'[q] = writer[q]
    BY <1>7, <1>a DEF CancelTask, A2AType, Slot
  <2>3. InUpsert' = InUpsert /\ c \notin InUpsert
    BY <2>1, <2>2, <1>a DEF InUpsert, Writing
  <2>4. QED
    BY <1>a, <2>1, <2>2, <2>3 DEF EndInv, Readable, InUpsert, Writing
<1>8. ASSUME NEW c \in Canceller, StoreCancelled(c) PROVE EndInv'
  <2>1. /\ EndInv /\ UNCHANGED <<file, ended>> /\ Upsert(c, writer[c].next, "done")
        /\ c \in Working
    BY <1>8, <1>a DEF StoreCancelled, Upsert, Working
  <2>2. writer[c].next \in Kept
    BY <1>a DEF A2AType, Slot
  <2>3. QED
    BY <1>a, <2>1, <2>2, UpsertAlone
<1>9. CASE Subscribe
  BY <1>9 DEF Subscribe, EndInv, InUpsert, Working
<1>10. CASE Poll
  BY <1>10 DEF Poll, EndInv, InUpsert, Working
<1>11. CASE A2ARestart
  <2>1. EndInv /\ UNCHANGED <<file, ended>>
    BY <1>11 DEF A2ARestart
  <2>2. \A r \in Request : writer'[r].at \in {"idle", "done", "gone"}
    BY <1>11 DEF A2ARestart, Working, A2AType, Slot
  <2>3. QED
    BY <2>1, <2>2 DEF EndInv, InUpsert, Working, Writing, Readable
<1>12. CASE UNCHANGED a2aVars
  BY <1>12 DEF a2aVars, EndInv, InUpsert, Working
<1>13. QED
  BY <1>1, <1>2, <1>3, <1>4, <1>5, <1>6, <1>7, <1>8, <1>9, <1>10, <1>11, <1>12 DEF A2ANext, Step

LEMMA NextA2AInv == ASSUME SubmitIsNoCancel, A2AInv, [A2ANext]_a2aVars PROVE A2AInv'
<1>1. A2AType' /\ BeginInv' /\ TurnInv'
  BY A2AStepType, StepBegin, StepTurn DEF A2AInv
<1>2. ~collided' => EndInv'
  BY StepEnd DEF A2AInv
<1>3. QED
  BY <1>1, <1>2 DEF A2AInv

\* The file of an agent-to-agent task keeps the first end it told, for any number of
\* cancels and restarts, as long as no two upserts were at work at once; and a task that
\* reads as cancelled has a turn that was asked to stop, is not running, or was
\* cancelled before the task knew its turn.
THEOREM EndIsTold == ASSUME SubmitIsNoCancel PROVE A2ASpec => []TaskTellsItsEnd
<1>1. A2AInit => A2AInv
  BY InitA2AInv
<1>2. A2AInv /\ [A2ANext]_a2aVars => A2AInv'
  BY NextA2AInv
<1>3. A2AInv => TaskTellsItsEnd
  <2>1. A2AInv => A2ATypeOK
    <3> DEFINE Text == [status : Terminal \cup {"torn", "none", "submitted", "working"}, turn : BOOLEAN]
    <3>1. Torn \in Text
      BY DEF Torn
    <3>2. \A r \in Kept : r \in Text
      BY DEF Kept, Terminal
    <3>3. QED
      BY <3>1, <3>2 DEF A2AInv, A2AType, A2ATypeOK
  <2>2. A2AInv => EndIsKeptOneByOne
    BY DEF A2AInv, EndInv, EndIsKeptOneByOne
  <2>3. A2AInv => CancelledTurnIsAsked
    BY DEF A2AInv, TurnInv, CancelledTurnIsAsked
  <2>4. QED
    BY <2>1, <2>2, <2>3 DEF TaskTellsItsEnd
<1>4. QED
  BY <1>1, <1>2, <1>3, PTL DEF A2ASpec
-----------------------------------------------------------------------------
(***************************************************************************)
(* FileMutations.                                                          *)
(***************************************************************************)
\* Every job belongs to a process, and None is not a job.
JobsHaveHosts == Host \in [Job -> Process] /\ None \notin Job

-----------------------------------------------------------------------------
(***************************************************************************)
(* Proofs, for any jobs and processes: the inductive invariant.            *)
(***************************************************************************)
JobInv ==
  job \in [Job -> {"idle", "queued", "owning", "editing", "removing", "done", "failed", "gone"}]

Holds(j) == job[j] \in {"owning", "editing"}

\* A job has the lock directory of its key from mkdir on, unless it was taken from it.
LockInv == \A j \in Job : Holds(j) /\ keyOf[j] \notin stolen => lock[keyOf[j]] = j

\* A dead process has no job that goes on.
DeadInv == \A j \in Job : Host[j] \in dead => job[j] \in {"done", "failed", "gone"}

\* What a job is about to remove was made by a job of a dead process.
RemoveInv == \A j \in Job : job[j] = "removing" => sawDead[j] \in Job /\ Host[sawDead[j]] \in dead

MutationInv == MutationTypeOK /\ JobInv /\ LockInv /\ DeadInv /\ RemoveInv
-----------------------------------------------------------------------------
LEMMA InitMutationInv == ASSUME JobsHaveHosts, MutationInit PROVE MutationInv
BY DEF JobsHaveHosts, MutationInit, MutationInv, MutationTypeOK, JobInv, LockInv, DeadInv, RemoveInv, Holds, Key

\* Every step keeps the types: of a key, an owner of a lock, a process.
LEMMA MutationStepType ==
  ASSUME JobsHaveHosts, MutationTypeOK, JobInv, [MutationNext]_mutationVars
  PROVE  MutationTypeOK' /\ JobInv'
<1> USE DEF MutationTypeOK, JobInv
<1>1. ASSUME NEW j \in Job, Register(j) PROVE MutationTypeOK' /\ JobInv'
  BY <1>1 DEF Register, MovesTo, Key
<1>2. ASSUME NEW j \in Job, MakeLock(j) PROVE MutationTypeOK' /\ JobInv'
  BY <1>2 DEF MakeLock, MovesTo
<1>3. ASSUME NEW j \in Job, FindDead(j) PROVE MutationTypeOK' /\ JobInv'
  BY <1>3 DEF FindDead, MovesTo
<1>4. ASSUME NEW j \in Job, RemoveDead(j) PROVE MutationTypeOK' /\ JobInv'
  BY <1>4 DEF RemoveDead, MovesTo
<1>5. ASSUME NEW j \in Job, TimeOut(j) PROVE MutationTypeOK' /\ JobInv'
  BY <1>5 DEF TimeOut, MovesTo
<1>6. ASSUME NEW j \in Job, Mark(j) PROVE MutationTypeOK' /\ JobInv'
  BY <1>6 DEF Mark, MovesTo
<1>7. ASSUME NEW j \in Job, Release(j) PROVE MutationTypeOK' /\ JobInv'
  BY <1>7 DEF Release, MovesTo
<1>8. ASSUME NEW p \in Process, Crash(p) PROVE MutationTypeOK' /\ JobInv'
  BY <1>8 DEF Crash
<1>9. CASE UNCHANGED mutationVars
  BY <1>9 DEF mutationVars
<1>10. QED
  BY <1>1, <1>2, <1>3, <1>4, <1>5, <1>6, <1>7, <1>8, <1>9 DEF MutationNext, Advance

\* A lock that a job of a dead process had is nobody's any more.
LEMMA DeadHoldNothing ==
  ASSUME MutationInv, NEW j \in Job, job[j] = "removing", lock[keyOf[j]] = sawDead[j]
  PROVE  \A i \in Job : Holds(i) /\ keyOf[i] = keyOf[j] => keyOf[i] \in stolen
BY DEF MutationInv, LockInv, DeadInv, RemoveInv, Holds

\* Every step keeps the locks with those who made them, unless it removes one that was
\* not found dead.
LEMMA StepLock ==
  ASSUME JobsHaveHosts, MutationInv, [MutationNext]_mutationVars
  PROVE  LockInv' /\ DeadInv' /\ RemoveInv'
<1> USE DEF JobsHaveHosts, MutationInv, MutationTypeOK, JobInv, LockInv, DeadInv, RemoveInv, Holds
<1>1. ASSUME NEW j \in Job, Register(j) PROVE LockInv' /\ DeadInv' /\ RemoveInv'
  BY <1>1 DEF Register, MovesTo
<1>2. ASSUME NEW j \in Job, MakeLock(j) PROVE LockInv' /\ DeadInv' /\ RemoveInv'
  BY <1>2 DEF MakeLock, MovesTo
<1>3. ASSUME NEW j \in Job, FindDead(j) PROVE LockInv' /\ DeadInv' /\ RemoveInv'
  BY <1>3 DEF FindDead, OwnerIsDead, MovesTo
<1>4. ASSUME NEW j \in Job, RemoveDead(j) PROVE LockInv' /\ DeadInv' /\ RemoveInv'
  <2>1. \A i \in Job : Holds(i) /\ keyOf[i] = keyOf[j] => keyOf[i] \in stolen'
    BY <1>4, DeadHoldNothing DEF RemoveDead
  <2>2. LockInv'
    BY <1>4, <2>1 DEF RemoveDead, MovesTo
  <2>3. DeadInv' /\ RemoveInv'
    BY <1>4 DEF RemoveDead, MovesTo
  <2>4. QED
    BY <2>2, <2>3
<1>5. ASSUME NEW j \in Job, TimeOut(j) PROVE LockInv' /\ DeadInv' /\ RemoveInv'
  BY <1>5 DEF TimeOut, MovesTo
<1>6. ASSUME NEW j \in Job, Mark(j) PROVE LockInv' /\ DeadInv' /\ RemoveInv'
  BY <1>6 DEF Mark, MovesTo
<1>7. ASSUME NEW j \in Job, Release(j) PROVE LockInv' /\ DeadInv' /\ RemoveInv'
  BY <1>7 DEF Release, MovesTo
<1>8. ASSUME NEW p \in Process, Crash(p) PROVE LockInv' /\ DeadInv' /\ RemoveInv'
  BY <1>8 DEF Crash
<1>9. CASE UNCHANGED mutationVars
  BY <1>9 DEF mutationVars
<1>10. QED
  BY <1>1, <1>2, <1>3, <1>4, <1>5, <1>6, <1>7, <1>8, <1>9 DEF MutationNext, Advance

LEMMA NextMutationInv == ASSUME JobsHaveHosts, MutationInv, [MutationNext]_mutationVars PROVE MutationInv'
BY MutationStepType, StepLock DEF MutationInv

\* withFileMutationQueue lets one job at a time edit the file under a key, for any number
\* of jobs, processes and crashes, until removing a dead owner's lock directory by its
\* path removes one that was made since.
THEOREM Exclusive == ASSUME JobsHaveHosts PROVE MutationSpec => []EditsAreExclusive
<1>1. MutationInit => MutationInv
  BY InitMutationInv
<1>2. MutationInv /\ [MutationNext]_mutationVars => MutationInv'
  BY NextMutationInv
<1>3. MutationInv => EditsAreExclusive
  BY DEF MutationInv, LockInv, Holds, EditsAreExclusive, OneEditorPerKey
<1>4. QED
  BY <1>1, <1>2, <1>3, PTL DEF MutationSpec

(***************************************************************************)
(* WorkerPool.                                                             *)
(***************************************************************************)
PoolTypeOK ==
  /\ pool \in {"spawning", "running", "over", "killed"}
  /\ toSpawn \subseteq Shard /\ pausing \subseteq Shard
  /\ workers \subseteq Shard \X Nat /\ up \subseteq workers /\ noticed \subseteq workers \ up
  /\ restarts \in [Shard -> 0 .. MaxRestarts]

\* The workers a shard has had are numbered from 0.
Numbered(s, n) == WorkersOf(s) = {<<s, i>> : i \in 0 .. (n - 1)}

\* A shard has had a worker more than it was restarted, or is in the pause before it.
CountInv ==
  \A s \in Shard : \E n \in 0 .. (restarts[s] + 1) :
    /\ Numbered(s, n)
    /\ s \in pausing => n <= restarts[s]
    /\ s \in toSpawn => n = 0 /\ s \notin pausing

\* It has at most one whose exit has not been handled, and none in the pause.
UnnoticedInv ==
  \A s \in Shard :
    /\ \A v, w \in WorkersOf(s) \ noticed : v = w
    /\ s \in pausing => WorkersOf(s) \subseteq noticed

PhaseInv ==
  /\ pool \in {"spawning", "killed"} => pausing = {} /\ ~stopping
  /\ pool = "running" =>
       /\ toSpawn = {} /\ ~stopping
       /\ \A s \in Shard : s \in pausing \/ WorkersOf(s) \ noticed # {}
  /\ pool = "spawning" => \A s \in Shard : s \in toSpawn \/ WorkersOf(s) \ noticed # {}
  /\ pool = "over" => stopping /\ signalled = workers

PoolInv == PoolTypeOK /\ CountInv /\ UnnoticedInv /\ PhaseInv
-----------------------------------------------------------------------------
\* So many are as many as the last number says.
LEMMA NumbersCount ==
  ASSUME NEW s, NEW n \in Nat
  PROVE  /\ IsFiniteSet({<<s, i>> : i \in 0 .. (n - 1)})
         /\ Cardinality({<<s, i>> : i \in 0 .. (n - 1)}) = n
<1> DEFINE I == 0 .. (n - 1)
           T == {<<s, i>> : i \in I}
           f == [i \in I |-> <<s, i>>]
<1>1. IsFiniteSet(I) /\ Cardinality(I) = n
  BY FS_Interval
<1>2. f \in Bijection(I, T)
  BY DEF Bijection, Injection, Surjection, IsInjective
<1>3. ExistsBijection(I, T)
  BY <1>2 DEF ExistsBijection
<1>4. QED
  BY <1>1, <1>3, FS_Bijection

LEMMA InitPoolInv == PoolInit => PoolInv
<1> SUFFICES ASSUME PoolInit PROVE PoolInv
  OBVIOUS
<1> USE PoolAssumption DEF PoolInit, WorkersOf
<1>1. PoolTypeOK
  BY DEF PoolTypeOK
<1>2. CountInv
  <2> SUFFICES ASSUME NEW s \in Shard
               PROVE  \E n \in 0 .. (restarts[s] + 1) :
                        /\ Numbered(s, n)
                        /\ s \in pausing => n <= restarts[s]
                        /\ s \in toSpawn => n = 0 /\ s \notin pausing
    BY DEF CountInv
  <2>1. 0 \in 0 .. (restarts[s] + 1) /\ Numbered(s, 0)
    BY DEF Numbered
  <2>2. QED
    BY <2>1
<1>3. UnnoticedInv /\ PhaseInv
  BY DEF UnnoticedInv, PhaseInv
<1>4. QED
  BY <1>1, <1>2, <1>3 DEF PoolInv

\* The next worker of a shard gets the next number.
LEMMA SpawnNumbers ==
  ASSUME NEW s \in Shard, NEW n \in Nat, Numbered(s, n), SpawnShard(s)
  PROVE  /\ Numbered(s, n + 1)'
         /\ <<s, n>> \notin workers
         /\ workers' = workers \cup {<<s, n>>} /\ up' = up \cup {<<s, n>>}
         /\ \A r \in Shard : r # s => WorkersOf(r)' = WorkersOf(r)
         /\ WorkersOf(s)' = WorkersOf(s) \cup {<<s, n>>}
<1>1. Cardinality(WorkersOf(s)) = n
  BY NumbersCount DEF Numbered
<1>2. workers' = workers \cup {<<s, n>>} /\ up' = up \cup {<<s, n>>}
  BY <1>1 DEF SpawnShard
<1>3. <<s, n>> \notin workers
  BY DEF Numbered, WorkersOf
<1>4. WorkersOf(s)' = WorkersOf(s) \cup {<<s, n>>}
  BY <1>2 DEF WorkersOf
<1>5. \A r \in Shard : r # s => WorkersOf(r)' = WorkersOf(r)
  BY <1>2 DEF WorkersOf
<1>6. {<<s, i>> : i \in 0 .. ((n + 1) - 1)} = {<<s, i>> : i \in 0 .. (n - 1)} \cup {<<s, n>>}
  OBVIOUS
<1>7. QED
  BY <1>2, <1>3, <1>4, <1>5, <1>6 DEF Numbered

LEMMA SpawnFirstKeeps == ASSUME PoolInv, NEW s \in Shard, SpawnFirst(s) PROVE PoolInv'
<1> USE DEF PoolInv
<1>1. Numbered(s, 0)
  BY DEF SpawnFirst, CountInv
<1>2. /\ Numbered(s, 1)' /\ <<s, 0>> \notin workers
      /\ workers' = workers \cup {<<s, 0>>} /\ up' = up \cup {<<s, 0>>}
      /\ \A r \in Shard : r # s => WorkersOf(r)' = WorkersOf(r)
      /\ WorkersOf(s)' = WorkersOf(s) \cup {<<s, 0>>} /\ WorkersOf(s) = {}
  BY <1>1, SpawnNumbers DEF SpawnFirst, Numbered
<1>3. PoolTypeOK'
  BY <1>2 DEF PoolTypeOK, SpawnFirst
<1>4. CountInv'
  <2> SUFFICES ASSUME NEW r \in Shard
               PROVE  (\E n \in 0 .. (restarts[r] + 1) :
                         /\ Numbered(r, n)
                         /\ r \in pausing => n <= restarts[r]
                         /\ r \in toSpawn => n = 0 /\ r \notin pausing)'
    BY DEF CountInv
  <2>1. CASE r = s
    BY <2>1, <1>2 DEF SpawnFirst, PoolTypeOK, PhaseInv
  <2>2. CASE r # s
    BY <2>2, <1>2 DEF SpawnFirst, CountInv, Numbered
  <2>3. QED
    BY <2>1, <2>2
<1>5. UnnoticedInv'
  BY <1>2 DEF UnnoticedInv, SpawnFirst, PhaseInv
<1>6. <<s, 0>> \notin noticed
  BY <1>2 DEF PoolTypeOK
<1>7. PhaseInv'
  BY <1>2, <1>6 DEF PhaseInv, SpawnFirst
<1>8. QED
  BY <1>3, <1>4, <1>5, <1>7

LEMMA RespawnKeeps == ASSUME PoolInv, NEW s \in Shard, Respawn(s) PROVE PoolInv'
<1> USE DEF PoolInv
<1>1. CASE ~SpawnsAgain
  <2>1. /\ workers' = workers /\ up' = up /\ noticed' = noticed /\ restarts' = restarts
        /\ pausing' = pausing \ {s} /\ toSpawn' = toSpawn /\ pool' = pool
        /\ stopping' = stopping /\ signalled' = signalled
        /\ \A r \in Shard : WorkersOf(r)' = WorkersOf(r)
    BY <1>1 DEF Respawn, WorkersOf
  <2>2. PoolTypeOK' /\ UnnoticedInv'
    BY <2>1 DEF PoolTypeOK, UnnoticedInv
  <2>3. CountInv'
    BY <2>1 DEF CountInv, Numbered
  <2>4. PhaseInv'
    BY <1>1, <2>1 DEF PhaseInv, SpawnsAgain
  <2>5. QED
    BY <2>2, <2>3, <2>4
<1>2. CASE SpawnsAgain
  <2>1. /\ s \in pausing /\ pausing' = pausing \ {s} /\ SpawnShard(s) /\ ~stopping
        /\ noticed' = noticed /\ restarts' = restarts /\ toSpawn' = toSpawn /\ pool' = pool
        /\ stopping' = stopping /\ signalled' = signalled
    BY <1>2 DEF Respawn, SpawnsAgain
  <2>2. PICK n \in 0 .. (restarts[s] + 1) :
          Numbered(s, n) /\ n <= restarts[s] /\ s \notin toSpawn
    BY <2>1 DEF CountInv
  <2>3. n \in Nat /\ restarts[s] \in Nat
    BY <2>2, PoolAssumption DEF PoolTypeOK
  <2>4. /\ Numbered(s, n + 1)' /\ <<s, n>> \notin workers
        /\ workers' = workers \cup {<<s, n>>} /\ up' = up \cup {<<s, n>>}
        /\ \A r \in Shard : r # s => WorkersOf(r)' = WorkersOf(r)
        /\ WorkersOf(s)' = WorkersOf(s) \cup {<<s, n>>}
    BY <2>1, <2>2, <2>3, SpawnNumbers
  <2>5. PoolTypeOK'
    BY <2>1, <2>3, <2>4 DEF PoolTypeOK
  <2>6. CountInv'
    <3> SUFFICES ASSUME NEW r \in Shard
                 PROVE  (\E k \in 0 .. (restarts[r] + 1) :
                           /\ Numbered(r, k)
                           /\ r \in pausing => k <= restarts[r]
                           /\ r \in toSpawn => k = 0 /\ r \notin pausing)'
      BY DEF CountInv
    <3>1. CASE r = s
      <4>1. n + 1 \in 0 .. (restarts[s] + 1)' /\ s \notin pausing' /\ s \notin toSpawn'
        BY <2>1, <2>2, <2>3
      <4>2. QED
        BY <3>1, <4>1, <2>4
    <3>2. CASE r # s
      BY <3>2, <2>1, <2>4 DEF CountInv, Numbered
    <3>3. QED
      BY <3>1, <3>2
  <2>7. <<s, n>> \notin noticed /\ WorkersOf(s) \subseteq noticed
    BY <2>1, <2>4 DEF PoolTypeOK, UnnoticedInv
  <2>8. UnnoticedInv'
    BY <2>1, <2>4, <2>7 DEF UnnoticedInv
  <2>9. PhaseInv'
    BY <2>1, <2>4, <2>7 DEF PhaseInv, PoolTypeOK
  <2>10. QED
    BY <2>5, <2>6, <2>8, <2>9
<1>3. QED
  BY <1>1, <1>2

LEMMA NoticeKeeps == ASSUME PoolInv, NEW w \in workers, Notice(w) PROVE PoolInv'
<1> USE DEF PoolInv
<1>1. /\ w \in workers \ (up \cup noticed) /\ noticed' = noticed \cup {w}
      /\ pool \in {"running", "over"}
      /\ workers' = workers /\ up' = up /\ toSpawn' = toSpawn
      /\ \A r \in Shard : WorkersOf(r)' = WorkersOf(r)
  BY DEF Notice, Stop, WorkersOf
<1>2. w[1] \in Shard /\ w \in WorkersOf(w[1]) /\ restarts[w[1]] \in 0 .. MaxRestarts
  BY DEF PoolTypeOK, WorkersOf
<1>3. \A r \in Shard : w \in WorkersOf(r) => r = w[1]
  BY DEF WorkersOf
<1>4. WorkersOf(w[1]) \subseteq noticed' /\ w[1] \notin pausing
  BY <1>1, <1>2 DEF UnnoticedInv
<1>5. CASE ~stopping /\ restarts[w[1]] < MaxRestarts
  <2>1. /\ restarts' = [restarts EXCEPT ![w[1]] = @ + 1] /\ pausing' = pausing \cup {w[1]}
        /\ pool' = pool /\ stopping' = stopping /\ signalled' = signalled
    BY <1>2, <1>5, PoolAssumption DEF Notice
  <2>2. PoolTypeOK'
    BY <1>1, <1>2, <1>5, <2>1, PoolAssumption DEF PoolTypeOK
  <2>3. CountInv'
    <3> SUFFICES ASSUME NEW r \in Shard
                 PROVE  (\E k \in 0 .. (restarts[r] + 1) :
                           /\ Numbered(r, k)
                           /\ r \in pausing => k <= restarts[r]
                           /\ r \in toSpawn => k = 0 /\ r \notin pausing)'
      BY DEF CountInv
    <3>1. PICK n \in 0 .. (restarts[r] + 1) :
            /\ Numbered(r, n) /\ (r \in pausing => n <= restarts[r])
            /\ (r \in toSpawn => n = 0 /\ r \notin pausing)
      BY DEF CountInv
    <3>2. Numbered(r, n)'
      BY <1>1, <3>1 DEF Numbered
    <3>3. CASE r = w[1]
      <4>1. restarts[r]' = restarts[r] + 1 /\ restarts[r] \in Nat
        BY <3>3, <2>1, <1>2, PoolAssumption DEF PoolTypeOK
      <4>2. r \notin toSpawn
        <5>1. WorkersOf(r) # {}
          BY <3>3, <1>2
        <5>2. n # 0
          BY <5>1, <3>1 DEF Numbered
        <5>3. QED
          BY <3>1, <5>2
      <4>3. QED
        BY <3>1, <3>2, <4>1, <4>2, <1>1
    <3>4. CASE r # w[1]
      BY <3>1, <3>2, <3>4, <2>1, <1>1 DEF PoolTypeOK
    <3>5. QED
      BY <3>3, <3>4
  <2>4. UnnoticedInv'
    BY <1>1, <1>3, <1>4, <2>1 DEF UnnoticedInv
  <2>5. PhaseInv'
    BY <1>1, <1>3, <1>5, <2>1 DEF PhaseInv
  <2>6. QED
    BY <2>2, <2>3, <2>4, <2>5
<1>6. CASE stopping \/ restarts[w[1]] >= MaxRestarts
  <2>1. /\ pausing' = pausing /\ restarts' = restarts
        /\ \/ pool' = "over" /\ stopping' /\ signalled' = workers
           \/ stopping /\ pool' = pool /\ stopping' = stopping /\ signalled' = signalled
    BY <1>2, <1>6, PoolAssumption DEF Notice, Stop
  <2>2. PoolTypeOK' /\ UnnoticedInv'
    BY <1>1, <1>3, <2>1 DEF PoolTypeOK, UnnoticedInv
  <2>3. CountInv'
    BY <1>1, <2>1 DEF CountInv, Numbered
  <2>4. PhaseInv'
    BY <1>1, <2>1 DEF PhaseInv
  <2>5. QED
    BY <2>2, <2>3, <2>4
<1>7. QED
  BY <1>2, <1>5, <1>6, PoolAssumption

\* Neither stopping the pool nor the exit of a worker numbers one anew.
LEMMA OthersKeep ==
  ASSUME PoolInv, UNCHANGED <<toSpawn, workers, noticed, restarts>>,
         up' \subseteq up, pausing' \subseteq pausing,
         \/ UNCHANGED <<pool, pausing, stopping, signalled>>
         \/ pool' = "over" /\ stopping' /\ signalled' = workers
         \/ pool = "spawning" /\ pool' = "killed" /\ UNCHANGED <<pausing, stopping, signalled>>
         \/ /\ pool = "spawning" /\ pool' = "running" /\ toSpawn = {}
            /\ UNCHANGED <<pausing, stopping, signalled>>
  PROVE  PoolInv'
<1> USE DEF PoolInv
<1>1. \A s \in Shard : WorkersOf(s)' = WorkersOf(s)
  BY DEF WorkersOf
<1>2. PoolTypeOK' /\ UnnoticedInv'
  BY <1>1 DEF PoolTypeOK, UnnoticedInv
<1>3. CountInv'
  BY <1>1 DEF CountInv, Numbered
<1>4. PhaseInv'
  BY <1>1 DEF PhaseInv
<1>5. QED
  BY <1>2, <1>3, <1>4

LEMMA NextPoolInv == ASSUME PoolInv, [PoolNext]_poolVars PROVE PoolInv'
<1>1. CASE \E s \in Shard : SpawnFirst(s)
  BY <1>1, SpawnFirstKeeps
<1>2. CASE \E w \in workers : WorkerExits(w)
  BY <1>2, OthersKeep DEF WorkerExits
<1>3. CASE AllSpawned \/ KilledEarly
  BY <1>3, OthersKeep DEF AllSpawned, KilledEarly
<1>4. CASE ShutDown \/ SpawnThrows
  BY <1>4, OthersKeep DEF ShutDown, SpawnThrows, Stop
<1>5. CASE Tend
  BY <1>5, RespawnKeeps, NoticeKeeps DEF Tend
<1>6. CASE UNCHANGED poolVars
  BY <1>6, OthersKeep DEF poolVars
<1>7. QED
  BY <1>1, <1>2, <1>3, <1>4, <1>5, <1>6 DEF PoolNext

LEMMA PoolInvImplies == PoolInv => PoolKeepsItsWorkers
<1> SUFFICES ASSUME PoolInv PROVE PoolKeepsItsWorkers
  OBVIOUS
<1> USE DEF PoolInv
<1>1. ASSUME NEW s \in Shard
      PROVE  /\ Cardinality(WorkersOf(s) \cap up) <= 1
             /\ Cardinality(WorkersOf(s)) <= MaxRestarts + 1
  <2>1. WorkersOf(s) \cap up = {} \/ \E w : WorkersOf(s) \cap up = {w}
    <3>1. \A v, w \in WorkersOf(s) \cap up : v = w
      BY DEF UnnoticedInv, PoolTypeOK
    <3>2. QED
      BY <3>1
  <2>2. Cardinality(WorkersOf(s) \cap up) <= 1
    BY <2>1, FS_EmptySet, FS_Singleton
  <2>3. PICK n \in 0 .. (restarts[s] + 1) : Numbered(s, n)
    BY DEF CountInv
  <2>4. n \in Nat /\ n <= MaxRestarts + 1
    BY <2>3, PoolAssumption DEF PoolTypeOK
  <2>5. Cardinality(WorkersOf(s)) = n
    BY <2>3, <2>4, NumbersCount DEF Numbered
  <2>6. QED
    BY <2>2, <2>4, <2>5
<1>2. OneWorkerPerShard /\ RestartsAreFew
  BY <1>1 DEF OneWorkerPerShard, RestartsAreFew
<1>3. EveryShardIsServed
  BY DEF PhaseInv, EveryShardIsServed
<1>4. NoWorkerIsLeft
  BY DEF PhaseInv, PoolTypeOK, NoWorkerIsLeft
<1>5. QED
  BY <1>2, <1>3, <1>4 DEF PoolKeepsItsWorkers

\* runWorkerPool keeps one worker per shard, serves every shard while it runs, restarts
\* none more often than it was told, and leaves no worker without its SIGTERM: for any
\* shards and any limit, however often workers exit.
THEOREM Shards == PoolSpec => []PoolKeepsItsWorkers
<1>1. PoolInit => PoolInv
  BY InitPoolInv
<1>2. PoolInv /\ [PoolNext]_poolVars => PoolInv'
  BY NextPoolInv
<1>3. PoolInv => PoolKeepsItsWorkers
  BY PoolInvImplies
<1>4. QED
  BY <1>1, <1>2, <1>3, PTL DEF PoolSpec

-----------------------------------------------------------------------------
(***************************************************************************)
(* TaskRevisions.                                                          *)
(***************************************************************************)
\* Compactions are writers, of which there are finitely many, and "none" is nobody's
\* token.
WritersAreNamed ==
  /\ IsFiniteSet(Writer) /\ Compaction \subseteq Writer /\ "none" \notin Writer
  /\ MaxStops \in Nat

-----------------------------------------------------------------------------
(***************************************************************************)
(* The inductive invariant.                                                *)
(***************************************************************************)
HasLock == {"checking", "writing", "written", "conflict"}
HasItem == HasLock \cup {"locking", "removing", "undoing", "done"}
HasNoItem == {"idle", "loaded", "read", "appending", "aborting", "failed"}

TypeInv ==
  /\ pc \in [Writer -> HasItem \cup HasNoItem \cup {"gone"}] /\ base \in [Writer -> Nat]
  /\ original \in [Writer -> SUBSET Compaction] /\ items \subseteq Compaction
  /\ holder \in Writer \cup {"none"} /\ stops \in 0 .. MaxStops
  /\ \A w \in Writer : pc[w] \in {"read", "appending"} => w \in Compaction

\* What was committed was committed by its writer alone, and nobody aborts it any more.
RevisionInv ==
  /\ \A c \in committed :
       /\ c.token \in Writer /\ c = Mine(c.token)
       /\ pc[c.token] \in {"written", "done", "gone"}
       /\ c \in files
  /\ current # Unset => current \in committed
  /\ \A w \in Writer :
       /\ pc[w] = "writing" => Mine(w) \in files
       /\ pc[w] \in {"written", "done"} => Mine(w) \in committed

\* Those who have committed: a revision is at most as high as there are writers that
\* committed before.
Committers == {w \in Writer : Mine(w) \in committed}

CommitterInv ==
  /\ current.rev <= Cardinality(Committers)
  /\ \A w \in Writer : base[w] <= Cardinality(Committers \ {w})

\* A lock that was never taken from a live writer is held by one at a time, and what the
\* holder has compared stays so.
CommitLockInv ==
  /\ \A w \in Writer : pc[w] \in HasLock => holder = w
  /\ \A w \in Writer : pc[w] = "writing" => base[w] = current.rev
  /\ \A c \in committed : c.rev <= current.rev
  /\ \A c, d \in committed : c.rev = d.rev => c = d

\* The item of a compaction is in the session from its append until it is taken back.
ItemInv ==
  \A w \in Compaction :
    /\ pc[w] \in HasItem => w \in items
    /\ pc[w] \in HasNoItem => w \notin items

IInv ==
  /\ TypeInv /\ RevisionInv /\ CommitterInv
  /\ ~seized => CommitLockInv
  /\ ~rewound => ItemInv
-----------------------------------------------------------------------------
LEMMA InitIInv == ASSUME WritersAreNamed, Init PROVE IInv
<1> USE DEF WritersAreNamed, Init
<1>1. TypeInv /\ RevisionInv /\ CommitLockInv /\ ItemInv
  BY DEF TypeInv, RevisionInv, CommitLockInv, ItemInv, HasLock, HasItem, HasNoItem
<1>2. \A w \in Writer : Committers = {} /\ Committers \ {w} = {}
  BY DEF Committers
<1>3. CommitterInv
  BY <1>2, FS_EmptySet DEF CommitterInv, Committers, Unset
<1>4. QED
  BY <1>1, <1>3 DEF IInv

\* The types of the revisions: their numbers are naturals.
LEMMA RevisionType ==
  ASSUME TypeInv, RevisionInv
  PROVE  /\ current.rev \in Nat
         /\ \A c \in committed : c.rev \in Nat
         /\ \A w \in Writer : Mine(w).rev = base[w] + 1 /\ Mine(w).token = w
<1>1. \A w \in Writer : Mine(w).rev = base[w] + 1 /\ Mine(w).token = w
  BY DEF Mine
<1>2. \A c \in committed : c.rev \in Nat
  BY <1>1 DEF RevisionInv, TypeInv
<1>3. current.rev \in Nat
  BY <1>2 DEF RevisionInv, Unset
<1>4. QED
  BY <1>1, <1>2, <1>3

\* Every step keeps the types.
LEMMA StepType ==
  ASSUME WritersAreNamed, TypeInv, RevisionInv, [Next]_taskVars
  PROVE  TypeInv'
<1> USE DEF TypeInv, WritersAreNamed, HasItem, HasNoItem, HasLock
<1>1. ASSUME NEW w \in Writer, Load(w) PROVE TypeInv'
  BY <1>1, RevisionType DEF Load, Goes
<1>2. ASSUME NEW w \in Writer, ReadItems(w) PROVE TypeInv'
  BY <1>2 DEF ReadItems, Goes
<1>3. ASSUME NEW w \in Writer, Prepare(w) PROVE TypeInv'
  BY <1>3 DEF Prepare, Goes
<1>4. ASSUME NEW w \in Writer, AppendItem(w) PROVE TypeInv'
  BY <1>4 DEF AppendItem, Goes
<1>5. ASSUME NEW w \in Writer, Lock(w) PROVE TypeInv'
  BY <1>5 DEF Lock, Goes
<1>6. ASSUME NEW w \in Writer, FindStale(w) PROVE TypeInv'
  BY <1>6 DEF FindStale, Goes
<1>7. ASSUME NEW w \in Writer, RemoveStale(w) PROVE TypeInv'
  BY <1>7 DEF RemoveStale, Goes
<1>8. ASSUME NEW w \in Writer, GiveUp(w) PROVE TypeInv'
  BY <1>8 DEF GiveUp, Goes
<1>9. ASSUME NEW w \in Writer, Check(w) PROVE TypeInv'
  BY <1>9 DEF Check, Goes
<1>10. ASSUME NEW w \in Writer, WriteActive(w) PROVE TypeInv'
  BY <1>10 DEF WriteActive, Goes
<1>11. ASSUME NEW w \in Writer, Unlock(w) PROVE TypeInv'
  BY <1>11 DEF Unlock, Goes
<1>12. ASSUME NEW w \in Writer, RewriteItems(w) PROVE TypeInv'
  BY <1>12 DEF RewriteItems, AsItWas, Goes
<1>13. ASSUME NEW w \in Writer, Abort(w) PROVE TypeInv'
  BY <1>13 DEF Abort, Goes
<1>14. ASSUME NEW w \in Writer, WriterDies(w) PROVE TypeInv'
  BY <1>14 DEF WriterDies, Goes
<1>15. CASE Age
  BY <1>15 DEF Age
<1>16. CASE UNCHANGED taskVars
  BY <1>16 DEF taskVars
<1>17. QED
  BY <1>1, <1>2, <1>3, <1>4, <1>5, <1>6, <1>7, <1>8, <1>9, <1>10, <1>11, <1>12, <1>13, <1>14, <1>15, <1>16 DEF Next, Act

\* Every step keeps what was committed where it is: a writer that aborts has not
\* committed, and only its own revision goes.
LEMMA StepRevision ==
  ASSUME WritersAreNamed, TypeInv, RevisionInv, [Next]_taskVars
  PROVE  RevisionInv'
<1> USE RevisionType DEF TypeInv, RevisionInv, Mine, WritersAreNamed
<1>1. ASSUME NEW w \in Writer, Load(w) PROVE RevisionInv'
  BY <1>1 DEF Load, Goes
<1>2. ASSUME NEW w \in Writer, ReadItems(w) PROVE RevisionInv'
  BY <1>2 DEF ReadItems, Goes
<1>3. ASSUME NEW w \in Writer, Prepare(w) PROVE RevisionInv'
  BY <1>3 DEF Prepare, Goes
<1>4. ASSUME NEW w \in Writer, AppendItem(w) PROVE RevisionInv'
  BY <1>4 DEF AppendItem, Goes
<1>5. ASSUME NEW w \in Writer, Lock(w) PROVE RevisionInv'
  BY <1>5 DEF Lock, Goes
<1>6. ASSUME NEW w \in Writer, FindStale(w) PROVE RevisionInv'
  BY <1>6 DEF FindStale, Goes
<1>7. ASSUME NEW w \in Writer, RemoveStale(w) PROVE RevisionInv'
  BY <1>7 DEF RemoveStale, Goes
<1>8. ASSUME NEW w \in Writer, GiveUp(w) PROVE RevisionInv'
  BY <1>8 DEF GiveUp, Goes
<1>9. ASSUME NEW w \in Writer, Check(w) PROVE RevisionInv'
  BY <1>9 DEF Check, Goes
<1>10. ASSUME NEW w \in Writer, WriteActive(w) PROVE RevisionInv'
  BY <1>10 DEF WriteActive, Goes
<1>11. ASSUME NEW w \in Writer, Unlock(w) PROVE RevisionInv'
  BY <1>11 DEF Unlock, Goes
<1>12. ASSUME NEW w \in Writer, RewriteItems(w) PROVE RevisionInv'
  BY <1>12 DEF RewriteItems, AsItWas, Goes
<1>13. ASSUME NEW w \in Writer, Abort(w) PROVE RevisionInv'
  BY <1>13 DEF Abort, Aborts, Goes
<1>14. ASSUME NEW w \in Writer, WriterDies(w) PROVE RevisionInv'
  BY <1>14 DEF WriterDies, Goes
<1>15. CASE Age
  BY <1>15 DEF Age
<1>16. CASE UNCHANGED taskVars
  BY <1>16 DEF taskVars
<1>17. QED
  BY <1>1, <1>2, <1>3, <1>4, <1>5, <1>6, <1>7, <1>8, <1>9, <1>10, <1>11, <1>12, <1>13, <1>14, <1>15, <1>16 DEF Next, Act

\* Only a commit makes somebody a committer, and it makes one of its writer alone.
LEMMA StepCommitters ==
  ASSUME WritersAreNamed, TypeInv, RevisionInv, [Next]_taskVars
  PROVE  \/ UNCHANGED <<base, committed, current>>
         \/ /\ UNCHANGED <<committed, current>> /\ Committers' = Committers
            /\ \E w \in Writer :
                 w \notin Committers /\ base' = [base EXCEPT ![w] = current.rev]
         \/ /\ UNCHANGED base
            /\ \E w \in Writer : w \notin Committers /\ current' = Mine(w)
                                /\ Committers' = Committers \cup {w}
<1>1. ASSUME NEW w \in Writer, Load(w)
      PROVE  /\ UNCHANGED <<committed, current>> /\ Committers' = Committers
             /\ w \notin Committers /\ base' = [base EXCEPT ![w] = current.rev]
  <2>1. \A c \in committed : c.token # w
    BY <1>1 DEF Load, RevisionInv
  <2>2. Mine(w) \notin committed /\ Mine(w)' \notin committed
    BY <2>1 DEF Mine
  <2>3. \A v \in Writer \ {w} : Mine(v)' = Mine(v)
    BY <1>1 DEF Load, Mine, TypeInv
  <2>4. QED
    BY <1>1, <2>2, <2>3 DEF Load, Committers
<1>2. ASSUME NEW w \in Writer, WriteActive(w)
      PROVE  /\ UNCHANGED base /\ w \notin Committers
             /\ current' = Mine(w) /\ Committers' = Committers \cup {w}
  <2>1. Mine(w) \notin committed
    BY <1>2, RevisionType DEF WriteActive, RevisionInv
  <2>2. \A v \in Writer : Mine(v)' = Mine(v)
    BY <1>2 DEF WriteActive, Mine
  <2>3. \A v \in Writer : Mine(v) = Mine(w) => v = w
    BY RevisionType
  <2>4. QED
    BY <1>2, <2>1, <2>2, <2>3 DEF WriteActive, Committers
<1>3. QED
  BY <1>1, <1>2 DEF Next, Act, ReadItems, Prepare, AppendItem, Lock, FindStale, RemoveStale,
     GiveUp, Check, Unlock, RewriteItems, Abort, WriterDies, Age, taskVars

\* Every step keeps a revision as low as there are committers.
LEMMA StepCount ==
  ASSUME WritersAreNamed, TypeInv, RevisionInv, CommitterInv, [Next]_taskVars
  PROVE  CommitterInv'
<1>1. IsFiniteSet(Committers) /\ Cardinality(Committers) \in Nat
  BY FS_Subset, FS_CardinalityType DEF WritersAreNamed, Committers
<1>2. \A w \in Writer : Cardinality(Committers \ {w}) \in Nat
  BY <1>1, FS_RemoveElement, FS_CardinalityType
<1>3. CASE UNCHANGED <<base, committed, current>>
  BY <1>3 DEF CommitterInv, Committers, Mine
<1>4. ASSUME UNCHANGED <<committed, current>>, Committers' = Committers, NEW w \in Writer,
             w \notin Committers, base' = [base EXCEPT ![w] = current.rev]
      PROVE  CommitterInv'
  <2>1. Committers \ {w} = Committers
    BY <1>4
  <2>2. QED
    BY <1>4, <2>1 DEF CommitterInv, TypeInv
<1>5. ASSUME UNCHANGED base, NEW w \in Writer, w \notin Committers, current' = Mine(w),
             Committers' = Committers \cup {w}
      PROVE  CommitterInv'
  <2>1. Committers \ {w} = Committers
    BY <1>5
  <2>2. base[w] <= Cardinality(Committers)
    BY <2>1 DEF CommitterInv
  <2>3. Cardinality(Committers') = Cardinality(Committers) + 1
    BY <1>1, <1>5, FS_AddElement
  <2>4. current'.rev <= Cardinality(Committers')
    BY <1>1, <1>5, <2>2, <2>3, RevisionType DEF TypeInv
  <2>5. ASSUME NEW v \in Writer PROVE base[v] <= Cardinality(Committers' \ {v})
    <3>1. Committers \ {v} \subseteq Committers' \ {v} /\ IsFiniteSet(Committers' \ {v})
      BY <1>1, <1>5, FS_AddElement, FS_RemoveElement
    <3>2. /\ Cardinality(Committers \ {v}) <= Cardinality(Committers' \ {v})
          /\ Cardinality(Committers' \ {v}) \in Nat
      BY <3>1, FS_Subset, FS_CardinalityType
    <3>3. QED
      BY <1>2, <3>2 DEF CommitterInv, TypeInv
  <2>6. QED
    BY <1>5, <2>4, <2>5 DEF CommitterInv
<1>6. QED
  BY <1>3, <1>4, <1>5, StepCommitters

\* As long as no lock has been taken from a live writer, what its holder has compared
\* stays so, and a commit is above all earlier ones.
LEMMA StepCommitLock ==
  ASSUME WritersAreNamed, TypeInv, RevisionInv, ~seized => CommitLockInv, [Next]_taskVars, ~seized'
  PROVE  CommitLockInv'
<1> USE DEF WritersAreNamed, TypeInv, CommitLockInv, HasLock
<1>1. ASSUME NEW w \in Writer, Load(w) PROVE CommitLockInv'
  BY <1>1, RevisionType DEF Load, Goes
<1>2. ASSUME NEW w \in Writer, ReadItems(w) PROVE CommitLockInv'
  BY <1>2 DEF ReadItems, Goes
<1>3. ASSUME NEW w \in Writer, Prepare(w) PROVE CommitLockInv'
  BY <1>3 DEF Prepare, Goes
<1>4. ASSUME NEW w \in Writer, AppendItem(w) PROVE CommitLockInv'
  BY <1>4 DEF AppendItem, Goes
<1>5. ASSUME NEW w \in Writer, Lock(w) PROVE CommitLockInv'
  BY <1>5 DEF Lock, Goes
<1>6. ASSUME NEW w \in Writer, FindStale(w) PROVE CommitLockInv'
  BY <1>6 DEF FindStale, Goes
<1>7. ASSUME NEW w \in Writer, RemoveStale(w) PROVE CommitLockInv'
  BY <1>7 DEF RemoveStale, Goes
<1>8. ASSUME NEW w \in Writer, GiveUp(w) PROVE CommitLockInv'
  BY <1>8 DEF GiveUp, Goes
<1>9. ASSUME NEW w \in Writer, Check(w) PROVE CommitLockInv'
  BY <1>9 DEF Check, IsStillActive, Goes
<1>10. ASSUME NEW w \in Writer, WriteActive(w) PROVE CommitLockInv'
  <2>1. Mine(w).rev = current.rev + 1
    BY <1>10, RevisionType DEF WriteActive
  <2>2. \A c \in committed : c.rev <= current.rev /\ c.rev # Mine(w).rev
    BY <1>10, <2>1, RevisionType DEF WriteActive
  <2>3. QED
    BY <1>10, <2>1, <2>2, RevisionType DEF WriteActive, Goes
<1>11. ASSUME NEW w \in Writer, Unlock(w) PROVE CommitLockInv'
  BY <1>11 DEF Unlock, Goes
<1>12. ASSUME NEW w \in Writer, RewriteItems(w) PROVE CommitLockInv'
  BY <1>12 DEF RewriteItems, Goes
<1>13. ASSUME NEW w \in Writer, Abort(w) PROVE CommitLockInv'
  BY <1>13 DEF Abort, Goes
<1>14. ASSUME NEW w \in Writer, WriterDies(w) PROVE CommitLockInv'
  BY <1>14 DEF WriterDies, Goes
<1>15. CASE Age
  BY <1>15 DEF Age
<1>16. CASE UNCHANGED taskVars
  BY <1>16 DEF taskVars
<1>17. QED
  BY <1>1, <1>2, <1>3, <1>4, <1>5, <1>6, <1>7, <1>8, <1>9, <1>10, <1>11, <1>12, <1>13, <1>14,
     <1>15, <1>16 DEF Next, Act

\* As long as no compaction has taken back the items of others, each has its own item
\* in the session from its append until it takes it back.
LEMMA StepItem ==
  ASSUME WritersAreNamed, TypeInv, ~rewound => ItemInv, [Next]_taskVars, ~rewound'
  PROVE  ItemInv'
<1> USE DEF WritersAreNamed, TypeInv, ItemInv, HasLock, HasItem, HasNoItem
<1>1. ASSUME NEW w \in Writer, Load(w) PROVE ItemInv'
  BY <1>1 DEF Load, Goes
<1>2. ASSUME NEW w \in Writer, ReadItems(w) PROVE ItemInv'
  BY <1>2 DEF ReadItems, Goes
<1>3. ASSUME NEW w \in Writer, Prepare(w) PROVE ItemInv'
  BY <1>3 DEF Prepare, Goes
<1>4. ASSUME NEW w \in Writer, AppendItem(w) PROVE ItemInv'
  BY <1>4 DEF AppendItem, Goes
<1>5. ASSUME NEW w \in Writer, Lock(w) PROVE ItemInv'
  BY <1>5 DEF Lock, Goes
<1>6. ASSUME NEW w \in Writer, FindStale(w) PROVE ItemInv'
  BY <1>6 DEF FindStale, Goes
<1>7. ASSUME NEW w \in Writer, RemoveStale(w) PROVE ItemInv'
  BY <1>7 DEF RemoveStale, Goes
<1>8. ASSUME NEW w \in Writer, GiveUp(w) PROVE ItemInv'
  BY <1>8 DEF GiveUp, Goes
<1>9. ASSUME NEW w \in Writer, Check(w) PROVE ItemInv'
  BY <1>9 DEF Check, Goes
<1>10. ASSUME NEW w \in Writer, WriteActive(w) PROVE ItemInv'
  BY <1>10 DEF WriteActive, Goes
<1>11. ASSUME NEW w \in Writer, Unlock(w) PROVE ItemInv'
  BY <1>11 DEF Unlock, Goes
<1>12. ASSUME NEW w \in Writer, RewriteItems(w) PROVE ItemInv'
  <2>1. ~rewound /\ (w \in Compaction => original[w] = items \ {w})
    BY <1>12 DEF RewriteItems
  <2>2. items' = IF w \in Compaction THEN items \ {w} ELSE items
    BY <1>12, <2>1 DEF RewriteItems, AsItWas
  <2>3. pc[w] = "undoing" /\ pc' = [pc EXCEPT ![w] = "aborting"]
    BY <1>12 DEF RewriteItems, Goes
  <2>4. QED
    BY <2>1, <2>2, <2>3
<1>13. ASSUME NEW w \in Writer, Abort(w) PROVE ItemInv'
  BY <1>13 DEF Abort, Goes
<1>14. ASSUME NEW w \in Writer, WriterDies(w) PROVE ItemInv'
  BY <1>14 DEF WriterDies, Goes
<1>15. CASE Age
  BY <1>15 DEF Age
<1>16. CASE UNCHANGED taskVars
  BY <1>16 DEF taskVars
<1>17. QED
  BY <1>1, <1>2, <1>3, <1>4, <1>5, <1>6, <1>7, <1>8, <1>9, <1>10, <1>11, <1>12, <1>13, <1>14,
     <1>15, <1>16 DEF Next, Act

LEMMA NextIInv == ASSUME WritersAreNamed, IInv, [Next]_taskVars PROVE IInv'
<1>1. TypeInv' /\ RevisionInv' /\ CommitterInv'
  BY StepType, StepRevision, StepCount DEF IInv
<1>2. ~seized' => CommitLockInv'
  BY StepCommitLock DEF IInv
<1>3. ~rewound' => ItemInv'
  BY StepItem DEF IInv
<1>4. QED
  BY <1>1, <1>2, <1>3 DEF IInv

LEMMA IInvAgrees == ASSUME WritersAreNamed, IInv PROVE RevisionsAgree
<1>1. \A w \in Writer : base[w] <= Cardinality(Writer)
  <2> TAKE w \in Writer
  <2>1. /\ Cardinality(Committers \ {w}) <= Cardinality(Writer)
        /\ Cardinality(Committers \ {w}) \in Nat /\ Cardinality(Writer) \in Nat
    BY FS_Subset, FS_CardinalityType DEF WritersAreNamed, Committers
  <2>2. QED
    BY <2>1 DEF IInv, TypeInv, CommitterInv
<1>2. Cardinality(Writer) \in Nat
  BY FS_CardinalityType DEF WritersAreNamed
<1>3. TypeOK
  BY <1>1, <1>2 DEF IInv, TypeInv, TypeOK
<1>4. ActiveIsThere
  BY DEF IInv, RevisionInv, ActiveIsThere
<1>5. RevisionsAreCommittedOnce
  BY DEF IInv, CommitLockInv, RevisionsAreCommittedOnce
<1>6. ItemFollowsRevision
  <2>1. \A w \in Writer : pc[w] = "failed" => Mine(w) \notin committed
    BY DEF IInv, RevisionInv, Mine
  <2>2. QED
    BY <2>1 DEF IInv, RevisionInv, ItemInv, HasItem, HasNoItem, ItemFollowsRevision,
       WritersAreNamed
<1>7. QED
  BY <1>3, <1>4, <1>5, <1>6 DEF RevisionsAgree

\* Pointer, revisions and session of a run agree, for any number of writers, crashes and
\* stalls: commit never points to a revision that abort removes, a revision is committed
\* once unless a lock was taken from a live writer, and a compaction that is over has its
\* item in the session exactly when it was committed, unless another one's went with it.
THEOREM Agreement == ASSUME WritersAreNamed PROVE Spec => []RevisionsAgree
<1>1. Init => IInv
  BY InitIInv
<1>2. IInv /\ [Next]_taskVars => IInv'
  BY NextIInv
<1>3. IInv => RevisionsAgree
  BY IInvAgrees
<1>4. QED
  BY <1>1, <1>2, <1>3, PTL DEF Spec
-----------------------------------------------------------------------------
(***************************************************************************)
(* BashSessions.                                                           *)
(***************************************************************************)
\* The flags of a stop are set together, and the shell is there once the first call has
\* left its beginning.
StopInv ==
  /\ status \in {"running", "completed", "stopped", "failed"} /\ got \in Nat
  /\ termed \in BOOLEAN /\ stopRequested = termed
  /\ run = "mkdir" => shell = "none"
  /\ run = "grace" => termed

\* Output is closed for a session that is over, and is finalized at once unless there is a
\* file to close.
CloseInv ==
  /\ finished \in BOOLEAN /\ finalized \in BOOLEAN
  /\ finalized => finished
  /\ finished => status # "running"
  /\ finished => finalized \/ got > MaxKept

\* Only an answer for a session that is over flushes and closes.
CloserInv ==
  /\ asker \in [Later -> {"idle", "waiting", "telling", "flushing", "closing", "over"}]
  /\ \A k \in Teller : /\ At(k) \in {"flushing", "closing"} => status # "running"
                       /\ At(k) = "closing" => finished

\* Who was told that the command is over was told so after the output was finalized.
ToldInv ==
  /\ told \in [Teller -> {Unasked} \cup [status : {"running", "completed", "stopped", "failed"}, got : Nat]]
  /\ \A k \in Teller : told[k] # Unasked /\ told[k].status # "running" => finalized

SessionInv == StopInv /\ CloseInv /\ CloserInv /\ ToldInv /\ CommandsEndAsTold
-----------------------------------------------------------------------------
\* The invariant holds at first.
LEMMA SessionBegins ==
  ASSUME SessionInit
  PROVE  SessionInv
<1>1. CloserInv
  BY DEF SessionInit, CloserInv, At, Teller, Later
<1>2. QED
  BY <1>1 DEF SessionInit, SessionInv, StopInv, CloseInv, ToldInv, CommandsEndAsTold, StatusIsTrue,
         CutOffIsStopped, LastWordsAgree, OnlyTheCloseThrows, Teller

\* An answer is the status and the output so far.
LEMMA AnswerIsTold ==
  ASSUME SessionInv, NEW k \in Teller, Told(k), UNCHANGED <<status, pieces>>,
         status = "running" \/ finalized', finalized => finalized'
  PROVE  ToldInv' /\ LastWordsAgree'
<1> DEFINE answer == [status |-> status, got |-> got]
<1>0. got' = got /\ status' = status
  BY DEF pieces
<1>1. /\ told' = [told EXCEPT ![k] = answer]
      /\ answer \in [status : {"running", "completed", "stopped", "failed"}, got : Nat]
  BY DEF Told, SessionInv, StopInv
<1>2. /\ told' \in [Teller -> {Unasked} \cup [status : {"running", "completed", "stopped", "failed"}, got : Nat]]
      /\ told'[k] = answer /\ \A j \in Teller : j # k => told'[j] = told[j]
  BY <1>1 DEF SessionInv, ToldInv
<1>3. answer.status = status
  OBVIOUS
<1>4. ToldInv'
  BY <1>2, <1>3 DEF SessionInv, ToldInv, Teller
<1>5. LastWordsAgree'
  BY <1>0, <1>2, <1>3 DEF SessionInv, CommandsEndAsTold, LastWordsAgree, Teller
<1>6. QED
  BY <1>4, <1>5

\* One call moves, the others stay where they are.
LEMMA MoveOfACall ==
  ASSUME SessionInv, NEW k \in Teller, NEW where, Shifts(k, where),
         where \in {"idle", "waiting", "telling", "flushing", "closing", "over"},
         finished => finished', status' # "running" <=> status # "running",
         where \in {"flushing", "closing"} => status # "running",
         where = "closing" => finished'
  PROVE  CloserInv'
<1>1. asker' \in [Later -> {"idle", "waiting", "telling", "flushing", "closing", "over"}]
  BY DEF Shifts, Teller, SessionInv, CloserInv
<1>2. At(k)' = where
  BY DEF At, Shifts, Teller, SessionInv, CloserInv
<1>3. \A j \in Teller : j # k => At(j)' = At(j)
  BY DEF At, Shifts, Teller, SessionInv, CloserInv
<1>4. QED
  BY <1>1, <1>2, <1>3 DEF SessionInv, CloserInv

\* Every step of a call, of the shell and of the turn keeps it.
LEMMA SessionStep ==
  ASSUME SessionInv, [SessionNext]_sessionVars
  PROVE  SessionInv'
<1> USE DEF SessionInv, StopInv, CloseInv, CommandsEndAsTold, StatusIsTrue, CutOffIsStopped, OnlyTheCloseThrows
<1>1. CASE UNCHANGED sessionVars
  BY <1>1 DEF sessionVars, CloserInv, At, ToldInv, LastWordsAgree, Teller
<1>2. ASSUME UNCHANGED <<status, got, told, finalized>>
      PROVE  ToldInv' /\ LastWordsAgree'
  BY <1>2 DEF ToldInv, LastWordsAgree, Teller
<1>c. ASSUME asker' = asker, finished => finished', status # "running" => status' # "running",
             run' = run \/ run' \notin {"flushing", "closing"}
      PROVE  CloserInv'
  BY <1>c DEF CloserInv, At
<1>3. CASE Spawn
  <2>1. CloserInv'
    BY <1>3, <1>c DEF Spawn, output
  <2>2. QED
    BY <1>2, <1>3, <2>1 DEF Spawn, fixed, stopFlags, output, pieces
<1>4. CASE RunAborted \/ RunTimesOut \/ GraceIsOver \/ RunGoesOn
  <2>1. CloserInv'
    BY <1>4, <1>c DEF RunAborted, RunTimesOut, GraceIsOver, RunGoesOn, output
  <2>2. UNCHANGED <<status, got, told, finalized, finished, threw, shell>>
    BY <1>4 DEF RunAborted, RunTimesOut, GraceIsOver, RunGoesOn, output, pieces
  <2>3. termed' = stopRequested' /\ termed' \in BOOLEAN /\ (termed => termed') /\ run' # "mkdir"
    BY <1>4 DEF RunAborted, RunTimesOut, GraceIsOver, RunGoesOn, StopSession, stopFlags
  <2>4. (run' = "grace" => termed') /\ (ending' # ending => termed' \/ status # "running")
    BY <1>4 DEF RunAborted, RunTimesOut, GraceIsOver, RunGoesOn, StopSession, stopFlags
  <2>5. QED
    BY <1>2, <2>1, <2>2, <2>3, <2>4
<1>5. ASSUME NEW k \in Asker, AskerGoesOn(k)
      PROVE  SessionInv'
  <2>1. CloserInv'
    BY <1>5, MoveOfACall DEF AskerGoesOn, output, Teller, Later
  <2>2. run' = run \/ run' = "telling"
    BY <1>5 DEF AskerGoesOn, Shifts
  <2>3. QED
    BY <1>2, <1>5, <2>1, <2>2 DEF AskerGoesOn, fixed, stopFlags, output, pieces
<1>6. ASSUME NEW k \in Teller, ~threw, Tell(k) \/ Flush(k) \/ Finish(k) \/ Finalize(k)
      PROVE  SessionInv'
  <2>1. CASE Flush(k)
    <3>1. CloserInv'
      BY <2>1, MoveOfACall DEF Flush, output
    <3>2. run' = run \/ run' = "flushing"
      BY <2>1 DEF Flush, Shifts
    <3>3. QED
      BY <1>2, <2>1, <3>1, <3>2 DEF Flush, fixed, stopFlags, output, pieces
  <2>2. CASE Finish(k) /\ ~finished /\ got > MaxKept
    <3>1. /\ status # "running" /\ finished' /\ Shifts(k, "closing")
          /\ UNCHANGED <<status, got, told, finalized, threw, ending, shell, stopFlags>>
      BY <1>6, <2>2 DEF Finish, CloserInv, pieces
    <3>2. CloserInv'
      BY <3>1, MoveOfACall
    <3>3. run' = run \/ run' = "closing"
      BY <3>1 DEF Shifts
    <3>4. QED
      BY <1>2, <2>2, <3>1, <3>2, <3>3 DEF stopFlags
  <2>3. CASE Tell(k) \/ Finalize(k) \/ (Finish(k) /\ ~(~finished /\ got > MaxKept))
    <3>1. Told(k) /\ Shifts(k, "over") /\ UNCHANGED <<status, pieces, stopFlags, shell>>
      BY <2>3 DEF Tell, Finish, Finalize, output, Told
    <3>2. /\ (status = "running" \/ finalized') /\ (finalized => finalized')
          /\ finished' \in BOOLEAN /\ finalized' \in BOOLEAN /\ (finalized' => finished')
          /\ (finished => finished') /\ (finished' => status # "running") /\ threw' = threw
          /\ (finished' => finalized' \/ got > MaxKept) /\ (finalized' # finalized => ~threw)
      <4>1. CASE Tell(k)
        BY <4>1 DEF Tell, output
      <4>2. CASE Finalize(k)
        BY <1>6, <4>2 DEF Finalize, CloserInv
      <4>3. CASE Finish(k) /\ ~(~finished /\ got > MaxKept)
        BY <1>6, <4>3 DEF Finish, CloserInv
      <4>4. QED
        BY <2>3, <4>1, <4>2, <4>3
    <3>3. ToldInv' /\ LastWordsAgree'
      BY <3>1, <3>2, AnswerIsTold
    <3>4. ending' # ending => ending' \in {"yielded", "ended"}
      BY <3>1 DEF Told
    <3>5. run' = run \/ run' = "over"
      BY <3>1 DEF Shifts
    <3>6. CloserInv'
      BY <3>1, <3>2, MoveOfACall
    <3>7. got' = got
      BY <3>1 DEF pieces
    <3>8. QED
      BY <3>1, <3>2, <3>3, <3>4, <3>5, <3>6, <3>7 DEF stopFlags
  <2>4. QED
    BY <1>6, <2>1, <2>2, <2>3
<1>7. ASSUME NEW k \in Asker, NEW action \in {"poll", "write", "stop"}, Ask(k, action)
      PROVE  SessionInv'
  <2>1. UNCHANGED <<status, got, told, finalized, finished, threw, shell, ending>>
    BY <1>7 DEF Ask, output, pieces
  <2>2. PICK where \in {"over", "telling", "waiting"} : Shifts(k, where)
    BY <1>7 DEF Ask
  <2>3. \/ termed' /\ stopRequested'
        \/ UNCHANGED stopFlags
    BY <1>7 DEF Ask, StopSession
  <2>4. CloserInv'
    BY <2>1, <2>2, MoveOfACall DEF Teller, Later
  <2>5. run' = run \/ run' \in {"over", "telling", "waiting"}
    BY <2>2 DEF Shifts
  <2>6. QED
    BY <1>2, <2>1, <2>3, <2>4, <2>5 DEF stopFlags
<1>8. CASE Writes \/ Dies \/ Forget
  <2>1. CloserInv'
    BY <1>8, <1>c DEF Writes, Dies, Forget, output
  <2>2. QED
    BY <1>2, <1>8, <2>1 DEF Writes, Dies, Forget, fixed, stopFlags, output, pieces
<1>9. CASE TurnAborts
  <2>1. CloserInv'
    BY <1>9, <1>c DEF TurnAborts, output
  <2>2. QED
    BY <1>2, <1>9, <2>1 DEF TurnAborts, StopSession, fixed, stopFlags, output, pieces
<1>10. CASE Update
  <2>1. CloserInv'
    BY <1>10, MoveOfACall DEF Update, Teller, Later
  <2>2. run' = run \/ run' = "telling"
    BY <1>10 DEF Update, Shifts
  <2>3. QED
    BY <1>2, <1>10, <2>1, <2>2 DEF Update, fixed, stopFlags
<1>11. CASE ~threw /\ Data
  <2>1. /\ UNCHANGED <<status, told, finalized, finished, run, asker, shell, ending, stopFlags>>
        /\ got' \in Nat /\ got' >= got
    BY <1>11 DEF Data
  <2>2. finished => got' = got
    BY <1>11 DEF Data, TakesOutput
  <2>3. threw' => finished /\ ~finalized
    BY <1>11 DEF Data, TakesOutput
  <2>4. ToldInv' /\ LastWordsAgree'
    BY <2>1, <2>2 DEF ToldInv, LastWordsAgree, Teller
  <2>5. CloserInv'
    BY <2>1, <1>c
  <2>6. QED
    BY <2>1, <2>2, <2>3, <2>4, <2>5 DEF stopFlags
<1>12. CASE ~threw /\ (Exit \/ SpawnError)
  <2>1. PICK how \in {"stopped", "completed", "failed"} : Settles(how) /\ (how = "stopped" => stopRequested)
    BY <1>12 DEF Exit, SpawnError
  <2>2. /\ UNCHANGED <<got, told, finalized, finished, threw, run, asker, ending, stopFlags>>
        /\ shell' = "reaped"
    BY <2>1 DEF Settles, output, pieces
  <2>3. status' = IF status = "running" THEN how ELSE status
    BY <2>1 DEF Settles
  <2>4. ToldInv' /\ LastWordsAgree'
    BY <2>2, <2>3 DEF ToldInv, LastWordsAgree, Teller
  <2>5. run # "mkdir"
    BY <1>12 DEF Exit, SpawnError
  <2>6. CloserInv'
    BY <2>2, <2>3, <1>c
  <2>7. QED
    BY <1>12, <2>1, <2>2, <2>3, <2>4, <2>5, <2>6 DEF stopFlags
<1>13. QED
  BY <1>1, <1>3, <1>4, <1>5, <1>6, <1>7, <1>8, <1>9, <1>10, <1>11, <1>12 DEF SessionNext, Works, Happens

\* A call is told that its command is over once no output is added any more, in the words
\* every other call gets; a status is the first that was settled, and one that was cut off is
\* a stop; and output ends the process only while the file of a long output is being closed:
\* for any callers, any limits of the output and any order of events.
THEOREM Commands == SessionSpec => []CommandsEndAsTold
<1>1. SessionInv => CommandsEndAsTold
  BY DEF SessionInv
<1>2. QED
  BY SessionBegins, SessionStep, <1>1, PTL DEF SessionSpec

(***************************************************************************)
(* HybridThreads.                                                          *)
(***************************************************************************)
Where == {"idle", "queued", "indexing", "unindexing", "listing", "listed", "done"}

StoreType ==
  /\ meta \in Nat /\ row \in Nat /\ versions \in Nat /\ faults \in 0 .. MaxFaults
  /\ hasIndex \in BOOLEAN /\ raced \in BOOLEAN
  /\ calls \in [Call -> [at : Where, v : Nat]] /\ appends \in Seq(Call)

Begun == {c \in Call : calls[c].at # "idle"}

\* Each upsert has a version of its own, and nothing holds one that was not begun.
VersionInv ==
  /\ meta <= versions /\ row <= versions /\ \A c \in Call : calls[c].v <= versions
  /\ versions <= Cardinality(Begun)

\* The appends wait in the order of their upserts, for a file that is older than all of them.
WaitInv ==
  /\ \A i \in DOMAIN appends : calls[appends[i]].at = "queued"
  /\ \A c \in Call : calls[c].at = "queued" => meta < calls[c].v /\ \E i \in DOMAIN appends : appends[i] = c
  /\ \A i, j \in DOMAIN appends : i < j => calls[appends[i]].v < calls[appends[j]].v

\* While calls come one at a time, the one at work knows how file and index differ.
CalmInv ==
  ~raced =>
    /\ \A c, d \in Busy : c = d
    /\ hasIndex =>
         /\ Busy = {} => row = meta
         /\ \A c \in Busy :
              /\ calls[c].at = "queued" => row = meta
              /\ calls[c].at = "indexing" => calls[c].v = meta
              /\ calls[c].at = "unindexing" => meta = 0
              /\ calls[c].at = "listing" => row = meta /\ calls[c].v = meta

ListInv ==
  \A c \in Call : calls[c].at = "listed" \/ (calls[c].at = "listing" /\ meta > 0) => c \in seen

HybridInv == StoreType /\ VersionInv /\ WaitInv /\ CalmInv /\ ListInv
-----------------------------------------------------------------------------
\* The invariant holds at first.
LEMMA HybridBegins ==
  ASSUME HybridInit
  PROVE  HybridInv
<1> USE HybridAssumption DEF HybridInit
<1>1. calls = [c \in Call |-> [at |-> "idle", v |-> 0]]
  OBVIOUS
<1>2. \A c \in Call : calls[c].at = "idle" /\ calls[c].v = 0
  BY <1>1
<1>3. StoreType
  <2>1. calls \in [Call -> [at : Where, v : Nat]]
    BY <1>1 DEF Where
  <2>2. meta \in Nat /\ row \in Nat /\ versions \in Nat /\ faults \in 0 .. MaxFaults
    OBVIOUS
  <2>3. hasIndex \in BOOLEAN /\ raced \in BOOLEAN
    BY Zenon
  <2>4. appends \in Seq(Call)
    OBVIOUS
  <2>5. QED
    BY <2>1, <2>2, <2>3, <2>4 DEF StoreType
<1>4. Begun = {} /\ Busy = {}
  BY <1>2 DEF Busy, Begun
<1>5. VersionInv
  <2>1. Cardinality(Begun) = 0
    BY <1>4, FS_EmptySet
  <2>2. QED
    BY <1>2, <2>1 DEF VersionInv
<1>6. WaitInv /\ ListInv /\ CalmInv
  BY <1>2, <1>4 DEF WaitInv, ListInv, CalmInv
<1>7. QED
  BY <1>3, <1>5, <1>6 DEF HybridInv

\* A call moves on.
LEMMA CallMoves ==
  ASSUME HybridInv, NEW c \in Call, NEW at \in Where, NEW v \in Nat, Move(c, at, v), at # "idle"
  PROVE  /\ calls' \in [Call -> [at : Where, v : Nat]]
         /\ calls'[c].at = at /\ calls'[c].v = v
         /\ \A d \in Call : d # c => calls'[d] = calls[d]
         /\ Cardinality(Begun') = IF c \in Begun THEN Cardinality(Begun) ELSE Cardinality(Begun) + 1
         /\ Cardinality(Begun) \in Nat
         /\ Busy' = IF at \in {"done", "listed"} THEN Busy \ {c} ELSE Busy \cup {c}
<1>1. calls' = [calls EXCEPT ![c] = [at |-> at, v |-> v]] /\ calls \in [Call -> [at : Where, v : Nat]]
  BY DEF Move, HybridInv, StoreType
<1>2. /\ calls' \in [Call -> [at : Where, v : Nat]] /\ calls'[c] = [at |-> at, v |-> v]
      /\ \A d \in Call : d # c => calls'[d] = calls[d]
  BY <1>1
<1>3. calls'[c].at = at /\ calls'[c].v = v
  BY <1>2
<1>4. Begun' = Begun \cup {c}
  BY <1>2, <1>3 DEF Begun
<1>5. IsFiniteSet(Begun)
  BY HybridAssumption, FS_Subset DEF Begun
<1>6. /\ Cardinality(Begun) \in Nat
      /\ Cardinality(Begun') = IF c \in Begun THEN Cardinality(Begun) ELSE Cardinality(Begun) + 1
  BY <1>4, <1>5, FS_CardinalityType, FS_AddElement
<1>7. Busy' = IF at \in {"done", "listed"} THEN Busy \ {c} ELSE Busy \cup {c}
  BY <1>2, <1>3 DEF Busy
<1>8. QED
  BY <1>2, <1>3, <1>6, <1>7

\* An upsert takes the next version and waits behind the others.
LEMMA UpsertKeeps ==
  ASSUME HybridInv, NEW c \in Call, UpsertThread(c)
  PROVE  HybridInv'
<1> USE DEF HybridInv, StoreType
<1>1. /\ calls[c].at = "idle" /\ Move(c, "queued", versions + 1) /\ raced' = (raced \/ Busy # {})
      /\ versions' = versions + 1 /\ appends' = Append(appends, c)
      /\ UNCHANGED <<meta, row, hasIndex, faults, seen>>
  BY DEF UpsertThread, Enter
<1>2. /\ calls' \in [Call -> [at : Where, v : Nat]]
      /\ calls'[c].at = "queued" /\ calls'[c].v = versions + 1
      /\ \A d \in Call : d # c => calls'[d] = calls[d]
      /\ Cardinality(Begun') = Cardinality(Begun) + 1 /\ Cardinality(Begun) \in Nat
      /\ Busy' = Busy \cup {c}
  <2>1. "queued" \in Where /\ versions + 1 \in Nat /\ c \notin Begun
    BY <1>1 DEF Where, Begun
  <2>2. QED
    BY <1>1, <2>1, CallMoves
<1>3. PICK n \in Nat : n = Len(appends) /\ DOMAIN appends = 1 .. n
  BY LenProperties
<1>4. /\ appends' \in Seq(Call) /\ DOMAIN appends' = 1 .. n + 1 /\ appends'[n + 1] = c
      /\ \A i \in 1 .. n : appends'[i] = appends[i] /\ appends[i] \in Call /\ appends[i] # c
  <2>1. appends' \in Seq(Call) /\ DOMAIN appends' = 1 .. n + 1 /\ appends'[n + 1] = c
        /\ \A i \in 1 .. n : appends'[i] = appends[i] /\ appends[i] \in Call
    BY <1>1, <1>3
  <2>2. \A i \in 1 .. n : appends[i] # c
    BY <1>1, <1>3 DEF WaitInv
  <2>3. QED
    BY <2>1, <2>2
<1>5. StoreType'
  BY <1>1, <1>2, <1>4
<1>6. VersionInv'
  <2>1. \A d \in Call : calls'[d].v <= versions + 1
    BY SMTT(60), <1>2 DEF VersionInv
  <2>2. QED
    BY <1>1, <1>2, <2>1 DEF VersionInv
<1>7. WaitInv'
  <2>1. \A i \in DOMAIN appends' : calls'[appends'[i]].at = "queued"
    <3>1. \A i \in 1 .. n : calls[appends[i]].at = "queued" /\ appends[i] \in Call /\ appends[i] # c
      BY <1>3, <1>4 DEF WaitInv
    <3>2. \A i \in 1 .. n : calls'[appends'[i]].at = "queued"
      BY <1>2, <1>4, <3>1
    <3>3. calls'[appends'[n + 1]].at = "queued"
      BY <1>2, <1>4
    <3>4. \A i \in 1 .. n + 1 : i \in 1 .. n \/ i = n + 1
      OBVIOUS
    <3>5. QED
      BY <1>4, <3>2, <3>3, <3>4
  <2>2. \A d \in Call : calls'[d].at = "queued" =>
          meta' < calls'[d].v /\ \E i \in DOMAIN appends' : appends'[i] = d
    <3>1. SUFFICES ASSUME NEW d \in Call, calls'[d].at = "queued"
                   PROVE  meta' < calls'[d].v /\ \E i \in DOMAIN appends' : appends'[i] = d
      OBVIOUS
    <3>2. CASE d = c
      <4>1. meta' < calls'[d].v
        BY <1>1, <1>2, <3>2 DEF VersionInv
      <4>2. n + 1 \in DOMAIN appends' /\ appends'[n + 1] = d
        BY <1>4, <3>2
      <4>3. QED
        BY <4>1, <4>2
    <3>3. CASE d # c
      <4>1. calls[d].at = "queued" /\ calls'[d].v = calls[d].v
        BY <1>2, <3>1, <3>3
      <4>2. PICK i \in 1 .. n : appends[i] = d
        BY <1>3, <4>1 DEF WaitInv
      <4>3. i \in DOMAIN appends' /\ appends'[i] = d
        BY <1>4, <4>2
      <4>4. meta' < calls'[d].v
        BY <1>1, <4>1 DEF WaitInv
      <4>5. QED
        BY <4>3, <4>4
    <3>4. QED
      BY <3>2, <3>3
  <2>3. \A i, j \in DOMAIN appends' : i < j => calls'[appends'[i]].v < calls'[appends'[j]].v
    <3>1. SUFFICES ASSUME NEW i \in 1 .. n + 1, NEW j \in 1 .. n + 1, i < j
                   PROVE  calls'[appends'[i]].v < calls'[appends'[j]].v
      BY <1>4
    <3>2. i \in 1 .. n /\ calls'[appends'[i]].v = calls[appends[i]].v /\ appends[i] \in Call
      <4>1. i \in 1 .. n
        BY <3>1
      <4>2. QED
        BY <1>2, <1>4, <4>1
    <3>3. CASE j = n + 1
      BY <1>2, <1>4, <3>2, <3>3 DEF VersionInv
    <3>4. CASE j \in 1 .. n
      <4>1. calls'[appends'[j]].v = calls[appends[j]].v
        BY <1>2, <1>4, <3>4
      <4>2. calls[appends[i]].v < calls[appends[j]].v
        BY <1>3, <3>1, <3>2, <3>4 DEF WaitInv
      <4>3. QED
        BY <3>2, <4>1, <4>2
    <3>5. QED
      BY <3>3, <3>4
  <2>4. QED
    BY <2>1, <2>2, <2>3 DEF WaitInv
<1>8. CalmInv'
  BY <1>1, <1>2 DEF CalmInv
<1>9. ListInv'
  BY <1>1, <1>2 DEF ListInv
<1>10. QED
  BY <1>5, <1>6, <1>7, <1>8, <1>9

\* The first in the queue writes the file: its version is above the one there.
LEMMA AppendKeeps ==
  ASSUME HybridInv, NEW c \in Call, AppendMetadata(c)
  PROVE  HybridInv' /\ meta' >= meta
<1> USE DEF HybridInv, StoreType
<1>1. /\ calls[c].at = "queued" /\ Head(appends) = c /\ appends' = Tail(appends)
      /\ meta' = calls[c].v /\ Move(c, "indexing", calls[c].v)
      /\ seen' = seen \cup {d \in Busy : calls[d].at = "listing"}
      /\ UNCHANGED <<row, hasIndex, versions, faults, raced>>
  BY DEF AppendMetadata, IsFirst
<1>2. /\ calls' \in [Call -> [at : Where, v : Nat]] /\ calls[c].v \in Nat
      /\ calls'[c].at = "indexing" /\ calls'[c].v = calls[c].v
      /\ \A d \in Call : d # c => calls'[d] = calls[d]
      /\ Cardinality(Begun') = Cardinality(Begun) /\ Busy' = Busy /\ c \in Busy
  <2>1. calls[c].v \in Nat /\ c \in Begun /\ c \in Busy /\ "indexing" \in Where
    BY <1>1 DEF Busy, Begun, Where
  <2>2. /\ calls' \in [Call -> [at : Where, v : Nat]]
        /\ calls'[c].at = "indexing" /\ calls'[c].v = calls[c].v
        /\ \A d \in Call : d # c => calls'[d] = calls[d]
        /\ Cardinality(Begun') = Cardinality(Begun)
        /\ Busy' = Busy \cup {c}
    BY <1>1, <2>1, CallMoves
  <2>3. Busy' = Busy
    BY <2>1, <2>2
  <2>4. QED
    BY <2>1, <2>2, <2>3
<1>3. PICK n \in Nat : n = Len(appends) /\ DOMAIN appends = 1 .. n
  BY LenProperties
<1>4. n # 0 /\ appends[1] = c
  <2>1. n # 0
    BY <1>1, <1>3 DEF WaitInv
  <2>2. QED
    BY <1>1, <1>3, <2>1
<1>5. /\ appends' \in Seq(Call) /\ DOMAIN appends' = 1 .. n - 1
      /\ \A i \in 1 .. n - 1 : appends'[i] = appends[i + 1] /\ i + 1 \in 1 .. n /\ appends[i + 1] \in Call
  <2>1. appends # <<>>
    BY <1>3, <1>4
  <2>2. appends' \in Seq(Call) /\ Len(appends') = n - 1 /\ \A i \in 1 .. n - 1 : appends'[i] = appends[i + 1]
    BY <1>1, <1>3, <2>1
  <2>3. \A i \in 1 .. n - 1 : i + 1 \in 1 .. n
    BY <1>3
  <2>4. \A i \in 1 .. n : appends[i] \in Call
    BY <1>3
  <2>5. DOMAIN appends' = 1 .. n - 1
    BY <2>2, LenProperties
  <2>6. QED
    BY <2>2, <2>3, <2>4, <2>5
<1>6. \A i \in 2 .. n : calls[c].v < calls[appends[i]].v /\ appends[i] # c
  <2>1. \A i \in 2 .. n : 1 \in 1 .. n /\ i \in 1 .. n /\ 1 < i /\ appends[i] \in Call
    BY <1>3
  <2>2. \A i \in 2 .. n : calls[c].v < calls[appends[i]].v
    BY <1>3, <1>4, <2>1 DEF WaitInv
  <2>3. QED
    BY <1>2, <2>2
<1>7. StoreType'
  BY <1>1, <1>2, <1>5
<1>8. VersionInv'
  BY <1>1, <1>2 DEF VersionInv
<1>9. WaitInv'
  <2>1. \A i \in DOMAIN appends' : calls'[appends'[i]].at = "queued"
    <3>1. \A i \in 1 .. n - 1 : i + 1 \in 2 .. n
      OBVIOUS
    <3>2. \A k \in 2 .. n : k \in 1 .. n
      OBVIOUS
    <3>3. \A k \in 1 .. n : calls[appends[k]].at = "queued" /\ appends[k] \in Call
      <4>1. \A k \in 1 .. n : appends[k] \in Call
        BY <1>3
      <4>2. \A k \in 1 .. n : calls[appends[k]].at = "queued"
        BY <1>3 DEF WaitInv
      <4>3. QED
        BY <4>1, <4>2
    <3>4. \A k \in 2 .. n : calls'[appends[k]].at = "queued"
      BY <1>2, <1>6, <3>2, <3>3
    <3>5. \A i \in 1 .. n - 1 : calls'[appends'[i]].at = "queued"
      <4>1. SUFFICES ASSUME NEW i \in 1 .. n - 1
                     PROVE  calls'[appends'[i]].at = "queued"
        OBVIOUS
      <4>2. i + 1 \in 2 .. n /\ appends'[i] = appends[i + 1]
        BY <1>5, <3>1
      <4>3. QED
        BY <3>4, <4>2
    <3>6. QED
      BY <1>5, <3>5
  <2>2. \A d \in Call : calls'[d].at = "queued" =>
          meta' < calls'[d].v /\ \E i \in DOMAIN appends' : appends'[i] = d
    <3>1. SUFFICES ASSUME NEW d \in Call, calls'[d].at = "queued"
                   PROVE  meta' < calls'[d].v /\ \E i \in DOMAIN appends' : appends'[i] = d
      OBVIOUS
    <3>2. d # c /\ calls[d].at = "queued" /\ calls'[d] = calls[d]
      BY <1>2, <3>1
    <3>3. PICK i \in 1 .. n : appends[i] = d
      BY <1>3, <3>2 DEF WaitInv
    <3>4. i \in 2 .. n
      BY <1>4, <3>2, <3>3
    <3>5. i - 1 \in 1 .. n - 1 /\ (i - 1) + 1 = i
      BY <3>4
    <3>6. QED
      BY <1>1, <1>5, <1>6, <3>2, <3>3, <3>4, <3>5
  <2>3. \A i, j \in DOMAIN appends' : i < j => calls'[appends'[i]].v < calls'[appends'[j]].v
    <3>1. SUFFICES ASSUME NEW i \in 1 .. n - 1, NEW j \in 1 .. n - 1, i < j
                   PROVE  calls'[appends'[i]].v < calls'[appends'[j]].v
      BY <1>5
    <3>2. i + 1 \in 2 .. n /\ j + 1 \in 2 .. n /\ i + 1 \in 1 .. n /\ j + 1 \in 1 .. n /\ i + 1 < j + 1
      BY <3>1
    <3>3. calls[appends[i + 1]].v < calls[appends[j + 1]].v
      BY <1>3, <3>2 DEF WaitInv
    <3>4. QED
      BY <1>2, <1>5, <1>6, <3>2, <3>3
  <2>4. QED
    BY <2>1, <2>2, <2>3 DEF WaitInv
<1>10. CalmInv'
  BY <1>1, <1>2 DEF CalmInv
<1>11. ListInv'
  <2>1. \A d \in Call : calls[d].at = "listing" => d \in seen'
    BY <1>1 DEF Busy
  <2>2. QED
    BY <1>1, <1>2, <2>1 DEF ListInv
<1>12. meta' >= meta
  BY <1>1, <1>2 DEF WaitInv
<1>13. QED
  BY <1>7, <1>8, <1>9, <1>10, <1>11, <1>12

\* The rest of the calls: a call moves on while file and queue stay.
LEMMA CallKeeps ==
  ASSUME HybridInv, NEW c \in Call, NEW at \in Where \ {"idle", "queued"}, NEW v \in Nat, Move(c, at, v),
         calls[c].at # "queued", v <= versions, UNCHANGED <<versions, appends>>,
         faults' \in 0 .. MaxFaults, hasIndex' \in BOOLEAN, raced' \in BOOLEAN,
         meta' \in {0, meta}, row' \in {0, row, calls[c].v}
  PROVE  StoreType' /\ VersionInv' /\ WaitInv'
<1> USE DEF HybridInv, StoreType
<1>1. at \in Where /\ at # "idle" /\ at # "queued"
  OBVIOUS
<1>2. /\ calls' \in [Call -> [at : Where, v : Nat]]
      /\ calls'[c].at = at /\ calls'[c].v = v
      /\ \A d \in Call : d # c => calls'[d] = calls[d]
      /\ Cardinality(Begun') >= Cardinality(Begun) /\ Cardinality(Begun) \in Nat /\ Cardinality(Begun') \in Nat
  BY <1>1, CallMoves
<1>3. StoreType'
  <2>1. meta' \in Nat /\ row' \in Nat
    OBVIOUS
  <2>2. QED
    BY <1>2, <2>1
<1>4. VersionInv'
  <2>1. \A d \in Call : calls'[d].v <= versions
    BY <1>2 DEF VersionInv
  <2>2. meta' <= versions /\ row' <= versions
    BY DEF VersionInv
  <2>3. QED
    BY <1>2, <2>1, <2>2 DEF VersionInv
<1>5. WaitInv'
  <2>1. \A i \in DOMAIN appends : appends[i] \in Call /\ appends[i] # c /\ calls'[appends[i]] = calls[appends[i]]
    BY <1>2 DEF WaitInv
  <2>2. \A d \in Call : calls'[d].at = "queued" => calls[d].at = "queued" /\ calls'[d].v = calls[d].v
    BY <1>1, <1>2
  <2>3. \A d \in Call : calls[d].at = "queued" /\ meta < calls[d].v => meta' < calls[d].v
    OBVIOUS
  <2>4. QED
    BY <2>1, <2>2, <2>3 DEF WaitInv
<1>6. QED
  BY <1>3, <1>4, <1>5

\* Every other step of a call.
LEMMA RestKeeps ==
  ASSUME HybridInv, NEW c \in Call,
         Index(c) \/ Get(c) \/ Delete(c) \/ DeleteIndexRow(c) \/ List(c) \/ ListChecks(c)
  PROVE  HybridInv' /\ meta' \in {0, meta}
<1> USE DEF HybridInv, StoreType
<1>1. CASE Index(c)
  <2>1. /\ calls[c].at = "indexing" /\ Move(c, "done", 0) /\ UNCHANGED <<meta, hasIndex, appends, versions, seen>>
        /\ \/ row' = (IF hasIndex THEN calls[c].v ELSE row) /\ raced' = raced
           \/ raced' = TRUE /\ row' = row
        /\ faults' \in 0 .. MaxFaults
    BY <1>1, HybridAssumption DEF Index
  <2>a. /\ row' \in {0, row, calls[c].v} /\ meta' \in {0, meta} /\ calls[c].at # "queued" /\ 0 <= versions
        /\ "done" \in Where \ {"idle", "queued"}
    BY <2>1 DEF Where
  <2>b. hasIndex' \in BOOLEAN /\ raced' \in BOOLEAN
    BY <2>1, Zenon
  <2>2. StoreType' /\ VersionInv' /\ WaitInv'
    BY <2>1, <2>a, <2>b, CallKeeps
  <2>3. Busy' = Busy \ {c} /\ c \in Busy /\ calls'[c].at = "done" /\ \A d \in Call : d # c => calls'[d] = calls[d]
    BY <2>1, CallMoves DEF Where, Busy
  <2>4. CalmInv'
    BY <2>1, <2>3 DEF CalmInv
  <2>5. ListInv'
    BY <2>1, <2>3 DEF ListInv
  <2>6. QED
    BY <2>1, <2>2, <2>4, <2>5
<1>2. CASE Get(c)
  <2>1. /\ calls[c].at = "idle" /\ Move(c, IF meta > 0 THEN "indexing" ELSE "done", meta)
        /\ raced' = (raced \/ Busy # {}) /\ row' = IF meta = 0 /\ hasIndex THEN 0 ELSE row
        /\ UNCHANGED <<meta, hasIndex, appends, versions, faults, seen>>
    BY <1>2 DEF Get, Enter
  <2>2. PICK at \in {"indexing", "done"} : at = IF meta > 0 THEN "indexing" ELSE "done"
    OBVIOUS
  <2>3. Move(c, at, meta) /\ at \in Where \ {"idle", "queued"}
    BY <2>1, <2>2 DEF Where
  <2>4. StoreType' /\ VersionInv' /\ WaitInv'
    BY <2>1, <2>3, CallKeeps DEF VersionInv
  <2>5. /\ Busy' = IF at = "done" THEN Busy \ {c} ELSE Busy \cup {c}
        /\ calls'[c].at = at /\ calls'[c].v = meta /\ \A d \in Call : d # c => calls'[d] = calls[d]
    BY <2>2, <2>3, CallMoves DEF Where
  <2>6. CalmInv'
    BY <2>1, <2>2, <2>5 DEF CalmInv, Busy
  <2>7. ListInv'
    BY <2>1, <2>2, <2>5 DEF ListInv
  <2>8. QED
    BY <2>1, <2>4, <2>6, <2>7
<1>3. CASE Delete(c)
  <2>1. /\ calls[c].at = "idle" /\ Move(c, "unindexing", 0) /\ raced' = (raced \/ Busy # {}) /\ meta' = 0
        /\ UNCHANGED <<row, hasIndex, appends, versions, faults, seen>>
    BY <1>3 DEF Delete, Enter
  <2>2. StoreType' /\ VersionInv' /\ WaitInv'
    BY <2>1, CallKeeps DEF Where
  <2>3. /\ Busy' = Busy \cup {c} /\ calls'[c].at = "unindexing"
        /\ \A d \in Call : d # c => calls'[d] = calls[d]
    BY <2>1, CallMoves DEF Where
  <2>4. CalmInv'
    BY <2>1, <2>3 DEF CalmInv
  <2>5. ListInv'
    BY <2>1, <2>3 DEF ListInv
  <2>6. QED
    BY <2>1, <2>2, <2>4, <2>5
<1>4. CASE DeleteIndexRow(c)
  <2>1. /\ calls[c].at = "unindexing" /\ Move(c, "done", 0) /\ row' = IF hasIndex THEN 0 ELSE row
        /\ UNCHANGED <<meta, hasIndex, appends, versions, faults, raced, seen>>
    BY <1>4 DEF DeleteIndexRow
  <2>2. StoreType' /\ VersionInv' /\ WaitInv'
    BY <2>1, CallKeeps DEF Where
  <2>3. Busy' = Busy \ {c} /\ c \in Busy /\ calls'[c].at = "done" /\ \A d \in Call : d # c => calls'[d] = calls[d]
    BY <2>1, CallMoves DEF Where, Busy
  <2>4. CalmInv'
    BY <2>1, <2>3 DEF CalmInv
  <2>5. ListInv'
    BY <2>1, <2>3 DEF ListInv
  <2>6. QED
    BY <2>1, <2>2, <2>4, <2>5
<1>5. CASE List(c)
  <2>1. PICK v \in Nat : v = IF hasIndex THEN row ELSE meta
    OBVIOUS
  <2>2. /\ calls[c].at = "idle" /\ Move(c, "listing", v) /\ raced' = (raced \/ Busy # {})
        /\ seen' = (IF meta > 0 THEN seen \cup {c} ELSE seen)
        /\ UNCHANGED <<meta, row, hasIndex, appends, versions, faults>>
    BY <1>5, <2>1 DEF List, Enter
  <2>3. v <= versions
    BY <2>1 DEF VersionInv
  <2>4. StoreType' /\ VersionInv' /\ WaitInv'
    BY <2>2, <2>3, CallKeeps DEF Where
  <2>5. /\ Busy' = Busy \cup {c} /\ calls'[c].at = "listing" /\ calls'[c].v = v
        /\ \A d \in Call : d # c => calls'[d] = calls[d]
    BY <2>2, CallMoves DEF Where
  <2>6. CalmInv'
    BY <2>1, <2>2, <2>5 DEF CalmInv
  <2>7. ListInv'
    BY <2>2, <2>5 DEF ListInv
  <2>8. QED
    BY <2>2, <2>4, <2>6, <2>7
<1>6. CASE ListChecks(c)
  <2>1. PICK at \in {"listed", "done"} : at = IF IsListed(c) THEN "listed" ELSE "done"
    OBVIOUS
  <2>2. /\ calls[c].at = "listing" /\ Move(c, at, 0)
        /\ row' = IF hasIndex /\ calls[c].v > 0 /\ ~IsListed(c) THEN 0 ELSE row
        /\ UNCHANGED <<meta, hasIndex, appends, versions, faults, raced, seen>>
    BY <1>6, <2>1 DEF ListChecks
  <2>3. StoreType' /\ VersionInv' /\ WaitInv'
    BY <2>2, CallKeeps DEF Where
  <2>4. /\ Busy' = Busy \ {c} /\ c \in Busy /\ calls'[c].at = at
        /\ \A d \in Call : d # c => calls'[d] = calls[d]
    BY <2>2, CallMoves DEF Where, Busy
  <2>5. CalmInv'
    BY <2>2, <2>4 DEF CalmInv, IsListed
  <2>6. ListInv'
    BY <2>1, <2>2, <2>4 DEF ListInv, IsListed
  <2>7. QED
    BY <2>2, <2>3, <2>5, <2>6
<1>7. QED
  BY <1>1, <1>2, <1>3, <1>4, <1>5, <1>6

\* A start ends all the calls, and indexes the thread again or goes without the index.
LEMMA StartKeeps ==
  ASSUME HybridInv, StartAgain
  PROVE  HybridInv' /\ meta' = meta
<1> USE DEF HybridInv, StoreType
<1>1. /\ faults' \in 0 .. MaxFaults /\ appends' = <<>> /\ raced' = FALSE
      /\ calls' = [c \in Call |-> IF c \in Busy THEN [at |-> "done", v |-> 0] ELSE calls[c]]
      /\ \/ hasIndex' = TRUE /\ row' = meta
         \/ hasIndex' = FALSE /\ row' = row
      /\ UNCHANGED <<meta, versions, seen>>
  BY HybridAssumption DEF StartAgain, Backfilled
<1>2. \A c \in Call :
        /\ calls'[c] \in [at : Where, v : Nat] /\ calls'[c].v \in {0, calls[c].v}
        /\ calls'[c].at = IF c \in Busy THEN "done" ELSE calls[c].at
        /\ calls'[c].at \in {"idle", "done", "listed"}
        /\ calls'[c].at # "idle" <=> calls[c].at # "idle"
  BY <1>1 DEF Where, Busy
<1>3. Busy' = {} /\ Begun' = Begun
  BY <1>2 DEF Busy, Begun
<1>4. StoreType'
  <2>1. calls' \in [Call -> [at : Where, v : Nat]]
    BY <1>1, <1>2
  <2>2. appends' \in Seq(Call) /\ row' \in Nat
    BY <1>1
  <2>3. hasIndex' \in BOOLEAN /\ raced' \in BOOLEAN
    BY <1>1, Zenon
  <2>4. QED
    BY <1>1, <2>1, <2>2, <2>3
<1>5. VersionInv'
  BY <1>1, <1>2, <1>3 DEF VersionInv
<1>6. WaitInv' /\ CalmInv'
  BY SMTT(60), <1>1, <1>2, <1>3 DEF WaitInv, CalmInv
<1>7. ListInv'
  BY <1>1, <1>2 DEF ListInv, Busy
<1>8. QED
  BY <1>1, <1>4, <1>5, <1>6, <1>7

\* Every step.
LEMMA HybridStep ==
  ASSUME HybridInv, [HybridNext]_hybridVars
  PROVE  HybridInv' /\ (meta > 0 /\ meta' > 0 => meta' >= meta)
<1>1. meta \in Nat
  BY DEF HybridInv, StoreType
<1>2. CASE UNCHANGED hybridVars
  BY <1>1, <1>2 DEF hybridVars, HybridInv, StoreType, VersionInv, WaitInv, CalmInv, ListInv, Busy, Begun
<1>3. ASSUME NEW c \in Call, UpsertThread(c)
      PROVE  HybridInv' /\ meta' = meta
  BY <1>3, UpsertKeeps DEF UpsertThread
<1>4. QED
  BY <1>1, <1>2, <1>3, AppendKeeps, RestKeeps, StartKeeps DEF HybridNext

\* While calls come one at a time and no index write fails, the index has the version of
\* the file; what a list shows was on disk; the file never goes back to an older version:
\* for any calls, any faults and any starts.
THEOREM Listing == HybridSpec => ThreadIsListedAsStored
<1>1. HybridInv => ThreadTypeOK /\ IndexFollowsFile /\ ListedWasThere
  <2>1. SUFFICES ASSUME HybridInv PROVE ThreadTypeOK /\ IndexFollowsFile /\ ListedWasThere
    OBVIOUS
  <2>2. ThreadTypeOK
    <3>1. Cardinality(Begun) <= Cardinality(Call) /\ Cardinality(Begun) \in Nat /\ Cardinality(Call) \in Nat
      BY HybridAssumption, FS_Subset, FS_CardinalityType DEF Begun
    <3>2. QED
      BY <2>1, <3>1 DEF HybridInv, StoreType, VersionInv, ThreadTypeOK
  <2>3. IndexFollowsFile
    BY <2>1 DEF HybridInv, CalmInv, IndexFollowsFile
  <2>4. ListedWasThere
    BY <2>1 DEF HybridInv, ListInv, ListedWasThere
  <2>5. QED
    BY <2>2, <2>3, <2>4
<1>2. HybridInv /\ [HybridNext]_hybridVars => HybridInv' /\ [meta > 0 /\ meta' > 0 => meta' >= meta]_hybridVars
  BY HybridStep
<1>3. QED
  BY HybridBegins, <1>1, <1>2, PTL DEF HybridSpec, ThreadIsListedAsStored, MetadataMovesOn
=============================================================================
