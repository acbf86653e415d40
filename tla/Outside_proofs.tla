--------------------------- MODULE Outside_proofs ---------------------------
(***************************************************************************)
(* Proofs about what a process has in common with others: the lock of      *)
(* FileLock, for any clients, processes and number of crashes; the servers *)
(* of McpConnections, for any calls and refreshes, any number of faults    *)
(* and any catalogs; and the answer of ModelStream, for any tool calls and *)
(* any pieces of them.                                                     *)
(***************************************************************************)
EXTENDS FileLock, McpConnections, ModelStream, FiniteSetTheorems, SequenceTheorems, TLAPS

-----------------------------------------------------------------------------
(***************************************************************************)
(* The inductive invariant.                                                *)
(***************************************************************************)
\* The process that made a call has died since.
MakerIsDead(call) ==
  \/ ProcessOf[call[1]] \notin up
  \/ incarnation[ProcessOf[call[1]]] > call[2]

Working(c) == pc[c] \in {"made", "critical"}

\* Only a running process is somewhere in withFileLock.
UpInv ==
  \A c \in Client :
    pc[c] \in {"wait", "made", "critical", "reclaim"} => ProcessOf[c] \in up

\* No call, on disk or in a client's mind, is of a life that is still to come.
Known(call) == call[2] <= incarnation[ProcessOf[call[1]]]

MakerInv ==
  /\ dir # NoDir => Known(dir.maker)
  /\ \A c \in Client : Known(judged[c])

\* A working client has its own directory, with owner.json once it is critical.
WorkInv ==
  \A c \in Client :
    /\ Working(c) => dir # NoDir /\ dir.maker = CallOf(c) /\ ~dir.old
    /\ pc[c] # "cleanup"
    /\ pc[c] = "made" => dir.owner = NoOwner
    /\ pc[c] = "critical" => dir.owner = LifeOf(c)

\* A directory nobody works under was left by a crash, and owner.json, when there
\* is one, names the process that crashed.
LeftInv ==
  dir # NoDir =>
    /\ MakerIsDead(dir.maker) \/ Working(dir.maker[1])
    /\ dir.old => MakerIsDead(dir.maker)
    /\ dir.owner # NoOwner => dir.owner = <<ProcessOf[dir.maker[1]], dir.maker[2]>>

\* What was found to be stale stays stale.
JudgedInv == \A c \in Client : pc[c] = "reclaim" => MakerIsDead(judged[c])

IInv ==
  /\ TypeOK /\ UpInv /\ MakerInv
  /\ ~raced => WorkInv /\ LeftInv /\ JudgedInv
-----------------------------------------------------------------------------
LEMMA InitIInv == Init => IInv
<1> SUFFICES ASSUME Init PROVE IInv
  OBVIOUS
<1>1. TypeOK
  BY ProcessOfAssumption DEF Init, TypeOK, Call
<1>2. UpInv /\ MakerInv /\ WorkInv /\ LeftInv /\ JudgedInv
  BY ProcessOfAssumption
     DEF Init, UpInv, MakerInv, Known, WorkInv, LeftInv, JudgedInv, Working
<1>3. QED
  BY <1>1, <1>2 DEF IInv

\* The types of what a directory names.
LEMMA DirType ==
  ASSUME TypeOK, dir # NoDir
  PROVE  /\ dir \in LockDir
         /\ dir.maker \in Client \X Nat
         /\ dir.maker[1] \in Client /\ dir.maker[2] \in Nat
         /\ dir.maker = <<dir.maker[1], dir.maker[2]>>
         /\ ProcessOf[dir.maker[1]] \in Process
         /\ incarnation[ProcessOf[dir.maker[1]]] \in Nat
         /\ dir.old \in BOOLEAN
BY ProcessOfAssumption DEF TypeOK, LockDir, Call

\* A working client is alive, so its call is not over.
LEMMA WorkingIsNotOver ==
  ASSUME TypeOK, UpInv, NEW c \in Client, Working(c)
  PROVE  ~MakerIsDead(CallOf(c))
BY ProcessOfAssumption DEF TypeOK, UpInv, Working, MakerIsDead, CallOf

\* A stale directory was made by a call that is over: a pid that is not alive
\* belongs to no running process, whether pids are reused or not.
LEMMA ReclaimableIsOver ==
  ASSUME TypeOK, MakerInv, LeftInv, dir # NoDir, Reclaimable(dir)
  PROVE  MakerIsDead(dir.maker)
<1>1. CASE dir.owner = NoOwner
  BY <1>1 DEF Reclaimable, LeftInv
<1>2. CASE dir.owner # NoOwner
  <2>1. /\ dir.owner[1] = ProcessOf[dir.maker[1]]
        /\ dir.owner[2] = dir.maker[2]
    BY <1>2 DEF LeftInv
  <2>2. \/ ProcessOf[dir.maker[1]] \notin up
        \/ incarnation[ProcessOf[dir.maker[1]]] # dir.maker[2]
    BY <1>2, <2>1 DEF Reclaimable, IsAlive
  <2>3. QED
    BY <2>2, DirType DEF MakerInv, Known, MakerIsDead
<1>3. QED
  BY <1>1, <1>2

\* Two working clients would have made the same directory.
LEMMA WorkInvExclusive == WorkInv => MutualExclusion
BY DEF WorkInv, MutualExclusion, Working, CallOf

\* Every step keeps the types and keeps clients within running processes.
LEMMA StepType ==
  ASSUME TypeOK, UpInv, MakerInv, [Next]_vars
  PROVE  TypeOK' /\ UpInv' /\ MakerInv'
<1> USE ProcessOfAssumption, NoneAssumption
<1>1. ASSUME NEW c \in Client, Start(c) PROVE TypeOK' /\ UpInv' /\ MakerInv'
  BY <1>1 DEF Start, Goto, TypeOK, UpInv, MakerInv, Known
<1>2. ASSUME NEW c \in Client, MakeDir(c) PROVE TypeOK' /\ UpInv' /\ MakerInv'
  <2> DEFINE new == [maker |-> CallOf(c), owner |-> NoOwner, old |-> FALSE]
  <2>1. new \in LockDir
    BY DEF TypeOK, LockDir, Call, CallOf
  <2>2. TypeOK'
    BY <1>2, <2>1 DEF MakeDir, Goto, TypeOK
  <2>3. UpInv'
    BY <1>2 DEF MakeDir, Goto, TypeOK, UpInv
  <2>4. MakerInv'
    BY <1>2 DEF MakeDir, TypeOK, MakerInv, Known, CallOf
  <2>5. QED
    BY <2>2, <2>3, <2>4
<1>3. ASSUME NEW c \in Client, WriteOwner(c) PROVE TypeOK' /\ UpInv' /\ MakerInv'
  <2>1. LifeOf(c) \in Life
    BY DEF TypeOK, Life, LifeOf
  <2>2. dir' \in LockDir \cup {NoDir}
    BY <1>3, <2>1 DEF WriteOwner, TypeOK, LockDir
  <2>3. TypeOK'
    BY <1>3, <2>2 DEF WriteOwner, Goto, TypeOK
  <2>4. UpInv'
    BY <1>3 DEF WriteOwner, Goto, TypeOK, UpInv
  <2>5. MakerInv'
    BY <1>3 DEF WriteOwner, TypeOK, LockDir, MakerInv, Known
  <2>6. QED
    BY <2>3, <2>4, <2>5
<1>4. ASSUME NEW c \in Client, CleanUp(c) PROVE TypeOK' /\ UpInv' /\ MakerInv'
  BY <1>4 DEF CleanUp, Goto, TypeOK, UpInv, MakerInv, Known
<1>5. ASSUME NEW c \in Client, Exit(c) PROVE TypeOK' /\ UpInv' /\ MakerInv'
  BY <1>5 DEF Exit, Goto, TypeOK, UpInv, MakerInv, Known
<1>6. ASSUME NEW c \in Client, Judge(c) PROVE TypeOK' /\ UpInv' /\ MakerInv'
  <2>1. dir.maker \in Call
    BY <1>6 DEF Judge, TypeOK, LockDir
  <2>2. QED
    BY <1>6, <2>1 DEF Judge, Goto, TypeOK, UpInv, MakerInv, Known
<1>7. ASSUME NEW c \in Client, Reclaim(c) PROVE TypeOK' /\ UpInv' /\ MakerInv'
  BY <1>7 DEF Reclaim, Goto, TypeOK, UpInv, MakerInv, Known
<1>8. ASSUME NEW c \in Client, TimeOut(c) PROVE TypeOK' /\ UpInv' /\ MakerInv'
  BY <1>8 DEF TimeOut, Goto, TypeOK, UpInv, MakerInv, Known
<1>9. ASSUME Age PROVE TypeOK' /\ UpInv' /\ MakerInv'
  BY <1>9 DEF Age, TypeOK, LockDir, UpInv, MakerInv, Known
<1>10. ASSUME NEW p \in Process, Crash(p) PROVE TypeOK' /\ UpInv' /\ MakerInv'
  BY <1>10 DEF Crash, TypeOK, UpInv, MakerInv, Known
<1>11. ASSUME NEW p \in Process, Restart(p) PROVE TypeOK' /\ UpInv' /\ MakerInv'
  <2>1. TypeOK' /\ UpInv'
    BY <1>11 DEF Restart, TypeOK, UpInv
  <2>2. \A call \in Call : Known(call) => Known(call)'
    BY <1>11 DEF Restart, TypeOK, Call, Known
  <2>3. MakerInv'
    BY <1>11, <2>2, DirType DEF Restart, TypeOK, MakerInv, Call
  <2>4. QED
    BY <2>1, <2>3
<1>12. CASE UNCHANGED vars
  BY <1>12 DEF vars, TypeOK, UpInv, MakerInv, Known
<1>13. QED
  BY <1>1, <1>2, <1>3, <1>4, <1>5, <1>6, <1>7, <1>8, <1>9, <1>10, <1>11, <1>12 DEF Next, Step

\* As long as every reclaim has removed what it judged, working clients keep their
\* directories.
LEMMA StepUnraced ==
  ASSUME IInv, ~raced, [Next]_vars, ~raced'
  PROVE  WorkInv' /\ LeftInv' /\ JudgedInv'
<1> USE ProcessOfAssumption, NoneAssumption
<1> USE DEF IInv
<1>1. ASSUME NEW c \in Client, Start(c) PROVE WorkInv' /\ LeftInv' /\ JudgedInv'
  BY <1>1, DirType DEF Start, Goto, TypeOK, WorkInv, LeftInv, JudgedInv, Working, MakerIsDead,
     CallOf, LifeOf
<1>2. ASSUME NEW c \in Client, MakeDir(c) PROVE WorkInv' /\ LeftInv' /\ JudgedInv'
  <2>1. \A d \in Client : ~Working(d)
    BY <1>2 DEF MakeDir, WorkInv
  <2>2. /\ dir'.maker = CallOf(c) /\ dir'.owner = NoOwner /\ ~dir'.old
        /\ dir' # NoDir
    <3> DEFINE new == [maker |-> CallOf(c), owner |-> NoOwner, old |-> FALSE]
    <3>1. new \in LockDir
      BY DEF TypeOK, LockDir, Call, CallOf
    <3>2. dir' = new
      BY <1>2 DEF MakeDir
    <3>3. QED
      BY <3>1, <3>2
  <2>3. WorkInv'
    BY <1>2, <2>1, <2>2 DEF MakeDir, Goto, TypeOK, WorkInv, Working, CallOf
  <2>4. LeftInv'
    BY <1>2, <2>2 DEF MakeDir, Goto, TypeOK, LeftInv, Working, CallOf
  <2>5. JudgedInv'
    BY <1>2 DEF MakeDir, Goto, TypeOK, JudgedInv, MakerIsDead
  <2>6. QED
    BY <2>3, <2>4, <2>5
<1>3. ASSUME NEW c \in Client, WriteOwner(c) PROVE WorkInv' /\ LeftInv' /\ JudgedInv'
  <2>1. dir # NoDir /\ dir.maker = CallOf(c) /\ ~dir.old
    BY <1>3 DEF WriteOwner, WorkInv, Working
  <2>2. \A d \in Client : Working(d) => d = c
    BY <2>1 DEF WorkInv, CallOf
  <2>3. /\ dir' # NoDir /\ dir'.maker = CallOf(c) /\ ~dir'.old
        /\ dir'.owner = LifeOf(c)
    <3>1. dir' = [dir EXCEPT !.owner = LifeOf(c)]
      BY <1>3, <2>1 DEF WriteOwner
    <3>2. dir' \in LockDir
      BY <2>1, <3>1 DEF TypeOK, LockDir, Life, LifeOf
    <3>3. QED
      BY <2>1, <3>1, <3>2, DirType DEF LockDir
  <2>4. pc' = [pc EXCEPT ![c] = "critical"]
    BY <1>3, <2>1 DEF WriteOwner, Goto
  <2>5. WorkInv'
    BY <1>3, <2>2, <2>3, <2>4 DEF WriteOwner, TypeOK, WorkInv, Working, CallOf, LifeOf
  <2>6. LeftInv'
    BY <1>3, <2>3, <2>4 DEF WriteOwner, TypeOK, LeftInv, Working, CallOf, LifeOf
  <2>7. JudgedInv'
    BY <1>3, <2>4 DEF WriteOwner, TypeOK, JudgedInv, MakerIsDead
  <2>8. QED
    BY <2>5, <2>6, <2>7
<1>4. ASSUME NEW c \in Client, CleanUp(c) PROVE WorkInv' /\ LeftInv' /\ JudgedInv'
  BY <1>4 DEF CleanUp, WorkInv
<1>5. ASSUME NEW c \in Client, Exit(c) PROVE WorkInv' /\ LeftInv' /\ JudgedInv'
  <2>1. \A d \in Client : Working(d) => d = c
    BY <1>5 DEF Exit, WorkInv, Working, CallOf
  <2>2. WorkInv' /\ LeftInv'
    BY <1>5, <2>1 DEF Exit, Goto, TypeOK, WorkInv, LeftInv, Working
  <2>3. JudgedInv'
    BY <1>5 DEF Exit, Goto, TypeOK, JudgedInv, MakerIsDead
  <2>4. QED
    BY <2>2, <2>3
<1>6. ASSUME NEW c \in Client, Judge(c) PROVE WorkInv' /\ LeftInv' /\ JudgedInv'
  <2>1. MakerIsDead(dir.maker)
    BY <1>6, ReclaimableIsOver DEF Judge
  <2>2. WorkInv' /\ LeftInv'
    BY <1>6, DirType DEF Judge, Goto, TypeOK, WorkInv, LeftInv, Working, MakerIsDead, CallOf, LifeOf
  <2>3. JudgedInv'
    BY <1>6, <2>1 DEF Judge, Goto, TypeOK, JudgedInv, MakerIsDead
  <2>4. QED
    BY <2>2, <2>3
<1>7. ASSUME NEW c \in Client, Reclaim(c) PROVE WorkInv' /\ LeftInv' /\ JudgedInv'
  <2>1. dir # NoDir => MakerIsDead(dir.maker)
    BY <1>7 DEF Reclaim, JudgedInv
  <2>2. \A d \in Client : ~Working(d)
    BY <2>1, WorkingIsNotOver DEF WorkInv
  <2>3. WorkInv' /\ LeftInv'
    BY <1>7, <2>2 DEF Reclaim, Goto, TypeOK, WorkInv, LeftInv, Working
  <2>4. JudgedInv'
    BY <1>7 DEF Reclaim, Goto, TypeOK, JudgedInv, MakerIsDead
  <2>5. QED
    BY <2>3, <2>4
<1>8. ASSUME NEW c \in Client, TimeOut(c) PROVE WorkInv' /\ LeftInv' /\ JudgedInv'
  BY <1>8, DirType DEF TimeOut, Goto, TypeOK, WorkInv, LeftInv, JudgedInv, Working, MakerIsDead,
     CallOf, LifeOf
<1>9. ASSUME Age PROVE WorkInv' /\ LeftInv' /\ JudgedInv'
  <2>1. /\ dir # NoDir /\ dir.owner = NoOwner
        /\ dir' = [dir EXCEPT !.old = TRUE]
        /\ \A d \in Client : pc[d] # "made"
    BY <1>9 DEF Age
  <2>2. \A d \in Client : pc[d] # "critical"
    BY <2>1 DEF WorkInv, LifeOf, TypeOK, Life
  <2>3. MakerIsDead(dir.maker)
    BY <2>1, <2>2, DirType DEF LeftInv, Working
  <2>4. /\ dir' # NoDir /\ dir'.maker = dir.maker /\ dir'.owner = dir.owner
    BY <2>1, DirType DEF LockDir
  <2>5. WorkInv'
    BY <1>9, <2>1, <2>2 DEF Age, WorkInv, Working
  <2>6. LeftInv' /\ JudgedInv'
    BY <1>9, <2>1, <2>3, <2>4 DEF Age, LeftInv, JudgedInv, MakerIsDead
  <2>7. QED
    BY <2>5, <2>6
<1>10. ASSUME NEW p \in Process, Crash(p) PROVE WorkInv' /\ LeftInv' /\ JudgedInv'
  <2>1. /\ up' = up \ {p} /\ UNCHANGED <<dir, judged, incarnation>>
        /\ pc' = [c \in Client |-> IF ProcessOf[c] = p THEN "idle" ELSE pc[c]]
    BY <1>10 DEF Crash
  <2>2. WorkInv'
    BY <2>1 DEF WorkInv, Working, CallOf, LifeOf
  <2>3. LeftInv'
    BY <2>1, DirType DEF LeftInv, Working, MakerIsDead
  <2>4. JudgedInv'
    BY <2>1 DEF JudgedInv, MakerIsDead
  <2>5. QED
    BY <2>2, <2>3, <2>4
<1>11. ASSUME NEW p \in Process, Restart(p) PROVE WorkInv' /\ LeftInv' /\ JudgedInv'
  <2>1. /\ p \notin up /\ up' = up \cup {p}
        /\ incarnation' = [incarnation EXCEPT ![p] = @ + 1]
        /\ UNCHANGED <<dir, pc, judged>>
    BY <1>11 DEF Restart
  <2>2. WorkInv'
    BY <2>1 DEF TypeOK, UpInv, WorkInv, Working, CallOf, LifeOf
  <2>3. \A call \in Call : MakerIsDead(call) /\ Known(call) => MakerIsDead(call)'
    BY <2>1 DEF TypeOK, Call, MakerIsDead, Known
  <2>4. LeftInv'
    BY <2>1, <2>3, DirType DEF MakerInv, LeftInv, Working, Call
  <2>5. JudgedInv'
    BY <2>1, <2>3 DEF TypeOK, MakerInv, JudgedInv
  <2>6. QED
    BY <2>2, <2>4, <2>5
<1>12. CASE UNCHANGED vars
  BY <1>12 DEF vars, WorkInv, LeftInv, JudgedInv, Working, MakerIsDead, CallOf, LifeOf
<1>13. QED
  BY <1>1, <1>2, <1>3, <1>4, <1>5, <1>6, <1>7, <1>8, <1>9, <1>10, <1>11, <1>12 DEF Next, Step
-----------------------------------------------------------------------------
LEMMA NextIInv == IInv /\ [Next]_vars => IInv'
<1> SUFFICES ASSUME IInv, [Next]_vars PROVE IInv'
  OBVIOUS
<1>1. TypeOK' /\ UpInv' /\ MakerInv'
  BY StepType DEF IInv
<1>2. raced => raced'
  BY DEF Next, Step, Start, MakeDir, WriteOwner, CleanUp, Exit, Judge, Reclaim, TimeOut, Age,
     Crash, Restart, vars
<1>3. ~raced' => WorkInv' /\ LeftInv' /\ JudgedInv'
  BY <1>2, StepUnraced
<1>4. QED
  BY <1>1, <1>3 DEF IInv

LEMMA Invariance == Spec => []IInv
BY InitIInv, NextIInv, PTL DEF Spec

\* The lock directory and the clients keep their types through every call, crash
\* and restart.
THEOREM TypeCorrect == Spec => []TypeOK
<1>1. IInv => TypeOK
  BY DEF IInv
<1>2. QED
  BY <1>1, Invariance, PTL

\* withFileLock excludes, for any number of clients, processes and crashes and
\* whether or not pids are reused, until rm -rf in reclaimIfStale removes another
\* directory than the one whose owner it looked at.
THEOREM Exclusion == Spec => []ExclusiveUnlessReclaimRaced
<1>1. IInv => ExclusiveUnlessReclaimRaced
  BY WorkInvExclusive DEF IInv, ExclusiveUnlessReclaimRaced
<1>2. QED
  BY <1>1, Invariance, PTL
-----------------------------------------------------------------------------
(***************************************************************************)
(* Without a crash. A process that went down stays down or comes back in a *)
(* later life, so that a state that shows no crash has none behind it.     *)
(***************************************************************************)
Calm == up = Process /\ \A p \in Process : incarnation[p] = 0

\* Where no process has crashed, no call is of a process that died.
LEMMA NothingIsOver ==
  ASSUME TypeOK, Calm, NEW call \in Call
  PROVE  ~MakerIsDead(call)
BY ProcessOfAssumption DEF TypeOK, Calm, Call, MakerIsDead

\* Where no process has crashed, a lock directory has somebody working under it,
\* and nobody has found one to be stale.
LEMMA CalmIsWorkedUnder ==
  ASSUME IInv, Calm, ~raced
  PROVE  /\ dir # NoDir => \E d \in Client : Working(d)
         /\ \A c \in Client : pc[c] # "reclaim"
<1>1. dir # NoDir => \E d \in Client : Working(d)
  BY DirType, NothingIsOver DEF IInv, LeftInv, Call
<1>2. \A c \in Client : pc[c] # "reclaim"
  BY NothingIsOver DEF IInv, TypeOK, JudgedInv
<1>3. QED
  BY <1>1, <1>2

\* No step of a system without a crash removes a directory under somebody, fails a
\* call or lets one time out.
LEMMA StepHarmless ==
  ASSUME IInv, HarmlessWithoutCrash, [Next]_vars
  PROVE  HarmlessWithoutCrash'
<1> DEFINE Fine == ~raced /\ \A c \in Client : pc[c] \notin {"cleanup", "timedOut", "error"}
<1> SUFFICES ASSUME Calm' PROVE Fine'
  BY DEF HarmlessWithoutCrash, Calm
<1>1. ASSUME NEW p \in Process PROVE ~Crash(p) /\ ~Restart(p)
  <2>1. ~Crash(p)
    BY DEF Crash, Calm
  <2>2. ASSUME Restart(p) PROVE FALSE
    BY <2>2 DEF Restart, Calm, IInv, TypeOK
  <2>3. QED
    BY <2>1, <2>2
<1>2. up' = up /\ incarnation' = incarnation
  BY <1>1 DEF Next, Step, Start, MakeDir, WriteOwner, CleanUp, Exit, Judge, Reclaim, TimeOut,
     Age, vars
<1>3. Calm /\ Fine
  BY <1>2 DEF Calm, HarmlessWithoutCrash
<1>4. /\ dir # NoDir => \E d \in Client : Working(d)
      /\ \A c \in Client : pc[c] # "reclaim"
      /\ \A c \in Client : Working(c) => dir # NoDir
  BY <1>3, CalmIsWorkedUnder DEF IInv, WorkInv
<1> USE DEF IInv, TypeOK
<1>5. ASSUME NEW c \in Client, Start(c) PROVE Fine'
  BY <1>3, <1>5 DEF Start, Goto
<1>6. ASSUME NEW c \in Client, MakeDir(c) PROVE Fine'
  BY <1>3, <1>6 DEF MakeDir, Goto
<1>7. ASSUME NEW c \in Client, WriteOwner(c) PROVE Fine'
  BY <1>3, <1>4, <1>7 DEF WriteOwner, Goto, Working
<1>8. ASSUME NEW c \in Client, CleanUp(c) PROVE Fine'
  BY <1>3, <1>8 DEF CleanUp
<1>9. ASSUME NEW c \in Client, Exit(c) PROVE Fine'
  BY <1>3, <1>9 DEF Exit, Goto
<1>10. ASSUME NEW c \in Client, Judge(c) PROVE Fine'
  BY <1>3, <1>10 DEF Judge, Goto
<1>11. ASSUME NEW c \in Client, Reclaim(c) PROVE Fine'
  BY <1>4, <1>11 DEF Reclaim
<1>12. ASSUME NEW c \in Client, TimeOut(c) PROVE Fine'
  BY <1>4, <1>12 DEF TimeOut, Working
<1>13. CASE Age
  BY <1>3, <1>13 DEF Age
<1>14. CASE UNCHANGED vars
  BY <1>3, <1>14 DEF vars
<1>15. QED
  BY <1>1, <1>5, <1>6, <1>7, <1>8, <1>9, <1>10, <1>11, <1>12, <1>13, <1>14 DEF Next, Step

\* As long as no process has crashed, withFileLock never takes a lock from under a
\* caller, fails a call or lets one time out: mkdir, owner.json and rm -rf being
\* three steps does no harm by itself, for any number of clients and processes.
THEOREM Orderly == Spec => []OrderlyWithoutCrash
<1>1. Init => HarmlessWithoutCrash
  BY DEF Init, HarmlessWithoutCrash
<1>2. IInv /\ HarmlessWithoutCrash /\ [Next]_vars => HarmlessWithoutCrash'
  BY StepHarmless
<1>3. IInv /\ HarmlessWithoutCrash => OrderlyWithoutCrash
  BY DEF IInv, OrderlyWithoutCrash
<1>4. QED
  BY <1>1, <1>2, <1>3, Invariance, PTL DEF Spec

(***************************************************************************)
(* McpConnections.                                                         *)
(***************************************************************************)
Where == {"idle", "first", "creating", "second", "ok", "error"}
Stage == {"idle", "building", "built", "done"}
Done == {r \in Refresher : refresh[r].pc = "done"}
Busy(r) == refresh[r].pc \in {"building", "built"}

CallRecord == [pc : Where, kind : {"tool", "list"}, at : Nat, on : Nat, ran : Nat, delivered : BOOLEAN,
               version : Nat, excused : BOOLEAN, late : BOOLEAN]

CallsType ==
  /\ mcpCall \in [Caller -> CallRecord]
  /\ refresh \in [Refresher -> [pc : Stage, previous : Nat, client : Nat, version : Nat]]

\* Refreshes number the providers, and clients are numbered as they are made.
ProviderType ==
  /\ conn \in [Provider -> Nat] /\ catalog \in [Provider -> Nat]
  /\ made \in Nat /\ offers \in Nat /\ faults \in Nat
  /\ current = built /\ built = 1 + Cardinality(Done)
  /\ open \subseteq 1 .. made
  /\ \A p \in Provider : conn[p] <= made /\ catalog[p] <= offers /\ (p > built => catalog[p] = 0)

\* A refresh has a client only once it has connected.
RefreshInv ==
  \A r \in Refresher :
    /\ refresh[r].client <= made /\ refresh[r].version <= offers
    /\ refresh[r].pc \in {"idle", "building"} => refresh[r].client = None

\* A call runs once before its client fails, and once more on the connection made after that.
TwiceInv ==
  \A k \in Caller :
    /\ mcpCall[k].pc = "idle" => mcpCall[k].ran = 0 /\ ~mcpCall[k].late
    /\ mcpCall[k].pc = "first" => mcpCall[k].ran <= IF mcpCall[k].delivered THEN 1 ELSE 0
    /\ mcpCall[k].pc \in {"creating", "second"} => mcpCall[k].kind = "tool"
    /\ mcpCall[k].pc = "creating" => mcpCall[k].ran <= 1 /\ ~mcpCall[k].delivered
    /\ mcpCall[k].pc = "second" => mcpCall[k].ran <= IF mcpCall[k].delivered THEN 2 ELSE 1
    /\ mcpCall[k].ran <= IF mcpCall[k].kind = "tool" THEN 2 ELSE 1
    /\ mcpCall[k].version <= offers

\* Each provider, and each refresh, has a client of its own.
ClientsInv ==
  /\ \A p, q \in 1 .. built : conn[p] = conn[q] => p = q \/ conn[p] = None
  /\ \A r \in Refresher : refresh[r].pc = "built" =>
       refresh[r].client = None \/ \A p \in 1 .. built : refresh[r].client # conn[p]
  /\ \A q, r \in Refresher :
       refresh[q].pc = "built" /\ refresh[r].pc = "built" /\ refresh[q].client = refresh[r].client =>
         q = r \/ refresh[r].client = None

\* A late call is at a provider that was replaced. While no two calls of a provider overlapped, the
\* one at work has what is newer than the catalog, and the client of the provider.
SharedInv ==
  /\ \A k \in Caller : Waits(k) \/ mcpCall[k].late => mcpCall[k].at \in 1 .. built
  /\ \A k \in Caller : mcpCall[k].late => mcpCall[k].at < current
  /\ ~shared =>
    /\ \A j, k \in Caller : Waits(j) /\ Waits(k) /\ mcpCall[j].at = mcpCall[k].at => j = k
    /\ \A k \in Caller : Waits(k) /\ mcpCall[k].delivered => mcpCall[k].version >= catalog[mcpCall[k].at]
    /\ \A k \in Caller : mcpCall[k].pc \in {"first", "second"} => mcpCall[k].on = conn[mcpCall[k].at]

\* While no close or reconnect met another use: whoever is at work, and is not late, uses the provider
\* of the tool host, at most one call of a provider makes a connection and at most one refresh a
\* provider, and no more clients are open than they have.
UseInv ==
  ~entangled =>
    /\ \A k \in Caller : Waits(k) /\ ~mcpCall[k].late => mcpCall[k].at = current /\ ~down
    /\ \A r \in Refresher : Busy(r) => refresh[r].previous = current /\ ~down
    /\ \A q, r \in Refresher : Busy(q) /\ Busy(r) => q = r
    /\ \A j, k \in Caller :
         mcpCall[j].pc = "creating" /\ mcpCall[k].pc = "creating" /\ mcpCall[j].at = mcpCall[k].at => j = k
    /\ \A k \in Caller : mcpCall[k].pc = "creating" => conn[mcpCall[k].at] \notin open
    /\ \A c \in open : \/ ~down /\ c = conn[current]
                       \/ \E r \in Refresher : refresh[r].pc = "built" /\ refresh[r].client = c
                       \/ \E k \in Caller : mcpCall[k].late /\ c = conn[mcpCall[k].at]

\* Without a fault, a call that is not late has an open client from its first moment to its answer.
FaultInv ==
  ~entangled /\ faults = 0 =>
    /\ \A k \in Caller : ~mcpCall[k].late => mcpCall[k].pc \in {"idle", "first", "ok"} /\ mcpCall[k].ran <= 1
    /\ \A k \in Caller : ~mcpCall[k].late /\ mcpCall[k].pc = "first" => mcpCall[k].on = conn[current]
    /\ ~down => conn[current] \in open
    /\ \A r \in Refresher : refresh[r].pc = "built" => refresh[r].client \in open

\* A late call that has its provider to itself, before the first fault: it reconnects only if it
\* found the client closed, and then it did not run.
LateInv(k) ==
  /\ mcpCall[k].pc = "creating" => mcpCall[k].ran = 0
  /\ mcpCall[k].pc = "second" => mcpCall[k].ran <= IF mcpCall[k].delivered THEN 1 ELSE 0
  /\ mcpCall[k].ran <= 1
  /\ mcpCall[k].pc = "error" => mcpCall[k].kind = "list"

\* A call that has the provider to itself keeps the client it reached the server by, and fails again
\* only after a second fault, or after one if it began late.
AloneInv ==
  ~entangled /\ ~shared =>
    \A k \in Caller :
      /\ mcpCall[k].pc = "second" => mcpCall[k].on \in open
      /\ mcpCall[k].pc = "first" /\ mcpCall[k].delivered => mcpCall[k].on \in open
      /\ mcpCall[k].pc = "error" /\ mcpCall[k].kind = "tool" =>
           mcpCall[k].excused \/ faults > IF mcpCall[k].late THEN 0 ELSE 1
      /\ faults = 0 /\ mcpCall[k].late => LateInv(k)

McpInv ==
  /\ CallsType /\ ProviderType /\ RefreshInv /\ TwiceInv
  /\ ClientsInv /\ SharedInv /\ UseInv /\ FaultInv /\ AloneInv
-----------------------------------------------------------------------------
\* The invariant holds at first.
LEMMA McpBegins ==
  ASSUME McpInit
  PROVE  McpInv
<1> USE DEF McpInit, None
<1>1. /\ \A k \in Caller : mcpCall[k] = NoCall
      /\ \A r \in Refresher : refresh[r] = NoRefresh
  OBVIOUS
<1>2. Cardinality(Done) = 0
  <2>1. Done = {}
    BY <1>1 DEF Done, NoRefresh
  <2>2. QED
    BY <2>1, FS_EmptySet
<1>3. CallsType
  <2>1. NoRefresh \in [pc : Stage, previous : Nat, client : Nat, version : Nat]
    BY DEF NoRefresh, Stage
  <2>2. NoCall \in CallRecord
    BY DEF NoCall, CallRecord, Where
  <2>3. QED
    BY <2>1, <2>2 DEF CallsType
<1>4. /\ \A p \in Provider : p \in Nat /\ conn[p] = (IF p = 1 THEN 1 ELSE 0) /\ catalog[p] = (IF p = 1 THEN 1 ELSE 0)
      /\ conn \in [Provider -> Nat] /\ catalog \in [Provider -> Nat] /\ 1 \in Provider
  <2>1. Cardinality(Refresher) \in Nat
    BY McpAssumption, FS_CardinalityType
  <2>2. QED
    BY <2>1 DEF Provider
<1>5. ProviderType
  BY <1>2, <1>4 DEF ProviderType
<1>6. RefreshInv
  BY <1>1 DEF RefreshInv, NoRefresh
<1>7. TwiceInv /\ SharedInv
  BY <1>1 DEF TwiceInv, SharedInv, NoCall, Waits
<1>8. UseInv /\ FaultInv /\ AloneInv
  BY <1>1, <1>4 DEF UseInv, FaultInv, AloneInv, NoCall, NoRefresh, Waits, Busy
<1>9. ClientsInv
  BY <1>1, <1>4 DEF ClientsInv, NoRefresh
<1>10. QED
  BY <1>3, <1>5, <1>6, <1>7, <1>8, <1>9 DEF McpInv

\* There is a provider for every refresh.
LEMMA ProvidersAreThere ==
  ASSUME McpInv
  PROVE  /\ Provider \subseteq Nat /\ built \in Provider
         /\ \A p \in 1 .. built : p \in Provider
         /\ \A r \in Refresher : refresh[r].pc # "done" => built + 1 \in Provider
         /\ Cardinality(Done) \in Nat /\ IsFiniteSet(Done)
<1> USE McpAssumption DEF McpInv, ProviderType
<1>1. IsFiniteSet(Done) /\ Cardinality(Done) \in Nat /\ Cardinality(Refresher) \in Nat
      /\ Cardinality(Done) <= Cardinality(Refresher)
  BY FS_Subset, FS_CardinalityType DEF Done
<1>2. ASSUME NEW r \in Refresher, refresh[r].pc # "done"
      PROVE  Cardinality(Done) < Cardinality(Refresher)
  <2>1. Done \subseteq Refresher /\ Done # Refresher
    BY <1>2 DEF Done
  <2>2. QED
    BY <1>1, <2>1, FS_Subset
<1>3. QED
  BY <1>1, <1>2 DEF Provider

\* An open client is that of one provider.
LEMMA ClientsAreApart ==
  ASSUME McpInv, NEW p \in 1 .. built, NEW q \in 1 .. built, p # q, conn[p] \in open
  PROVE  conn[p] # conn[q]
BY DEF McpInv, ClientsInv, ProviderType, None

\* A refresh that has connected has a client that is no provider's.
LEMMA ClientIsNew ==
  ASSUME McpInv, NEW r \in Refresher, refresh[r].pc = "built", refresh[r].client \in open,
         NEW p \in 1 .. built
  PROVE  refresh[r].client # conn[p]
BY DEF McpInv, ClientsInv, ProviderType, None

\* A call begins, at the provider of the tool host or at one that was replaced.
LEMMA BeginKeepsMcp ==
  ASSUME McpInv, NEW k \in Caller, NEW kind \in {"tool", "list"}, NEW p \in 1 .. built, Begin(k, kind, p)
  PROVE  McpInv'
<1> USE DEF McpInv, CallsType
<1>1. /\ mcpCall[k].pc = "idle"
      /\ mcpCall' = [mcpCall EXCEPT ![k] = [NoCall EXCEPT !.pc = "first", !.kind = kind, !.at = p,
                                                          !.on = conn[p], !.late = (p # current)]]
      /\ shared' = (shared \/ UsersOf(p) # {}) /\ entangled' = (entangled \/ down)
      /\ UNCHANGED <<conn, current, built, open, made, catalog, refresh, offers, down, faults>>
  BY DEF Begin
<1>2. /\ conn[p] \in Nat /\ p \in Nat /\ built \in Nat /\ current = built /\ (p # current => p < current)
  BY ProvidersAreThere DEF ProviderType
<1>3. /\ CallsType'
      /\ mcpCall'[k].pc = "first" /\ mcpCall'[k].kind = kind /\ mcpCall'[k].at = p
      /\ mcpCall'[k].on = conn[p] /\ mcpCall'[k].ran = 0 /\ mcpCall'[k].delivered = FALSE
      /\ mcpCall'[k].version = 0 /\ mcpCall'[k].late = (p # current)
      /\ \A j \in Caller : j # k => mcpCall'[j] = mcpCall[j]
  <2>1. PICK c : c = [NoCall EXCEPT !.pc = "first", !.kind = kind, !.at = p, !.on = conn[p],
                                    !.late = (p # current)]
    OBVIOUS
  <2>2. /\ c \in CallRecord /\ c.pc = "first" /\ c.kind = kind /\ c.at = p /\ c.on = conn[p]
        /\ c.ran = 0 /\ c.delivered = FALSE /\ c.version = 0 /\ c.late = (p # current)
    BY <1>2, <2>1 DEF NoCall, CallRecord, Where, None
  <2>3. mcpCall' = [mcpCall EXCEPT ![k] = c]
    BY <1>1, <2>1
  <2>4. QED
    BY <1>1, <2>2, <2>3
<1>4. ProviderType' /\ RefreshInv' /\ ClientsInv'
  BY <1>1 DEF ProviderType, RefreshInv, ClientsInv, Done
<1>5. TwiceInv'
  BY <1>1, <1>3 DEF TwiceInv, ProviderType
<1>6. SharedInv'
  <2>1. \A j \in Caller : Waits(j)' => IF j = k THEN mcpCall'[j].at = p ELSE Waits(j) /\ mcpCall'[j].at = mcpCall[j].at
    BY <1>3 DEF Waits
  <2>2. ~shared' => \A j \in Caller : ~(Waits(j) /\ mcpCall[j].at = p)
    BY <1>1 DEF UsersOf
  <2>3. \A j \in Caller : /\ Waits(j)' \/ mcpCall'[j].late => mcpCall'[j].at \in 1 .. built'
                          /\ mcpCall'[j].late => mcpCall'[j].at < current'
    BY <1>1, <1>2, <1>3, <2>1 DEF SharedInv
  <2>4. ~shared' => \A i, j \in Caller : Waits(i)' /\ Waits(j)' /\ mcpCall'[i].at = mcpCall'[j].at => i = j
    BY <1>1, <2>1, <2>2 DEF SharedInv
  <2>5. ~shared' => \A j \in Caller : Waits(j)' /\ mcpCall'[j].delivered => mcpCall'[j].version >= catalog'[mcpCall'[j].at]
    BY <1>1, <1>3, <2>1 DEF SharedInv
  <2>6. ~shared' => \A j \in Caller : mcpCall'[j].pc \in {"first", "second"} => mcpCall'[j].on = conn'[mcpCall'[j].at]
    BY <1>1, <1>3 DEF SharedInv
  <2>7. QED
    BY <2>3, <2>4, <2>5, <2>6 DEF SharedInv
<1>7. ~entangled' => ~entangled /\ ~down
  BY <1>1
<1>8. \A j \in Caller : mcpCall[j].late => mcpCall'[j] = mcpCall[j]
  BY <1>1, <1>3 DEF TwiceInv
<1>9. UseInv'
  <2>1. SUFFICES ASSUME ~entangled' PROVE UseInv'
    BY DEF UseInv
  <2>2. \A j \in Caller : Waits(j)' /\ ~mcpCall'[j].late => mcpCall'[j].at = current /\ ~down
    BY <1>7, <1>1, <1>3, <2>1 DEF UseInv, Waits
  <2>3. \A j \in Caller : mcpCall'[j].pc = "creating" => mcpCall'[j] = mcpCall[j]
    BY <1>3
  <2>4. \A c \in open : \/ ~down /\ c = conn[current]
                        \/ \E r \in Refresher : refresh[r].pc = "built" /\ refresh[r].client = c
                        \/ \E j \in Caller : mcpCall'[j].late /\ c = conn[mcpCall'[j].at]
    BY <1>7, <1>8, <2>1 DEF UseInv
  <2>5. QED
    BY <1>7, <1>1, <2>1, <2>2, <2>3, <2>4 DEF UseInv, Busy
<1>10. FaultInv'
  <2>1. SUFFICES ASSUME ~entangled', faults' = 0 PROVE FaultInv'
    BY DEF FaultInv
  <2>2. conn[current] \in open
    BY <1>7, <1>1, <2>1 DEF FaultInv
  <2>3. /\ \A j \in Caller : ~mcpCall'[j].late => mcpCall'[j].pc \in {"idle", "first", "ok"} /\ mcpCall'[j].ran <= 1
        /\ \A j \in Caller : ~mcpCall'[j].late /\ mcpCall'[j].pc = "first" => mcpCall'[j].on = conn'[current']
    <3>1. ~mcpCall'[k].late => mcpCall'[k].on = conn'[current']
      BY <1>1, <1>3
    <3>2. \A j \in Caller : j # k => mcpCall'[j] = mcpCall[j]
      BY <1>3
    <3>3. \A j \in Caller : ~mcpCall[j].late =>
            /\ mcpCall[j].pc \in {"idle", "first", "ok"} /\ mcpCall[j].ran <= 1
            /\ mcpCall[j].pc = "first" => mcpCall[j].on = conn'[current']
      BY <1>7, <1>1, <2>1 DEF FaultInv
    <3>4. mcpCall'[k].pc = "first" /\ mcpCall'[k].ran = 0
      BY <1>3
    <3>5. QED
      BY <3>1, <3>2, <3>3, <3>4
  <2>4. \A r \in Refresher : refresh'[r].pc = "built" => refresh'[r].client \in open'
    BY <1>7, <1>1, <2>1 DEF FaultInv
  <2>5. conn'[current'] \in open'
    BY <1>1, <2>2
  <2>6. QED
    BY <2>3, <2>4, <2>5 DEF FaultInv
<1>11. AloneInv'
  <2>1. SUFFICES ASSUME ~entangled', ~shared' PROVE AloneInv'
    BY DEF AloneInv
  <2>2. ~entangled /\ ~shared /\ faults' = faults /\ open' = open
    BY <1>1, <2>1
  <2>3. LateInv(k)' /\ mcpCall'[k].pc = "first" /\ mcpCall'[k].delivered = FALSE
    BY <1>3 DEF LateInv
  <2>4. \A j \in Caller : j # k => mcpCall'[j] = mcpCall[j] /\ LateInv(j)' = LateInv(j)
    BY <1>3 DEF LateInv
  <2>5. QED
    BY <2>2, <2>3, <2>4 DEF AloneInv
<1>12. QED
  BY <1>3, <1>4, <1>5, <1>6, <1>9, <1>10, <1>11

\* The server runs a call.
LEMMA DeliverKeeps ==
  ASSUME McpInv, NEW k \in Caller, Deliver(k)
  PROVE  McpInv'
<1> USE DEF McpInv, CallsType
<1>1. /\ mcpCall[k].pc \in {"first", "second"} /\ ~mcpCall[k].delivered /\ mcpCall[k].on \in open
      /\ mcpCall' = [mcpCall EXCEPT ![k].delivered = TRUE, ![k].ran = @ + 1, ![k].version = offers]
      /\ UNCHANGED <<conn, current, built, open, made, catalog, refresh, offers, down, faults, shared, entangled>>
  BY DEF Deliver
<1>2. offers \in Nat /\ mcpCall[k] \in CallRecord /\ mcpCall[k].ran \in Nat
  BY DEF ProviderType, CallRecord
<1>3. /\ CallsType'
      /\ mcpCall'[k].delivered = TRUE /\ mcpCall'[k].ran = mcpCall[k].ran + 1 /\ mcpCall'[k].version = offers
      /\ mcpCall'[k].pc = mcpCall[k].pc /\ mcpCall'[k].kind = mcpCall[k].kind /\ mcpCall'[k].at = mcpCall[k].at
      /\ mcpCall'[k].on = mcpCall[k].on /\ mcpCall'[k].excused = mcpCall[k].excused
      /\ mcpCall'[k].late = mcpCall[k].late
      /\ \A j \in Caller : j # k => mcpCall'[j] = mcpCall[j]
  <2>1. PICK c : c = [mcpCall[k] EXCEPT !.delivered = TRUE, !.ran = @ + 1, !.version = offers]
    OBVIOUS
  <2>2. c \in CallRecord
    <3>1. mcpCall[k].ran + 1 \in Nat
      BY <1>2
    <3>2. QED
      BY <1>2, <2>1, <3>1 DEF CallRecord, Where
  <2>3. /\ c.delivered = TRUE /\ c.ran = mcpCall[k].ran + 1 /\ c.version = offers
        /\ c.pc = mcpCall[k].pc /\ c.kind = mcpCall[k].kind /\ c.at = mcpCall[k].at
        /\ c.on = mcpCall[k].on /\ c.excused = mcpCall[k].excused /\ c.late = mcpCall[k].late
    BY <1>2, <2>1 DEF CallRecord
  <2>4. mcpCall' = [mcpCall EXCEPT ![k] = c]
    BY <1>1, <2>1
  <2>5. CallsType' /\ mcpCall'[k] = c /\ \A j \in Caller : j # k => mcpCall'[j] = mcpCall[j]
    BY <1>1, <2>2, <2>4
  <2>6. QED
    BY <2>3, <2>5
<1>4. ProviderType' /\ RefreshInv' /\ ClientsInv'
  BY <1>1 DEF ProviderType, RefreshInv, ClientsInv, Done
<1>5. TwiceInv'
  BY <1>1, <1>2, <1>3 DEF TwiceInv
<1>6. \A j \in Caller : /\ mcpCall'[j].pc = mcpCall[j].pc /\ mcpCall'[j].at = mcpCall[j].at
                        /\ mcpCall'[j].on = mcpCall[j].on /\ mcpCall'[j].kind = mcpCall[j].kind
                        /\ mcpCall'[j].excused = mcpCall[j].excused /\ mcpCall'[j].late = mcpCall[j].late
  BY <1>3
<1>7. \A j \in Caller : Waits(j)' <=> Waits(j)
  BY <1>6 DEF Waits
<1>8. SharedInv'
  <2>1. Waits(k) => offers >= catalog[mcpCall[k].at]
    BY ProvidersAreThere DEF ProviderType, SharedInv
  <2>2. QED
    BY SMTT(60), <1>1, <1>3, <1>6, <1>7, <2>1 DEF SharedInv
<1>9. UseInv'
  BY <1>1, <1>6, <1>7 DEF UseInv, Busy
<1>10. FaultInv'
  <2>1. mcpCall[k].pc = "first" => mcpCall'[k].ran <= 1
    BY <1>1, <1>2, <1>3 DEF TwiceInv
  <2>2. QED
    BY <1>1, <1>3, <1>6, <2>1 DEF FaultInv
<1>11. AloneInv'
  <2>1. SUFFICES ASSUME ~entangled, ~shared PROVE AloneInv'
    BY <1>1 DEF AloneInv
  <2>2. ASSUME faults = 0, mcpCall[k].late PROVE LateInv(k)'
    <3>1. mcpCall[k].pc = "second" => mcpCall'[k].ran <= 1
      BY <1>1, <1>2, <1>3, <2>1, <2>2 DEF AloneInv, LateInv
    <3>2. mcpCall[k].pc = "first" => mcpCall'[k].ran <= 1
      BY <1>1, <1>2, <1>3 DEF TwiceInv
    <3>3. QED
      BY <1>1, <1>3, <3>1, <3>2 DEF LateInv
  <2>3. \A j \in Caller : j # k => LateInv(j)' = LateInv(j)
    BY <1>3 DEF LateInv
  <2>4. QED
    BY <1>1, <1>3, <1>6, <2>1, <2>2, <2>3 DEF AloneInv
<1>12. QED
  BY <1>3, <1>4, <1>5, <1>8, <1>9, <1>10, <1>11

\* A call ends; a listing has the catalog of when it ran.
LEMMA AnswerKeeps ==
  ASSUME McpInv, NEW k \in Caller, Answer(k)
  PROVE  McpInv' /\ (shared \/ \A p \in Provider : catalog'[p] >= catalog[p])
<1> USE DEF McpInv, CallsType
<1>1. /\ Waits(k) /\ mcpCall[k].delivered
      /\ mcpCall' = [mcpCall EXCEPT ![k].pc = "ok"]
      /\ catalog' = IF mcpCall[k].kind = "list" THEN [catalog EXCEPT ![mcpCall[k].at] = mcpCall[k].version]
                    ELSE catalog
      /\ UNCHANGED <<conn, current, built, open, made, refresh, offers, down, faults, shared, entangled>>
  BY DEF Answer, Waits
<1>2. mcpCall[k] \in CallRecord /\ mcpCall[k].version \in Nat /\ mcpCall[k].at \in Provider
  <2>1. mcpCall[k].at \in Provider
    BY <1>1, ProvidersAreThere DEF SharedInv
  <2>2. QED
    BY <2>1 DEF CallRecord
<1>3. /\ CallsType'
      /\ mcpCall'[k].pc = "ok" /\ mcpCall'[k].ran = mcpCall[k].ran /\ mcpCall'[k].kind = mcpCall[k].kind
      /\ mcpCall'[k].late = mcpCall[k].late /\ mcpCall'[k].at = mcpCall[k].at
      /\ \A j \in Caller : j # k => mcpCall'[j] = mcpCall[j]
  <2>1. PICK c : c = [mcpCall[k] EXCEPT !.pc = "ok"]
    OBVIOUS
  <2>2. /\ c \in CallRecord /\ c.pc = "ok" /\ c.ran = mcpCall[k].ran /\ c.kind = mcpCall[k].kind
        /\ c.late = mcpCall[k].late /\ c.at = mcpCall[k].at
    BY <1>2, <2>1 DEF CallRecord, Where
  <2>3. mcpCall' = [mcpCall EXCEPT ![k] = c]
    BY <1>1, <2>1
  <2>4. QED
    BY <1>1, <2>2, <2>3
<1>4. /\ catalog' \in [Provider -> Nat]
      /\ \A p \in Provider : catalog'[p] = catalog[p] \/ (p = mcpCall[k].at /\ catalog'[p] = mcpCall[k].version)
  BY <1>1, <1>2 DEF ProviderType
<1>5. ProviderType'
  <2>1. mcpCall[k].version <= offers
    BY <1>1 DEF TwiceInv
  <2>2. mcpCall[k].at <= built
    BY <1>1 DEF SharedInv
  <2>3. \A p \in Provider : catalog'[p] <= offers /\ (p > built => catalog'[p] = 0)
    <3>1. SUFFICES ASSUME NEW p \in Provider
                   PROVE  catalog'[p] <= offers /\ (p > built => catalog'[p] = 0)
      OBVIOUS
    <3>2. p \in Nat /\ built \in Nat
      BY ProvidersAreThere
    <3>3. CASE catalog'[p] = catalog[p]
      BY <3>3 DEF ProviderType
    <3>4. CASE p = mcpCall[k].at /\ catalog'[p] = mcpCall[k].version
      BY <2>1, <2>2, <3>2, <3>4
    <3>5. QED
      BY <1>4, <3>3, <3>4
  <2>4. Done' = Done
    BY <1>1 DEF Done
  <2>5. QED
    BY <1>1, <1>4, <2>3, <2>4 DEF ProviderType
<1>6. RefreshInv' /\ TwiceInv' /\ ClientsInv'
  BY <1>1, <1>3 DEF RefreshInv, TwiceInv, ClientsInv
<1>7. \A j \in Caller : Waits(j)' <=> Waits(j) /\ j # k
  BY <1>3 DEF Waits
<1>8. SharedInv'
  <2>1. \A j \in Caller : Waits(j)' => mcpCall'[j] = mcpCall[j] /\ Waits(j)
    BY <1>3, <1>7
  <2>2. \A j \in Caller : Waits(j)' => mcpCall'[j].at \in Provider
    BY <1>1, <2>1, ProvidersAreThere DEF SharedInv
  <2>3. ~shared => \A j \in Caller : Waits(j)' => catalog'[mcpCall'[j].at] = catalog[mcpCall[j].at]
    BY <1>1, <1>4, <1>7, <2>1, <2>2 DEF SharedInv
  <2>4. \A j \in Caller : mcpCall'[j].late = mcpCall[j].late /\ mcpCall'[j].at = mcpCall[j].at
    BY <1>3
  <2>5. \A j \in Caller : mcpCall'[j].pc \in {"first", "second"} => mcpCall'[j] = mcpCall[j]
    BY <1>3
  <2>6. QED
    BY <1>1, <1>7, <2>1, <2>3, <2>4, <2>5 DEF SharedInv
<1>9. UseInv'
  <2>1. \A j \in Caller : mcpCall'[j].late = mcpCall[j].late /\ mcpCall'[j].at = mcpCall[j].at
    BY <1>3
  <2>2. \A j \in Caller : mcpCall'[j].pc = "creating" => mcpCall[j].pc = "creating"
    BY <1>3
  <2>3. QED
    BY <1>1, <1>7, <2>1, <2>2 DEF UseInv, Busy
<1>10. FaultInv' /\ AloneInv'
  BY <1>1, <1>3 DEF FaultInv, AloneInv, LateInv
<1>11. shared \/ \A p \in Provider : catalog'[p] >= catalog[p]
  BY <1>1, <1>2, <1>4 DEF SharedInv, ProviderType
<1>12. QED
  BY <1>3, <1>5, <1>6, <1>8, <1>9, <1>10, <1>11

\* A client fails under a call: only a fault, or a close under the call, does that.
LEMMA RejectKeeps ==
  ASSUME McpInv, NEW k \in Caller, Reject(k), mcpCall[k].pc \in {"first", "second"},
         faults' = faults + 1 \/ (faults' = faults /\ mcpCall[k].on \notin open)
  PROVE  McpInv'
<1> USE DEF McpInv, CallsType
<1>1. UNCHANGED <<conn, current, built, made, catalog, refresh, offers, down, shared>>
  BY DEF Reject
<1>2. PICK how \in {"creating", "error"} : how = IF Retries(k) THEN "creating" ELSE "error"
  OBVIOUS
<1>3. /\ how = "creating" => mcpCall[k].pc = "first" /\ mcpCall[k].kind = "tool"
      /\ how = "error" => mcpCall[k].pc = "second" \/ mcpCall[k].kind = "list"
  <2>1. mcpCall[k].kind \in {"tool", "list"}
    BY DEF CallRecord
  <2>2. QED
    BY <1>2, <2>1 DEF Retries
<1>4. /\ CallsType'
      /\ mcpCall'[k].pc = how /\ mcpCall'[k].ran = mcpCall[k].ran /\ mcpCall'[k].kind = mcpCall[k].kind
      /\ mcpCall'[k].at = mcpCall[k].at /\ mcpCall'[k].version = mcpCall[k].version
      /\ mcpCall'[k].late = mcpCall[k].late
      /\ how = "creating" => mcpCall'[k].delivered = FALSE
      /\ \A j \in Caller : j # k => mcpCall'[j] = mcpCall[j]
  <2>1. PICK c : c = IF how = "creating" THEN [mcpCall[k] EXCEPT !.pc = "creating", !.delivered = FALSE]
                     ELSE [mcpCall[k] EXCEPT !.pc = "error"]
    OBVIOUS
  <2>2. mcpCall[k] \in CallRecord
    OBVIOUS
  <2>3. c \in CallRecord
    BY <2>1, <2>2 DEF CallRecord, Where
  <2>4. /\ c.pc = how /\ c.ran = mcpCall[k].ran /\ c.kind = mcpCall[k].kind
        /\ c.at = mcpCall[k].at /\ c.version = mcpCall[k].version /\ c.late = mcpCall[k].late
        /\ how = "creating" => c.delivered = FALSE
    BY <2>1, <2>2 DEF CallRecord
  <2>5. mcpCall' = [mcpCall EXCEPT ![k] = c]
    BY <1>2, <2>1 DEF Reject
  <2>6. QED
    BY <1>1, <2>3, <2>4, <2>5
<1>5. /\ open' = IF how = "creating" THEN open \ {conn[mcpCall[k].at]} ELSE open
      /\ how = "creating" => \A j \in Caller : j # k /\ mcpCall[j].pc = "creating" /\ mcpCall[j].at = mcpCall[k].at
                               => entangled'
      /\ ~entangled' => ~entangled
  BY <1>2 DEF Reject
<1>6. faults' \in Nat /\ faults \in Nat /\ faults' >= faults
  BY DEF ProviderType
<1>7. ProviderType' /\ RefreshInv' /\ ClientsInv'
  BY <1>1, <1>5, <1>6 DEF ProviderType, RefreshInv, ClientsInv, Done
<1>8. TwiceInv'
  <2>1. mcpCall[k].pc = "first" => mcpCall[k].ran <= 1
    <3>1. mcpCall[k].ran \in Nat
      BY DEF CallRecord
    <3>2. QED
      BY <3>1 DEF TwiceInv
  <2>2. mcpCall'[k].pc = "creating" =>
          mcpCall'[k].kind = "tool" /\ mcpCall'[k].ran <= 1 /\ mcpCall'[k].delivered = FALSE
    BY <1>3, <1>4, <2>1
  <2>3. QED
    BY <1>1, <1>4, <2>2 DEF TwiceInv
<1>9. /\ Waits(k) /\ \A j \in Caller : Waits(j)' => Waits(j) /\ mcpCall'[j].at = mcpCall[j].at
      /\ Waits(k)' => mcpCall'[k].delivered = FALSE
  BY <1>4 DEF Waits
<1>10. \A j \in Caller : mcpCall'[j].late = mcpCall[j].late /\ mcpCall'[j].at = mcpCall[j].at
  BY <1>4
<1>11. SharedInv'
  <2>1. \A j \in Caller : Waits(j)' /\ mcpCall'[j].delivered => j # k
    BY <1>9
  <2>2. \A j \in Caller : mcpCall'[j].pc \in {"first", "second"} => mcpCall'[j] = mcpCall[j]
    BY <1>4
  <2>3. QED
    BY <1>1, <1>4, <1>9, <1>10, <2>1, <2>2 DEF SharedInv
<1>12. UseInv'
  <2>1. SUFFICES ASSUME ~entangled' PROVE UseInv'
    BY DEF UseInv
  <2>2. ~entangled
    BY <1>5, <2>1
  <2>3. \A j \in Caller : Waits(j)' /\ ~mcpCall'[j].late => mcpCall'[j].at = current /\ ~down
    BY <1>9, <1>10, <2>2 DEF UseInv
  <2>4. \A j \in Caller : mcpCall'[j].pc = "creating" => (j = k /\ how = "creating") \/ mcpCall[j].pc = "creating"
    BY <1>4
  <2>5. how = "creating" =>
          \A j \in Caller : mcpCall'[j].pc = "creating" /\ mcpCall'[j].at = mcpCall[k].at => j = k
    BY <1>5, <1>10, <2>1, <2>4
  <2>6. \A i, j \in Caller :
          mcpCall'[i].pc = "creating" /\ mcpCall'[j].pc = "creating" /\ mcpCall'[i].at = mcpCall'[j].at => i = j
    BY <1>10, <2>2, <2>4, <2>5 DEF UseInv
  <2>7. \A j \in Caller : mcpCall'[j].pc = "creating" => conn[mcpCall'[j].at] \notin open'
    BY <1>5, <1>10, <2>2, <2>4 DEF UseInv
  <2>8. open' \subseteq open
    BY <1>5
  <2>9. \A c \in open' : \/ ~down /\ c = conn[current]
                         \/ \E r \in Refresher : refresh[r].pc = "built" /\ refresh[r].client = c
                         \/ \E j \in Caller : mcpCall'[j].late /\ c = conn[mcpCall'[j].at]
    BY <1>10, <2>2, <2>8 DEF UseInv
  <2>10. QED
    BY <1>1, <2>2, <2>3, <2>6, <2>7, <2>9 DEF UseInv, Busy
<1>13. /\ mcpCall[k].at \in 1 .. built /\ current \in 1 .. built /\ mcpCall[k].at \in Nat
       /\ mcpCall[k].late => mcpCall[k].at # current
  BY <1>9, ProvidersAreThere DEF SharedInv, ProviderType
<1>14. FaultInv'
  <2>1. SUFFICES ASSUME ~entangled', faults' = 0 PROVE FaultInv'
    BY DEF FaultInv
  <2>2. ~entangled /\ faults = 0 /\ mcpCall[k].on \notin open
    BY <1>5, <1>6, <2>1
  <2>3. mcpCall[k].late
    <3>1. SUFFICES ASSUME ~mcpCall[k].late PROVE FALSE
      OBVIOUS
    <3>2. mcpCall[k].pc = "first" /\ mcpCall[k].on = conn[current] /\ ~down
      BY <1>9, <2>2, <3>1 DEF FaultInv, UseInv
    <3>3. QED
      BY <2>2, <3>2 DEF FaultInv
  <2>4. conn[current] \in open => conn[current] # conn[mcpCall[k].at]
    BY <1>13, <2>3, ClientsAreApart
  <2>5. \A r \in Refresher : refresh[r].pc = "built" => refresh[r].client \in open'
    <3>1. SUFFICES ASSUME NEW r \in Refresher, refresh[r].pc = "built" PROVE refresh[r].client \in open'
      OBVIOUS
    <3>2. refresh[r].client \in open
      BY <2>2, <3>1 DEF FaultInv
    <3>3. refresh[r].client # conn[mcpCall[k].at]
      BY <1>13, <3>1, <3>2, ClientIsNew
    <3>4. QED
      BY <1>5, <3>2, <3>3
  <2>6. ~down => conn[current] \in open'
    BY <1>5, <2>2, <2>4 DEF FaultInv
  <2>7. \A j \in Caller : ~mcpCall'[j].late => mcpCall'[j] = mcpCall[j]
    BY <1>4, <2>3
  <2>8. QED
    BY <1>1, <2>2, <2>5, <2>6, <2>7 DEF FaultInv
<1>15. AloneInv'
  <2>1. SUFFICES ASSUME ~entangled', ~shared PROVE AloneInv'
    BY <1>1 DEF AloneInv
  <2>2. ~entangled
    BY <1>5, <2>1
  <2>3. ASSUME NEW j \in Caller, j # k, mcpCall[j].pc \in {"first", "second"}, mcpCall[j].on \in open
        PROVE  mcpCall[j].on \in open'
    <3>1. Waits(j) /\ mcpCall[j].on = conn[mcpCall[j].at] /\ mcpCall[j].at \in 1 .. built
      BY <2>1, <2>3 DEF SharedInv, Waits
    <3>2. mcpCall[j].at # mcpCall[k].at
      BY <1>9, <2>1, <2>3, <3>1 DEF SharedInv
    <3>3. conn[mcpCall[j].at] # conn[mcpCall[k].at]
      BY <1>13, <2>3, <3>1, <3>2, ClientsAreApart
    <3>4. QED
      BY <1>5, <2>3, <3>1, <3>3
  <2>4. how = "error" /\ mcpCall[k].kind = "tool" => faults' > IF mcpCall[k].late THEN 0 ELSE 1
    <3>1. SUFFICES ASSUME mcpCall[k].pc = "second" PROVE faults' > IF mcpCall[k].late THEN 0 ELSE 1
      BY <1>3
    <3>2. faults' = faults + 1 /\ (~mcpCall[k].late => faults # 0)
      BY <2>1, <2>2, <3>1 DEF AloneInv, FaultInv
    <3>3. QED
      BY <1>6, <3>2
  <2>5. ASSUME faults' = 0, mcpCall[k].late PROVE LateInv(k)'
    <3>1. faults = 0 /\ mcpCall[k].on \notin open /\ LateInv(k)
      BY <1>6, <2>1, <2>2, <2>5 DEF AloneInv
    <3>2. mcpCall[k].pc = "first" /\ ~mcpCall[k].delivered
      BY <2>1, <2>2, <3>1 DEF AloneInv
    <3>3. mcpCall[k].ran \in Nat
      BY DEF CallRecord
    <3>4. mcpCall[k].ran = 0
      BY <3>2, <3>3 DEF TwiceInv
    <3>5. mcpCall[k].kind \in {"tool", "list"}
      BY DEF CallRecord
    <3>6. QED
      BY <1>3, <1>4, <3>2, <3>4, <3>5 DEF LateInv
  <2>6. \A j \in Caller : j # k => LateInv(j)' = LateInv(j)
    BY <1>4 DEF LateInv
  <2>7. faults' = 0 => faults = 0
    BY <1>6
  <2>8. \A j \in Caller : j # k /\ mcpCall[j].pc = "error" /\ mcpCall[j].kind = "tool" =>
          mcpCall[j].excused \/ faults' > IF mcpCall[j].late THEN 0 ELSE 1
    BY <1>6, <2>1, <2>2 DEF AloneInv
  <2>9. \A j \in Caller : j # k =>
          /\ mcpCall[j].pc = "second" => mcpCall[j].on \in open'
          /\ mcpCall[j].pc = "first" /\ mcpCall[j].delivered => mcpCall[j].on \in open'
    BY <2>1, <2>2, <2>3 DEF AloneInv
  <2>10. QED
    BY <1>4, <2>1, <2>2, <2>4, <2>5, <2>6, <2>7, <2>8, <2>9 DEF AloneInv
<1>16. QED
  BY <1>4, <1>7, <1>8, <1>11, <1>12, <1>14, <1>15

\* The call that closed the connection makes another.
LEMMA CreateKeeps ==
  ASSUME McpInv, NEW k \in Caller, Create(k)
  PROVE  McpInv'
<1> USE DEF McpInv, CallsType
<1>1. /\ mcpCall[k].pc = "creating" /\ made' = made + 1 /\ open' = open \cup {made + 1}
      /\ conn' = [conn EXCEPT ![mcpCall[k].at] = made + 1]
      /\ mcpCall' = [mcpCall EXCEPT ![k].pc = "second", ![k].on = made + 1]
      /\ UNCHANGED <<current, built, catalog, refresh, offers, down, faults, shared, entangled>>
  BY DEF Create
<1>2. made \in Nat /\ made + 1 \in Nat /\ mcpCall[k] \in CallRecord /\ Waits(k) /\ mcpCall[k].at \in Provider
  <2>1. Waits(k)
    BY <1>1 DEF Waits
  <2>2. mcpCall[k].at \in Provider
    BY <2>1, ProvidersAreThere DEF SharedInv
  <2>3. QED
    BY <2>1, <2>2 DEF ProviderType
<1>3. /\ CallsType'
      /\ mcpCall'[k].pc = "second" /\ mcpCall'[k].on = made + 1
      /\ mcpCall'[k].ran = mcpCall[k].ran /\ mcpCall'[k].kind = mcpCall[k].kind
      /\ mcpCall'[k].at = mcpCall[k].at /\ mcpCall'[k].version = mcpCall[k].version
      /\ mcpCall'[k].delivered = mcpCall[k].delivered /\ mcpCall'[k].late = mcpCall[k].late
      /\ \A j \in Caller : j # k => mcpCall'[j] = mcpCall[j]
  <2>1. PICK c : c = [mcpCall[k] EXCEPT !.pc = "second", !.on = made + 1]
    OBVIOUS
  <2>2. c \in CallRecord
    BY <1>2, <2>1 DEF CallRecord, Where
  <2>3. /\ c.pc = "second" /\ c.on = made + 1 /\ c.ran = mcpCall[k].ran /\ c.kind = mcpCall[k].kind
        /\ c.at = mcpCall[k].at /\ c.version = mcpCall[k].version /\ c.delivered = mcpCall[k].delivered
        /\ c.late = mcpCall[k].late
    BY <1>2, <2>1 DEF CallRecord
  <2>4. mcpCall' = [mcpCall EXCEPT ![k] = c]
    BY <1>1, <2>1
  <2>5. QED
    BY <1>1, <2>2, <2>3, <2>4
<1>4. /\ conn' \in [Provider -> Nat] /\ conn'[mcpCall[k].at] = made + 1
      /\ \A p \in Provider : p # mcpCall[k].at => conn'[p] = conn[p]
  BY <1>1, <1>2 DEF ProviderType
<1>5. ProviderType'
  <2>1. \A p \in Provider : conn'[p] <= made + 1
    <3>1. SUFFICES ASSUME NEW p \in Provider PROVE conn'[p] <= made + 1
      OBVIOUS
    <3>2. CASE p = mcpCall[k].at
      BY <1>2, <1>4, <3>2
    <3>3. CASE p # mcpCall[k].at
      BY <1>2, <1>4, <3>3 DEF ProviderType
    <3>4. QED
      BY <3>2, <3>3
  <2>2. Done' = Done
    BY <1>1 DEF Done
  <2>3. open' \subseteq 1 .. made + 1
    BY <1>1, <1>2 DEF ProviderType
  <2>4. QED
    BY <1>1, <1>2, <1>4, <2>1, <2>2, <2>3 DEF ProviderType
<1>6. RefreshInv'
  <2>1. \A r \in Refresher : refresh[r].client \in Nat
    OBVIOUS
  <2>2. QED
    BY <1>1, <1>2, <2>1 DEF RefreshInv
<1>7. TwiceInv'
  BY <1>1, <1>3 DEF TwiceInv
<1>8. \A j \in Caller : (Waits(j)' <=> Waits(j)) /\ mcpCall'[j].at = mcpCall[j].at
                        /\ mcpCall'[j].version = mcpCall[j].version /\ mcpCall'[j].delivered = mcpCall[j].delivered
                        /\ mcpCall'[j].late = mcpCall[j].late
  BY <1>1, <1>3 DEF Waits
<1>9. /\ \A p \in 1 .. built : p \in Provider
      /\ \A p \in Provider : conn[p] \in Nat /\ conn[p] # made + 1
      /\ \A r \in Refresher : refresh[r].client # made + 1
      /\ current \in Provider
  <2>1. \A p \in Provider : conn[p] \in Nat /\ conn[p] <= made
    BY DEF ProviderType
  <2>2. \A r \in Refresher : refresh[r].client \in Nat /\ refresh[r].client <= made
    BY DEF RefreshInv
  <2>3. QED
    BY <1>2, <2>1, <2>2, ProvidersAreThere DEF ProviderType
<1>10. ClientsInv'
  <2>1. \A p, q \in 1 .. built : conn'[p] = conn'[q] => p = q \/ conn'[p] = None
    <3>1. SUFFICES ASSUME NEW p \in 1 .. built, NEW q \in 1 .. built, conn'[p] = conn'[q], p # q
                   PROVE  conn'[p] = None
      OBVIOUS
    <3>2. p # mcpCall[k].at /\ q # mcpCall[k].at
      BY <1>4, <1>9, <3>1
    <3>3. QED
      BY <1>4, <1>9, <3>1, <3>2 DEF ClientsInv
  <2>2. \A r \in Refresher : refresh[r].pc = "built" =>
          refresh[r].client = None \/ \A p \in 1 .. built : refresh[r].client # conn'[p]
    BY <1>4, <1>9 DEF ClientsInv
  <2>3. QED
    BY <1>1, <2>1, <2>2 DEF ClientsInv
<1>11. SharedInv'
  <2>1. ~shared => \A j \in Caller : mcpCall'[j].pc \in {"first", "second"} => mcpCall'[j].on = conn'[mcpCall'[j].at]
    <3>1. SUFFICES ASSUME ~shared, NEW j \in Caller, j # k, mcpCall[j].pc \in {"first", "second"}
                   PROVE  mcpCall[j].on = conn'[mcpCall[j].at]
      BY <1>3, <1>4
    <3>2. Waits(j) /\ mcpCall[j].at \in Provider
      BY <1>9, <3>1 DEF Waits, SharedInv
    <3>3. mcpCall[j].at # mcpCall[k].at /\ mcpCall[j].on = conn[mcpCall[j].at]
      BY <1>2, <3>1, <3>2 DEF SharedInv
    <3>4. QED
      BY <1>4, <3>2, <3>3
  <2>2. QED
    BY <1>1, <1>8, <2>1 DEF SharedInv
<1>12. UseInv'
  <2>1. SUFFICES ASSUME ~entangled PROVE UseInv'
    BY <1>1 DEF UseInv
  <2>2. conn[mcpCall[k].at] \notin open /\ (~mcpCall[k].late => mcpCall[k].at = current /\ ~down)
    BY <1>1, <1>2, <2>1 DEF UseInv
  <2>3. \A j \in Caller : mcpCall'[j].pc = "creating" =>
          mcpCall[j].pc = "creating" /\ mcpCall[j].at # mcpCall[k].at /\ mcpCall[j].at \in Provider
    <3>1. SUFFICES ASSUME NEW j \in Caller, mcpCall'[j].pc = "creating"
                   PROVE  mcpCall[j].pc = "creating" /\ mcpCall[j].at # mcpCall[k].at /\ mcpCall[j].at \in Provider
      OBVIOUS
    <3>2. j # k /\ mcpCall[j].pc = "creating"
      BY <1>3, <3>1
    <3>3. QED
      BY <1>1, <1>9, <2>1, <3>2 DEF UseInv, SharedInv, Waits
  <2>4. \A j \in Caller : mcpCall'[j].pc = "creating" => conn'[mcpCall'[j].at] \notin open'
    <3>1. SUFFICES ASSUME NEW j \in Caller, mcpCall'[j].pc = "creating"
                   PROVE  conn'[mcpCall[j].at] \notin open'
      BY <1>8
    <3>2. conn'[mcpCall[j].at] = conn[mcpCall[j].at] /\ conn[mcpCall[j].at] # made + 1
      BY <1>4, <1>9, <2>3, <3>1
    <3>3. QED
      BY <1>1, <2>1, <2>3, <3>1, <3>2 DEF UseInv
  <2>5. ASSUME NEW c \in open'
        PROVE  \/ ~down /\ c = conn'[current]
               \/ \E r \in Refresher : refresh[r].pc = "built" /\ refresh[r].client = c
               \/ \E j \in Caller : mcpCall'[j].late /\ c = conn'[mcpCall'[j].at]
    <3>1. CASE c = made + 1
      BY <1>4, <1>8, <2>2, <3>1
    <3>2. CASE c \in open /\ ~down /\ c = conn[current]
      BY <1>4, <1>9, <2>2, <3>2
    <3>3. CASE \E r \in Refresher : refresh[r].pc = "built" /\ refresh[r].client = c
      BY <3>3
    <3>4. ASSUME NEW j \in Caller, c \in open, mcpCall[j].late, c = conn[mcpCall[j].at]
          PROVE  mcpCall'[j].late /\ c = conn'[mcpCall'[j].at]
      <4>1. mcpCall[j].at \in Provider /\ mcpCall[j].at # mcpCall[k].at
        BY <1>9, <2>2, <3>4 DEF SharedInv
      <4>2. QED
        BY <1>4, <1>8, <3>4, <4>1
    <3>5. c = made + 1 \/ c \in open
      BY <1>1, <2>5
    <3>6. c \in open => \/ ~down /\ c = conn[current]
                        \/ \E r \in Refresher : refresh[r].pc = "built" /\ refresh[r].client = c
                        \/ \E j \in Caller : mcpCall[j].late /\ c = conn[mcpCall[j].at]
      BY <2>1 DEF UseInv
    <3>7. QED
      BY <3>1, <3>2, <3>3, <3>4, <3>5, <3>6
  <2>6. \A j \in Caller : Waits(j)' /\ ~mcpCall'[j].late => mcpCall'[j].at = current /\ ~down
    BY <1>8, <2>1 DEF UseInv
  <2>7. \A i, j \in Caller :
          mcpCall'[i].pc = "creating" /\ mcpCall'[j].pc = "creating" /\ mcpCall'[i].at = mcpCall'[j].at => i = j
    BY <1>8, <2>1, <2>3 DEF UseInv
  <2>8. refresh' = refresh /\ current' = current /\ down' = down /\ \A r \in Refresher : Busy(r)' <=> Busy(r)
    BY <1>1 DEF Busy
  <2>9. /\ \A r \in Refresher : Busy(r)' => refresh'[r].previous = current' /\ ~down'
        /\ \A q, r \in Refresher : Busy(q)' /\ Busy(r)' => q = r
    BY <2>1, <2>8 DEF UseInv
  <2>10. \A c \in open' : \/ ~down' /\ c = conn'[current']
                          \/ \E r \in Refresher : refresh'[r].pc = "built" /\ refresh'[r].client = c
                          \/ \E j \in Caller : mcpCall'[j].late /\ c = conn'[mcpCall'[j].at]
    BY <2>5, <2>8
  <2>11. \A j \in Caller : Waits(j)' /\ ~mcpCall'[j].late => mcpCall'[j].at = current' /\ ~down'
    BY <2>6, <2>8
  <2>12. QED
    BY <2>4, <2>7, <2>9, <2>10, <2>11 DEF UseInv
<1>13. FaultInv'
  <2>1. SUFFICES ASSUME ~entangled, faults = 0 PROVE FaultInv'
    BY <1>1 DEF FaultInv
  <2>2. mcpCall[k].late
    BY <1>1, <2>1 DEF FaultInv
  <2>3. conn'[current] = conn[current]
    <3>1. mcpCall[k].at \in Nat /\ current \in Nat /\ mcpCall[k].at < current
      BY <1>2, <2>2, ProvidersAreThere DEF SharedInv, ProviderType
    <3>2. QED
      BY <1>4, <1>9, <3>1
  <2>4. \A j \in Caller : ~mcpCall'[j].late => mcpCall'[j] = mcpCall[j]
    BY <1>3, <2>2
  <2>5. QED
    BY <1>1, <2>1, <2>3, <2>4 DEF FaultInv
<1>14. AloneInv'
  <2>1. SUFFICES ASSUME ~entangled, ~shared PROVE AloneInv'
    BY <1>1 DEF AloneInv
  <2>2. ASSUME faults = 0, mcpCall[k].late PROVE LateInv(k)'
    <3>1. LateInv(k)
      BY <2>1, <2>2 DEF AloneInv
    <3>2. mcpCall[k].ran = 0 /\ ~mcpCall[k].delivered
      BY <1>1, <3>1 DEF LateInv, TwiceInv
    <3>3. QED
      BY <1>3, <3>2 DEF LateInv
  <2>3. \A j \in Caller : j # k => LateInv(j)' = LateInv(j)
    BY <1>3 DEF LateInv
  <2>4. QED
    BY <1>1, <1>3, <1>8, <2>1, <2>2, <2>3 DEF AloneInv
<1>15. QED
  BY <1>3, <1>5, <1>6, <1>7, <1>10, <1>11, <1>12, <1>13, <1>14

\* A call ends with an error of its own.
LEMMA GiveUpKeeps ==
  ASSUME McpInv, NEW k \in Caller, GiveUp(k)
  PROVE  McpInv'
<1> USE DEF McpInv, CallsType
<1>1. /\ Waits(k) /\ faults' = faults + 1
      /\ mcpCall' = [mcpCall EXCEPT ![k].pc = "error", ![k].excused = TRUE]
      /\ UNCHANGED <<conn, current, built, open, made, catalog, refresh, offers, down, shared, entangled>>
  BY DEF GiveUp, Fault
<1>2. faults \in Nat /\ mcpCall[k] \in CallRecord
  BY DEF ProviderType
<1>3. /\ CallsType'
      /\ mcpCall'[k].pc = "error" /\ mcpCall'[k].excused = TRUE
      /\ mcpCall'[k].ran = mcpCall[k].ran /\ mcpCall'[k].kind = mcpCall[k].kind
      /\ mcpCall'[k].version = mcpCall[k].version /\ mcpCall'[k].late = mcpCall[k].late
      /\ mcpCall'[k].at = mcpCall[k].at
      /\ \A j \in Caller : j # k => mcpCall'[j] = mcpCall[j]
  <2>1. PICK c : c = [mcpCall[k] EXCEPT !.pc = "error", !.excused = TRUE]
    OBVIOUS
  <2>2. c \in CallRecord
    BY <1>2, <2>1 DEF CallRecord, Where
  <2>3. /\ c.pc = "error" /\ c.excused = TRUE /\ c.ran = mcpCall[k].ran /\ c.kind = mcpCall[k].kind
        /\ c.version = mcpCall[k].version /\ c.late = mcpCall[k].late /\ c.at = mcpCall[k].at
    BY <1>2, <2>1 DEF CallRecord
  <2>4. mcpCall' = [mcpCall EXCEPT ![k] = c]
    BY <1>1, <2>1
  <2>5. QED
    BY <1>1, <2>2, <2>3, <2>4
<1>4. ProviderType' /\ RefreshInv' /\ ClientsInv'
  BY <1>1, <1>2 DEF ProviderType, RefreshInv, ClientsInv, Done
<1>5. TwiceInv'
  BY <1>1, <1>3 DEF TwiceInv
<1>6. \A j \in Caller : Waits(j)' => Waits(j) /\ mcpCall'[j] = mcpCall[j]
  BY <1>3 DEF Waits
<1>7. \A j \in Caller :
        /\ mcpCall'[j].late = mcpCall[j].late /\ mcpCall'[j].at = mcpCall[j].at
        /\ mcpCall'[j].pc \in {"first", "second", "creating"} => mcpCall'[j] = mcpCall[j]
  BY <1>3
<1>8. SharedInv'
  BY <1>1, <1>6, <1>7 DEF SharedInv
<1>9. UseInv'
  BY <1>1, <1>6, <1>7 DEF UseInv, Busy
<1>10. FaultInv'
  BY <1>1, <1>2 DEF FaultInv
<1>11. AloneInv'
  BY <1>1, <1>2, <1>3 DEF AloneInv
<1>12. QED
  BY <1>3, <1>4, <1>5, <1>8, <1>9, <1>10, <1>11

\* A refresh begins.
LEMMA BeginRefreshKeeps ==
  ASSUME McpInv, NEW r \in Refresher, BeginRefresh(r)
  PROVE  McpInv'
<1> USE DEF McpInv, CallsType
<1>1. /\ refresh[r].pc = "idle"
      /\ refresh' = [refresh EXCEPT ![r].pc = "building", ![r].previous = current]
      /\ entangled' = (entangled \/ down \/ \E q \in Refresher : Busy(q))
      /\ UNCHANGED <<conn, current, built, open, made, catalog, mcpCall, offers, down, faults, shared>>
  BY DEF BeginRefresh, Busy
<1>2. current \in Nat /\ refresh[r] \in [pc : Stage, previous : Nat, client : Nat, version : Nat]
  BY ProvidersAreThere DEF ProviderType
<1>3. /\ CallsType'
      /\ refresh'[r].pc = "building" /\ refresh'[r].previous = current
      /\ refresh'[r].client = refresh[r].client /\ refresh'[r].version = refresh[r].version
      /\ \A q \in Refresher : q # r => refresh'[q] = refresh[q]
  <2>1. PICK c : c = [refresh[r] EXCEPT !.pc = "building", !.previous = current]
    OBVIOUS
  <2>2. /\ c \in [pc : Stage, previous : Nat, client : Nat, version : Nat]
        /\ c.pc = "building" /\ c.previous = current
        /\ c.client = refresh[r].client /\ c.version = refresh[r].version
    BY <1>2, <2>1 DEF Stage
  <2>3. refresh' = [refresh EXCEPT ![r] = c]
    BY <1>1, <2>1
  <2>4. QED
    BY <1>1, <2>2, <2>3
<1>4. ProviderType'
  <2>1. Done' = Done
    BY <1>1, <1>3 DEF Done
  <2>2. QED
    BY <1>1, <2>1 DEF ProviderType
<1>5. RefreshInv' /\ ClientsInv'
  BY <1>1, <1>3 DEF RefreshInv, ClientsInv
<1>6. TwiceInv' /\ SharedInv'
  BY <1>1 DEF TwiceInv, SharedInv, Waits
<1>7. UseInv'
  <2>1. SUFFICES ASSUME ~entangled' PROVE UseInv'
    BY DEF UseInv
  <2>2. ~entangled /\ ~down /\ \A q \in Refresher : ~Busy(q)
    BY <1>1, <2>1
  <2>3. \A q \in Refresher : Busy(q)' => q = r
    BY <1>3, <2>2 DEF Busy
  <2>4. \A c \in open : (~down /\ c = conn[current]) \/ \E k \in Caller : mcpCall[k].late /\ c = conn[mcpCall[k].at]
    BY <2>2 DEF UseInv, Busy
  <2>5. \A k \in Caller : Waits(k)' <=> Waits(k)
    BY <1>1 DEF Waits
  <2>6. QED
    BY <1>1, <1>3, <2>2, <2>3, <2>4, <2>5 DEF UseInv
<1>8. FaultInv'
  BY <1>1, <1>3 DEF FaultInv
<1>9. AloneInv'
  BY <1>1 DEF AloneInv, LateInv
<1>10. QED
  BY <1>3, <1>4, <1>5, <1>6, <1>7, <1>8, <1>9

\* A refresh has connected, or could not.
LEMMA ConnectKeeps ==
  ASSUME McpInv, NEW r \in Refresher, Connect(r)
  PROVE  McpInv'
<1> USE DEF McpInv, CallsType
<1>1. /\ refresh[r].pc = "building"
      /\ UNCHANGED <<conn, current, built, catalog, mcpCall, offers, down, shared, entangled>>
  BY DEF Connect
<1>2. made \in Nat /\ made + 1 \in Nat /\ offers \in Nat /\ faults \in Nat /\ refresh[r].client = None
      /\ refresh[r] \in [pc : Stage, previous : Nat, client : Nat, version : Nat]
  BY <1>1 DEF ProviderType, RefreshInv
<1>3. PICK c : /\ refresh' = [refresh EXCEPT ![r] = c]
               /\ c \in [pc : Stage, previous : Nat, client : Nat, version : Nat]
               /\ c.pc = "built" /\ c.previous = refresh[r].previous
               /\ \/ made' = made + 1 /\ open' = open \cup {made + 1} /\ c.client = made + 1
                  \/ made' = made /\ open' = open /\ c.client = None /\ faults' = faults + 1
               /\ c.version <= offers
               /\ faults' \in {faults, faults + 1}
  <2>1. CASE /\ made' = made + 1 /\ open' = open \cup {made'} /\ faults' = faults
             /\ refresh' = [refresh EXCEPT ![r] = [@ EXCEPT !.pc = "built", !.client = made', !.version = offers]]
    <3>1. PICK c : c = [refresh[r] EXCEPT !.pc = "built", !.client = made + 1, !.version = offers]
      OBVIOUS
    <3>2. /\ c \in [pc : Stage, previous : Nat, client : Nat, version : Nat]
          /\ c.pc = "built" /\ c.previous = refresh[r].previous /\ c.client = made + 1 /\ c.version = offers
      BY <1>2, <3>1 DEF Stage
    <3>3. refresh' = [refresh EXCEPT ![r] = c]
      BY <2>1, <3>1
    <3>4. c.version <= offers
      BY <1>2, <3>2
    <3>5. QED
      BY <2>1, <3>2, <3>3, <3>4
  <2>2. CASE /\ made' = made + 1 /\ open' = open \cup {made'} /\ faults' = faults + 1
             /\ refresh' = [refresh EXCEPT ![r].pc = "built", ![r].client = made']
    <3>1. PICK c : c = [refresh[r] EXCEPT !.pc = "built", !.client = made + 1]
      OBVIOUS
    <3>2. /\ c \in [pc : Stage, previous : Nat, client : Nat, version : Nat]
          /\ c.pc = "built" /\ c.previous = refresh[r].previous /\ c.client = made + 1
          /\ c.version = refresh[r].version
      BY <1>2, <3>1 DEF Stage
    <3>3. refresh' = [refresh EXCEPT ![r] = c]
      BY <2>2, <3>1
    <3>4. refresh[r].version <= offers
      BY DEF RefreshInv
    <3>5. QED
      BY <1>2, <2>2, <3>2, <3>3, <3>4
  <2>3. CASE /\ UNCHANGED <<made, open>> /\ faults' = faults + 1
             /\ refresh' = [refresh EXCEPT ![r].pc = "built"]
    <3>1. PICK c : c = [refresh[r] EXCEPT !.pc = "built"]
      OBVIOUS
    <3>2. /\ c \in [pc : Stage, previous : Nat, client : Nat, version : Nat]
          /\ c.pc = "built" /\ c.previous = refresh[r].previous /\ c.client = refresh[r].client
          /\ c.version = refresh[r].version
      BY <1>2, <3>1 DEF Stage
    <3>3. refresh' = [refresh EXCEPT ![r] = c]
      BY <2>3, <3>1
    <3>4. refresh[r].version <= offers
      BY DEF RefreshInv
    <3>5. QED
      BY <1>2, <2>3, <3>2, <3>3, <3>4
  <2>4. QED
    BY <2>1, <2>2, <2>3 DEF Connect, Fault
<1>4. /\ CallsType' /\ refresh'[r] = c /\ \A q \in Refresher : q # r => refresh'[q] = refresh[q]
  BY <1>1, <1>3
<1>5. made' \in Nat /\ faults' \in Nat /\ made' >= made /\ open \subseteq open' /\ open' \subseteq 1 .. made'
  <2>1. open \subseteq 1 .. made
    BY DEF ProviderType
  <2>2. CASE made' = made + 1 /\ open' = open \cup {made + 1}
    BY <1>2, <1>3, <2>1, <2>2
  <2>3. CASE made' = made /\ open' = open
    BY <1>2, <1>3, <2>1, <2>3
  <2>4. QED
    BY <1>3, <2>2, <2>3
<1>6. ProviderType'
  <2>1. Done' = Done
    BY <1>1, <1>3, <1>4 DEF Done
  <2>2. \A p \in Provider : conn[p] <= made'
    BY <1>2, <1>5 DEF ProviderType
  <2>3. QED
    BY <1>1, <1>5, <2>1, <2>2 DEF ProviderType
<1>7. RefreshInv'
  <2>1. \A q \in Refresher : refresh[q].client \in Nat
    OBVIOUS
  <2>2. c.client <= made'
    BY <1>2, <1>3, <1>5 DEF None
  <2>3. QED
    BY <1>1, <1>2, <1>3, <1>4, <1>5, <2>1, <2>2 DEF RefreshInv
<1>8. TwiceInv' /\ SharedInv'
  BY <1>1 DEF TwiceInv, SharedInv, Waits
<1>9. /\ \A p \in 1 .. built : p \in Provider /\ conn[p] \in Nat /\ conn[p] <= made
      /\ \A q \in Refresher : refresh[q].client \in Nat /\ refresh[q].client <= made
      /\ current \in 1 .. built
  <2>1. \A p \in 1 .. built : p \in Provider
    BY ProvidersAreThere
  <2>2. current \in 1 .. built
    BY ProvidersAreThere DEF ProviderType, Provider
  <2>3. QED
    BY <2>1, <2>2 DEF ProviderType, RefreshInv
<1>10. ClientsInv'
  <2>1. c.client = None \/ (c.client = made + 1 /\ c.client # None)
    BY <1>2, <1>3 DEF None
  <2>2. /\ \A p \in 1 .. built : made + 1 # conn[p]
        /\ \A q \in Refresher : made + 1 # refresh[q].client
    BY <1>2, <1>9
  <2>3. \A q \in Refresher : refresh'[q].pc = "built" =>
          refresh'[q].client = None \/ \A p \in 1 .. built : refresh'[q].client # conn[p]
    BY <1>4, <2>1, <2>2 DEF ClientsInv
  <2>4. \A p, q \in Refresher :
          refresh'[p].pc = "built" /\ refresh'[q].pc = "built" /\ refresh'[p].client = refresh'[q].client =>
            p = q \/ refresh'[q].client = None
    BY <1>4, <2>1, <2>2 DEF ClientsInv
  <2>5. QED
    BY <1>1, <2>3, <2>4 DEF ClientsInv
<1>11. UseInv'
  <2>1. SUFFICES ASSUME ~entangled PROVE UseInv'
    BY <1>1 DEF UseInv
  <2>2. \A q \in Refresher : (Busy(q)' <=> Busy(q)) /\ refresh'[q].previous = refresh[q].previous
    BY <1>1, <1>3, <1>4 DEF Busy
  <2>3. \A k \in Caller : Waits(k)' <=> Waits(k)
    BY <1>1 DEF Waits
  <2>4. \A k \in Caller : mcpCall[k].pc = "creating" => conn[mcpCall[k].at] \notin open'
    <3>1. SUFFICES ASSUME NEW k \in Caller, mcpCall[k].pc = "creating" PROVE conn[mcpCall[k].at] \notin open'
      OBVIOUS
    <3>2. mcpCall[k].at \in 1 .. built /\ conn[mcpCall[k].at] \notin open
      BY <2>1, <3>1 DEF UseInv, SharedInv, Waits
    <3>3. QED
      BY <1>2, <1>3, <1>9, <3>2
  <2>5. \A d \in open' : \/ ~down /\ d = conn[current]
                         \/ \E q \in Refresher : refresh'[q].pc = "built" /\ refresh'[q].client = d
                         \/ \E k \in Caller : mcpCall[k].late /\ d = conn[mcpCall[k].at]
    <3>1. SUFFICES ASSUME NEW d \in open', d \in open
                   PROVE  \/ ~down /\ d = conn[current]
                          \/ \E q \in Refresher : refresh'[q].pc = "built" /\ refresh'[q].client = d
                          \/ \E k \in Caller : mcpCall[k].late /\ d = conn[mcpCall[k].at]
      BY <1>3, <1>4
    <3>2. QED
      BY <1>1, <1>4, <2>1, <3>1 DEF UseInv
  <2>6. QED
    BY <1>1, <2>1, <2>2, <2>3, <2>4, <2>5 DEF UseInv
<1>12. FaultInv'
  <2>1. SUFFICES ASSUME ~entangled, faults' = 0 PROVE FaultInv'
    BY <1>1 DEF FaultInv
  <2>2. faults = 0 /\ c.client \in open'
    BY <1>2, <1>3, <2>1
  <2>3. QED
    BY <1>1, <1>3, <1>4, <1>5, <2>1, <2>2 DEF FaultInv
<1>13. AloneInv'
  <2>1. faults' >= faults /\ (faults' = 0 => faults = 0)
    BY <1>2, <1>3
  <2>2. \A k \in Caller : LateInv(k)' = LateInv(k)
    BY <1>1 DEF LateInv
  <2>3. \A k \in Caller : faults > (IF mcpCall[k].late THEN 0 ELSE 1) => faults' > IF mcpCall[k].late THEN 0 ELSE 1
    BY <1>2, <1>3
  <2>4. QED
    BY <1>1, <1>5, <2>1, <2>2, <2>3 DEF AloneInv
<1>14. QED
  BY <1>4, <1>6, <1>7, <1>8, <1>10, <1>11, <1>12, <1>13

\* A refresh replaces the provider, whose client is closed, and no call's catalog is older.
LEMMA InstallKeeps ==
  ASSUME McpInv, NEW r \in Refresher, Install(r)
  PROVE  McpInv' /\ \A p \in Provider : catalog'[p] >= catalog[p]
<1> USE DEF McpInv, CallsType
<1>1. /\ refresh[r].pc = "built" /\ built' = built + 1 /\ current' = built + 1
      /\ conn' = [conn EXCEPT ![built + 1] = refresh[r].client]
      /\ catalog' = [catalog EXCEPT ![built + 1] = refresh[r].version]
      /\ open' = open \ {conn[refresh[r].previous]}
      /\ entangled' = (entangled \/ UsersOf(refresh[r].previous) # {})
      /\ refresh' = [refresh EXCEPT ![r].pc = "done"]
      /\ UNCHANGED <<made, mcpCall, offers, down, faults, shared>>
  BY DEF Install, WithoutClientOf
<1>2. /\ Provider \subseteq Nat /\ built \in Provider /\ built + 1 \in Provider /\ built \in Nat
      /\ refresh[r].client \in Nat /\ refresh[r].version \in Nat /\ made \in Nat /\ offers \in Nat
      /\ refresh[r].client <= made /\ refresh[r].version <= offers
      /\ current = built
  BY <1>1, ProvidersAreThere DEF ProviderType, RefreshInv
<1>3. /\ conn' \in [Provider -> Nat] /\ catalog' \in [Provider -> Nat]
      /\ conn'[built + 1] = refresh[r].client /\ catalog'[built + 1] = refresh[r].version
      /\ \A p \in Provider : p # built + 1 => conn'[p] = conn[p] /\ catalog'[p] = catalog[p]
  BY <1>1, <1>2 DEF ProviderType
<1>4. /\ CallsType'
      /\ refresh'[r].pc = "done" /\ refresh'[r].client = refresh[r].client
      /\ refresh'[r].version = refresh[r].version
      /\ \A q \in Refresher : q # r => refresh'[q] = refresh[q]
  <2>1. PICK c : c = [refresh[r] EXCEPT !.pc = "done"]
    OBVIOUS
  <2>2. /\ c \in [pc : Stage, previous : Nat, client : Nat, version : Nat]
        /\ c.pc = "done" /\ c.client = refresh[r].client /\ c.version = refresh[r].version
    BY <1>1, <2>1 DEF Stage
  <2>3. refresh' = [refresh EXCEPT ![r] = c]
    BY <1>1, <2>1
  <2>4. QED
    BY <1>1, <2>2, <2>3
<1>5. ProviderType'
  <2>1. Done' = Done \cup {r} /\ r \notin Done
    BY <1>1, <1>4 DEF Done
  <2>2. Cardinality(Done') = Cardinality(Done) + 1
    BY <2>1, ProvidersAreThere, FS_AddElement
  <2>3. built' = 1 + Cardinality(Done')
    BY <1>1, <2>2, ProvidersAreThere DEF ProviderType
  <2>4. \A p \in Provider : conn'[p] <= made /\ catalog'[p] <= offers /\ (p > built + 1 => catalog'[p] = 0)
    <3>1. SUFFICES ASSUME NEW p \in Provider
                   PROVE  conn'[p] <= made /\ catalog'[p] <= offers /\ (p > built + 1 => catalog'[p] = 0)
      OBVIOUS
    <3>2. p \in Nat
      BY <1>2
    <3>3. CASE p = built + 1
      BY <1>2, <1>3, <3>3
    <3>4. CASE p # built + 1
      BY <1>2, <1>3, <3>2, <3>4 DEF ProviderType
    <3>5. QED
      BY <3>3, <3>4
  <2>5. QED
    BY <1>1, <1>3, <2>3, <2>4 DEF ProviderType
<1>6. RefreshInv'
  BY <1>1, <1>4 DEF RefreshInv
<1>7. TwiceInv'
  BY <1>1 DEF TwiceInv
<1>8. \A k \in Caller : (Waits(k)' <=> Waits(k)) /\ mcpCall'[k] = mcpCall[k]
  BY <1>1 DEF Waits
<1>9. /\ current \in 1 .. built /\ \A p \in 1 .. built : p \in Provider /\ p # built + 1 /\ p \in 1 .. built + 1
      /\ \A p \in 1 .. built + 1 : p = built + 1 \/ p \in 1 .. built
  BY <1>2, ProvidersAreThere DEF Provider
<1>10. SharedInv'
  <2>1. \A k \in Caller : Waits(k) \/ mcpCall[k].late => mcpCall[k].at \in 1 .. built
    BY DEF SharedInv
  <2>2. \A k \in Caller : Waits(k) => catalog'[mcpCall[k].at] = catalog[mcpCall[k].at]
                                      /\ conn'[mcpCall[k].at] = conn[mcpCall[k].at]
    BY <1>3, <1>9, <2>1
  <2>3. \A k \in Caller : mcpCall[k].late => mcpCall[k].at < built + 1
    BY <1>2, <2>1
  <2>4. \A k \in Caller : mcpCall[k].pc \in {"first", "second"} => Waits(k)
    BY DEF Waits
  <2>5. QED
    BY <1>1, <1>8, <1>9, <2>1, <2>2, <2>3, <2>4 DEF SharedInv
<1>11. ClientsInv'
  <2>1. refresh[r].client = None \/ \A p \in 1 .. built : refresh[r].client # conn[p]
    BY <1>1 DEF ClientsInv
  <2>2. \A p, q \in 1 .. built + 1 : conn'[p] = conn'[q] => p = q \/ conn'[p] = None
    <3>1. SUFFICES ASSUME NEW p \in 1 .. built + 1, NEW q \in 1 .. built + 1, conn'[p] = conn'[q], p # q
                   PROVE  conn'[p] = None
      OBVIOUS
    <3>2. CASE p \in 1 .. built /\ q \in 1 .. built
      BY <1>3, <1>9, <3>1, <3>2 DEF ClientsInv
    <3>3. CASE p = built + 1 /\ q \in 1 .. built
      BY <1>3, <1>9, <2>1, <3>1, <3>3
    <3>4. CASE q = built + 1 /\ p \in 1 .. built
      BY <1>3, <1>9, <2>1, <3>1, <3>4
    <3>5. QED
      BY <1>9, <3>1, <3>2, <3>3, <3>4
  <2>3. ASSUME NEW q \in Refresher, refresh'[q].pc = "built"
        PROVE  refresh'[q].client = None \/ \A p \in 1 .. built + 1 : refresh'[q].client # conn'[p]
    <3>1. q # r /\ refresh'[q] = refresh[q] /\ refresh[q].pc = "built"
      BY <1>4, <2>3
    <3>2. refresh[q].client = None \/ refresh[q].client # refresh[r].client
      BY <1>1, <3>1 DEF ClientsInv
    <3>3. refresh[q].client = None \/ \A p \in 1 .. built : refresh[q].client # conn[p]
      BY <3>1 DEF ClientsInv
    <3>4. QED
      BY <1>3, <1>9, <3>1, <3>2, <3>3
  <2>4. \A p, q \in Refresher :
          refresh'[p].pc = "built" /\ refresh'[q].pc = "built" /\ refresh'[p].client = refresh'[q].client =>
            p = q \/ refresh'[q].client = None
    BY <1>4 DEF ClientsInv
  <2>5. QED
    BY <1>1, <2>2, <2>3, <2>4 DEF ClientsInv
<1>12. ASSUME ~entangled'
       PROVE  /\ ~entangled /\ ~down /\ refresh[r].previous = current /\ current \in Provider
              /\ \A k \in Caller : Waits(k) => mcpCall[k].late
              /\ \A q \in Refresher : ~Busy(q)'
  <2>1. ~entangled /\ UsersOf(refresh[r].previous) = {} /\ Busy(r)
    BY <1>1, <1>12 DEF Busy
  <2>2. refresh[r].previous = current /\ ~down
    BY <2>1 DEF UseInv
  <2>3. \A k \in Caller : Waits(k) => mcpCall[k].late
    BY <2>1, <2>2 DEF UseInv, UsersOf
  <2>4. \A q \in Refresher : Busy(q) => q = r
    BY <2>1 DEF UseInv
  <2>5. \A q \in Refresher : ~Busy(q)'
    BY <1>4, <2>4 DEF Busy
  <2>6. QED
    BY <1>2, <2>1, <2>2, <2>3, <2>5
<1>13. \A k \in Caller : mcpCall[k].late =>
         /\ mcpCall[k].at \in 1 .. built /\ mcpCall[k].at # current
         /\ conn'[mcpCall[k].at] = conn[mcpCall[k].at]
  <2>1. \A k \in Caller : mcpCall[k].late => mcpCall[k].at \in 1 .. built /\ mcpCall[k].at < current
    BY DEF SharedInv
  <2>2. QED
    BY <1>2, <1>3, <1>9, <2>1
<1>14. UseInv'
  <2>1. SUFFICES ASSUME ~entangled' PROVE UseInv'
    BY DEF UseInv
  <2>2. \A c \in open' : c = conn'[current'] \/ \E k \in Caller : mcpCall'[k].late /\ c = conn'[mcpCall'[k].at]
    <3>1. SUFFICES ASSUME NEW c \in open', ~ \E k \in Caller : mcpCall[k].late /\ c = conn[mcpCall[k].at]
                   PROVE  c = refresh[r].client
      BY <1>1, <1>3, <1>8, <1>13
    <3>2. c \in open /\ c # conn[current]
      BY <1>1, <1>12, <2>1
    <3>3. PICK q \in Refresher : refresh[q].pc = "built" /\ refresh[q].client = c
      BY <1>12, <2>1, <3>1, <3>2 DEF UseInv
    <3>4. q = r
      BY <1>1, <1>12, <2>1, <3>3 DEF UseInv, Busy
    <3>5. QED
      BY <3>3, <3>4
  <2>3. \A k \in Caller : mcpCall[k].pc = "creating" => mcpCall[k].late /\ conn'[mcpCall[k].at] \notin open'
    <3>1. SUFFICES ASSUME NEW k \in Caller, mcpCall[k].pc = "creating"
                   PROVE  mcpCall[k].late /\ conn'[mcpCall[k].at] \notin open'
      OBVIOUS
    <3>2. mcpCall[k].late /\ conn[mcpCall[k].at] \notin open
      BY <1>12, <2>1, <3>1 DEF UseInv, Waits
    <3>3. QED
      BY <1>1, <1>13, <3>2
  <2>4. \A k \in Caller : Waits(k)' => mcpCall'[k].late
    BY <1>8, <1>12, <2>1
  <2>5. \A j, k \in Caller : mcpCall'[j].pc = "creating" /\ mcpCall'[k].pc = "creating"
                             /\ mcpCall'[j].at = mcpCall'[k].at => j = k
    BY <1>1, <1>12, <2>1 DEF UseInv
  <2>6. QED
    BY <1>1, <1>8, <1>12, <2>1, <2>2, <2>3, <2>4, <2>5 DEF UseInv
<1>15. FaultInv'
  <2>1. SUFFICES ASSUME ~entangled', faults = 0 PROVE FaultInv'
    BY <1>1 DEF FaultInv
  <2>2. refresh[r].client \in open /\ refresh[r].client # conn[current]
    <3>1. refresh[r].client \in open
      BY <1>1, <1>12, <2>1 DEF FaultInv
    <3>2. QED
      BY <1>1, <1>9, <3>1, ClientIsNew
  <2>3. conn'[current'] \in open'
    BY <1>1, <1>3, <1>12, <2>1, <2>2
  <2>4. \A q \in Refresher : refresh'[q].pc # "built"
    BY <1>12, <2>1 DEF Busy
  <2>5. /\ \A k \in Caller : ~mcpCall'[k].late => mcpCall'[k].pc \in {"idle", "first", "ok"} /\ mcpCall'[k].ran <= 1
        /\ \A k \in Caller : ~mcpCall'[k].late => mcpCall'[k].pc # "first"
    BY <1>1, <1>12, <2>1 DEF FaultInv, Waits
  <2>6. QED
    BY <2>3, <2>4, <2>5 DEF FaultInv
<1>16. AloneInv'
  <2>1. SUFFICES ASSUME ~entangled', ~shared PROVE AloneInv'
    BY <1>1 DEF AloneInv
  <2>2. ASSUME NEW k \in Caller, mcpCall[k].pc \in {"first", "second"}, mcpCall[k].on \in open
        PROVE  mcpCall[k].on \in open'
    <3>1. Waits(k) /\ mcpCall[k].late /\ mcpCall[k].on = conn[mcpCall[k].at]
      BY <1>12, <2>1, <2>2 DEF SharedInv, Waits
    <3>2. conn[mcpCall[k].at] # conn[current]
      BY <1>9, <1>13, <2>2, <3>1, ClientsAreApart
    <3>3. QED
      BY <1>1, <1>12, <2>1, <2>2, <3>1, <3>2
  <2>3. \A k \in Caller : LateInv(k)' = LateInv(k)
    BY <1>1 DEF LateInv
  <2>4. QED
    BY <1>1, <1>12, <2>1, <2>2, <2>3 DEF AloneInv
<1>17. \A p \in Provider : catalog'[p] >= catalog[p]
  <2>1. catalog[built + 1] = 0
    BY <1>2 DEF ProviderType
  <2>2. \A p \in Provider : catalog[p] \in Nat
    BY DEF ProviderType
  <2>3. QED
    BY <1>2, <1>3, <2>1, <2>2
<1>18. QED
  BY <1>4, <1>5, <1>6, <1>7, <1>10, <1>11, <1>14, <1>15, <1>16, <1>17

\* The shutdown, and what the server does.
LEMMA OutsideKeeps ==
  ASSUME McpInv, Shutdown \/ ServerChanges \/ UNCHANGED mcpVars
  PROVE  McpInv' /\ catalog' = catalog
<1> USE DEF McpInv, CallsType
<1>1. CASE Shutdown
  <2>1. /\ open' = open \ {conn[current]} /\ down' = TRUE
        /\ entangled' = (entangled \/ UsersOf(current) # {} \/ \E r \in Refresher : Busy(r))
        /\ UNCHANGED <<conn, current, built, made, catalog, mcpCall, refresh, offers, faults, shared>>
    BY <1>1 DEF Shutdown, WithoutClientOf, Busy
  <2>2. CallsType' /\ ProviderType' /\ RefreshInv' /\ TwiceInv' /\ ClientsInv' /\ SharedInv'
    BY <2>1 DEF ProviderType, RefreshInv, TwiceInv, ClientsInv, SharedInv, Done, Waits
  <2>3. ASSUME ~entangled'
        PROVE  /\ ~entangled /\ (\A k \in Caller : Waits(k) => mcpCall[k].late) /\ (\A r \in Refresher : ~Busy(r))
               /\ \A c \in open' : \E k \in Caller : mcpCall[k].late /\ c = conn[mcpCall[k].at]
    <3>1. ~entangled /\ UsersOf(current) = {} /\ \A r \in Refresher : ~Busy(r)
      BY <2>1, <2>3
    <3>2. \A k \in Caller : Waits(k) => mcpCall[k].late
      BY <3>1 DEF UseInv, UsersOf
    <3>3. \A c \in open' : \E k \in Caller : mcpCall[k].late /\ c = conn[mcpCall[k].at]
      BY <2>1, <3>1 DEF UseInv, Busy
    <3>4. QED
      BY <3>1, <3>2, <3>3
  <2>4. UseInv'
    BY <2>1, <2>3 DEF UseInv, Waits, Busy
  <2>5. FaultInv'
    BY <2>1, <2>3 DEF FaultInv, Waits, Busy
  <2>6. AloneInv'
    <3>1. SUFFICES ASSUME ~entangled', ~shared PROVE AloneInv'
      BY <2>1 DEF AloneInv
    <3>2. ASSUME NEW k \in Caller, mcpCall[k].pc \in {"first", "second"}, mcpCall[k].on \in open
          PROVE  mcpCall[k].on \in open'
      <4>1. Waits(k) /\ mcpCall[k].late /\ mcpCall[k].on = conn[mcpCall[k].at]
        BY <2>3, <3>1, <3>2 DEF SharedInv, Waits
      <4>2. /\ mcpCall[k].at \in 1 .. built /\ mcpCall[k].at < current /\ current \in Nat
            /\ current \in 1 .. built
        BY <4>1, ProvidersAreThere DEF SharedInv, ProviderType, Provider
      <4>3. conn[mcpCall[k].at] # conn[current]
        BY <3>2, <4>1, <4>2, ClientsAreApart
      <4>4. QED
        BY <2>1, <3>2, <4>1, <4>3
    <3>3. \A k \in Caller : LateInv(k)' = LateInv(k)
      BY <2>1 DEF LateInv
    <3>4. QED
      BY <2>1, <2>3, <3>1, <3>2, <3>3 DEF AloneInv
  <2>7. QED
    BY <2>1, <2>2, <2>4, <2>5, <2>6
<1>2. CASE ServerChanges
  <2>1. /\ offers' = offers + 1 /\ offers \in Nat
        /\ UNCHANGED <<conn, current, built, open, made, catalog, mcpCall, refresh, down, faults, shared,
                       entangled>>
    BY <1>2 DEF ServerChanges, ProviderType
  <2>2. ProviderType'
    <3>1. \A p \in Provider : catalog[p] <= offers + 1
      BY <2>1 DEF ProviderType
    <3>2. Done' = Done
      BY <2>1 DEF Done
    <3>3. QED
      BY <2>1, <3>1, <3>2 DEF ProviderType
  <2>3. RefreshInv' /\ TwiceInv'
    <3>1. /\ \A r \in Refresher : refresh[r].version \in Nat /\ refresh[r].version <= offers + 1
          /\ \A k \in Caller : mcpCall[k].version \in Nat /\ mcpCall[k].version <= offers + 1
      BY <2>1 DEF RefreshInv, TwiceInv, CallRecord
    <3>2. QED
      BY <2>1, <3>1 DEF RefreshInv, TwiceInv
  <2>4. CallsType' /\ ClientsInv' /\ SharedInv' /\ UseInv' /\ FaultInv' /\ AloneInv'
    BY <2>1 DEF ClientsInv, SharedInv, UseInv, FaultInv, AloneInv, LateInv, Waits, Busy
  <2>5. QED
    BY <2>1, <2>2, <2>3, <2>4
<1>3. CASE UNCHANGED mcpVars
  <2>1. UNCHANGED <<conn, current, built, open, made, catalog, mcpCall, refresh, offers, down, faults, shared,
                    entangled>>
    BY <1>3 DEF mcpVars
  <2>2. CallsType' /\ ProviderType' /\ RefreshInv' /\ TwiceInv' /\ ClientsInv' /\ SharedInv'
    BY <2>1 DEF ProviderType, RefreshInv, TwiceInv, ClientsInv, SharedInv, Done, Waits
  <2>3. UseInv'
    BY <2>1 DEF UseInv, Waits, Busy
  <2>4. FaultInv' /\ AloneInv'
    BY <2>1 DEF FaultInv, AloneInv, LateInv
  <2>5. QED
    BY <2>1, <2>2, <2>3, <2>4
<1>4. QED
  BY <1>1, <1>2, <1>3

\* Every step.
LEMMA McpStep ==
  ASSUME McpInv, [McpNext]_mcpVars
  PROVE  McpInv' /\ (shared \/ \A p \in Provider : catalog'[p] >= catalog[p])
<1>1. \A p \in Provider : catalog[p] \in Nat
  BY DEF McpInv, ProviderType
<1>2. catalog' = catalog => \A p \in Provider : catalog'[p] >= catalog[p]
  BY <1>1
<1>3. ASSUME NEW k \in Caller, NEW kind \in {"tool", "list"}, NEW p \in 1 .. built, Begin(k, kind, p)
      PROVE  McpInv' /\ catalog' = catalog
  BY <1>3, BeginKeepsMcp DEF Begin
<1>4. ASSUME NEW k \in Caller, Works(k)
      PROVE  McpInv' /\ (shared \/ \A p \in Provider : catalog'[p] >= catalog[p])
  <2>1. CASE Deliver(k)
    BY <1>2, <2>1, DeliverKeeps DEF Deliver
  <2>2. CASE Answer(k)
    BY <2>2, AnswerKeeps
  <2>3. CASE Lose(k) \/ Cut(k)
    <3>1. Reject(k) /\ mcpCall[k].pc \in {"first", "second"}
          /\ (faults' = faults + 1 \/ (faults' = faults /\ mcpCall[k].on \notin open))
      BY <2>3 DEF Lose, Cut, Fault
    <3>2. catalog' = catalog
      BY <3>1 DEF Reject
    <3>3. QED
      BY <1>2, <3>1, <3>2, RejectKeeps
  <2>4. CASE Create(k)
    BY <1>2, <2>4, CreateKeeps DEF Create
  <2>5. CASE GiveUp(k)
    BY <1>2, <2>5, GiveUpKeeps DEF GiveUp
  <2>6. QED
    BY <1>4, <2>1, <2>2, <2>3, <2>4, <2>5 DEF Works
<1>5. ASSUME NEW r \in Refresher, BeginRefresh(r) \/ Connect(r)
      PROVE  McpInv' /\ catalog' = catalog
  BY <1>5, BeginRefreshKeeps, ConnectKeeps DEF BeginRefresh, Connect
<1>6. QED
  BY <1>2, <1>3, <1>4, <1>5, InstallKeeps, OutsideKeeps DEF McpNext, Callable

\* Unless a close or a reconnect met another use of the connection, only the provider in use, one
\* about to take over, and one that was replaced and is called late, has a connection open; a call
\* runs at most twice, and twice or with an error only after a fault or, if it began late, at a
\* client it found closed; a catalog does not become older unless calls overlapped: for any calls
\* and refreshes, any faults and any catalogs.
THEOREM Connections == McpSpec => CallsAndConnectionsAgree
<1>1. McpInv /\ [McpNext]_mcpVars =>
        McpInv' /\ [ConnectionsAreAccountedFor' /\ (shared \/ \A p \in Provider : catalog'[p] >= catalog[p])]_mcpVars
  <2>1. SUFFICES ASSUME McpInv, [McpNext]_mcpVars
                 PROVE  McpInv' /\ ConnectionsAreAccountedFor'
                        /\ (shared \/ \A p \in Provider : catalog'[p] >= catalog[p])
    OBVIOUS
  <2>2. McpInv' /\ (shared \/ \A p \in Provider : catalog'[p] >= catalog[p])
    BY <2>1, McpStep
  <2>3. ASSUME ~entangled'
        PROVE  /\ \A c \in open' : \/ ~down' /\ c = conn'[current']
                                   \/ \E r \in Refresher : refresh'[r].pc = "built" /\ refresh'[r].client = c
                                   \/ \E k \in Caller : mcpCall'[k].late /\ c = conn'[mcpCall'[k].at]
               /\ \A k \in Caller : mcpCall'[k].ran > 1 \/ mcpCall'[k].pc = "error" => faults' > 0 \/ FoundClosed(k)'
    <3>1. faults' \in Nat
      BY <2>2 DEF McpInv, ProviderType
    <3>2. ASSUME NEW k \in Caller, mcpCall'[k].ran > 1 \/ mcpCall'[k].pc = "error", faults' = 0
          PROVE  FoundClosed(k)'
      <4>1. mcpCall'[k].ran \in Nat /\ mcpCall'[k].kind \in {"tool", "list"}
        BY <2>2 DEF McpInv, CallsType, CallRecord
      <4>2. mcpCall'[k].late
        BY <2>2, <2>3, <3>2, <4>1 DEF McpInv, FaultInv
      <4>3. CASE ~shared'
        <5>1. LateInv(k)'
          BY <2>2, <2>3, <3>2, <4>2, <4>3 DEF McpInv, AloneInv
        <5>2. QED
          BY <3>2, <4>1, <4>2, <5>1 DEF LateInv, FoundClosed
      <4>4. QED
        BY <4>2, <4>3 DEF FoundClosed
    <3>3. QED
      BY <2>2, <2>3, <3>1, <3>2 DEF McpInv, UseInv
  <2>4. \A k \in Caller :
          /\ mcpCall'[k].ran <= IF mcpCall'[k].kind = "tool" THEN 2 ELSE 1
          /\ mcpCall'[k].pc = "error" /\ mcpCall'[k].kind = "tool" /\ ~entangled' /\ ~shared' =>
               mcpCall'[k].excused \/ faults' > IF mcpCall'[k].late THEN 0 ELSE 1
    BY <2>2 DEF McpInv, TwiceInv, AloneInv
  <2>5. ConnectionsAreAccountedFor'
    BY <2>3, <2>4 DEF ConnectionsAreAccountedFor
  <2>6. QED
    BY <2>2, <2>5
<1>2. QED
  BY McpBegins, <1>1, PTL DEF McpSpec, CallsAndConnectionsAgree

(***************************************************************************)
(* ModelStream.                                                            *)
(***************************************************************************)
\* The id a call is known by, and what is told of it in the end.
KeyOf(c) == IF c \in named THEN Id(c) ELSE CallNumber(c + 1)
HeardOf(c) == [id |-> KeyOf(c), args |-> Arguments(c, sent[c])]

\* What the parser should have of a call that is not completed yet.
KnownOf(c) == [index |-> IndexOf(c), name |-> NameOf(c), args |-> Arguments(c, sent[c])]

\* The calls that are open and not completed yet; those without a name never are.
Unfinished ==
  CASE format = "chat_completions" -> IF stage = "calls" THEN Opened ELSE {}
    [] format = "responses" ->
         {c \in Opened : Id(c) \notin done /\ (c \in nameless \/ stage = "calls" \/ failed # "no")}
    [] format = "messages" -> DOMAIN byIndex
Told == (Opened \ Unfinished) \ nameless

\* A sequence lists the elements of a set, each of them once.
Lists(s, R) ==
  /\ s \in Seq(R)
  /\ \A r \in R : \E i \in DOMAIN s : s[i] = r
  /\ \A i, j \in DOMAIN s : s[i] = s[j] => i = j

-----------------------------------------------------------------------------
(***************************************************************************)
(* The inductive invariant.                                                *)
(***************************************************************************)
\* Each post after the first is there for something that was stripped.
AskedInv ==
  /\ format \in {"chat_completions", "responses", "messages"}
  /\ style \in {"both", "index", "id", "late"} /\ (format # "chat_completions" => style = "both")
  /\ fields \subseteq {"usage", "reasoning"} /\ stripped \subseteq fields
  /\ posts = 1 + (IF "usage" \in stripped THEN 1 ELSE 0) + (IF "reasoning" \in stripped THEN 1 ELSE 0)

WhereInv ==
  /\ streamAt \in {"posting", "reading"}
  /\ streamAt = "posting" => /\ Opened = {} /\ deltas = Nothing /\ failed = "no"
                             /\ completed = <<>> /\ inlined = <<>> /\ stage = "calls"
  /\ stage \in {"calls", "told", "finished"} /\ failed \in {"no", "quiet", "open"}
  /\ renamed \in BOOLEAN /\ broke = FALSE

\* What the provider has sent, and when it names a call.
SentInv ==
  /\ sent \in [ToolCall -> 0 .. Unopened] /\ named \subseteq Opened
  /\ style \in {"both", "id"} => Opened \subseteq named

\* The parser has what was sent of the calls not finished, each under its id and index.
PendingInv ==
  /\ pending = [k \in {KeyOf(c) : c \in Unfinished} |-> pending[k]]
  /\ \A c \in Unfinished : pending[KeyOf(c)] = KnownOf(c)

\* What it knows by index, and by what has been done.
IndexInv ==
  /\ \A c \in DOMAIN byIndex : c \in ToolCall /\ byIndex[c] = Id(c)
  /\ format = "responses" => /\ done \subseteq {Id(c) : c \in Opened \ nameless}
                             /\ Opened \subseteq DOMAIN byIndex
  /\ format = "messages" => /\ DOMAIN byIndex \subseteq Opened
                            /\ byIndex = [c \in DOMAIN byIndex |-> Id(c)]

\* Of the calls it knows by index in messages, the one in the open block may have a name.
BlockInv ==
  format = "messages" => /\ block \subseteq DOMAIN byIndex /\ DOMAIN byIndex \subseteq block \cup nameless
                         /\ \A c, d \in block : c = d

\* The calls completed are told as they were sent, and nothing else is left over.
HeardInv ==
  /\ Lists(completed, {HeardOf(c) : c \in Told})
  /\ ~renamed => DOMAIN deltas \subseteq DOMAIN pending \cup {KeyOf(c) : c \in Opened \cap nameless}

\* As long as the text is looked at, what is kept of it is the beginning of the next call.
TextInv ==
  /\ inText \in Nat /\ buffer \in Nat /\ inlined \in Seq(Nat)
  /\ TextCallsAreTold
  /\ stage = "calls" /\ Opened = {} => buffer \in {0, inText + 1}
  /\ stage = "calls" /\ ~overlooked /\ begun => buffer = inText + 1

\* The reason the provider gave, once it has given one, and the reason kept.
ReasonInv ==
  /\ inlined # <<>> => format = "chat_completions" /\ finish = "tool_calls"
  /\ stage = "calls" => said = NoReason /\ (inlined = <<>> => finish = NoReason)
  /\ stage # "finished" => failed = "no"
  /\ finish = "tool_calls" => inlined # <<>> \/ Opened # {}
  /\ failed = "quiet" => finish = "error" /\ Unfinished = {}
  /\ format = "chat_completions" /\ stage # "calls" => (Opened # {} => finish = "tool_calls")
  /\ format = "responses" /\ said = "stop" => (Opened \ nameless # {} => finish = "tool_calls")
  /\ format = "messages" /\ said = "tool_calls" => finish = "tool_calls"
  /\ said \in {"length", "error"} =>
       finish \in {said, "tool_calls"} \/ (format = "messages" /\ stage = "finished")

StreamGoes ==
  WhereInv /\ SentInv /\ PendingInv /\ IndexInv /\ BlockInv /\ HeardInv /\ TextInv /\ ReasonInv
StreamInv == AskedInv /\ (IF Over THEN StreamTellsItsCalls ELSE StreamGoes)
-----------------------------------------------------------------------------
(***************************************************************************)
(* Sequences that list sets, and the pieces of a call.                     *)
(***************************************************************************)
\* What SetToSeq makes of a set lists it.
LEMMA SetToSeqLists ==
  ASSUME NEW R, IsFiniteSet(R)
  PROVE  Lists(SetToSeq(R), R)
<1> DEFINE n == Cardinality(R)
<1> SUFFICES ASSUME NEW s, s = SetToSeq(R)
             PROVE  Lists(s, R)
  OBVIOUS
<1>1. PICK f : f \in Bijection(1 .. n, R)
  BY FS_CardinalityType DEF ExistsBijection
<1>2. f \in [1 .. n -> R] /\ IsInjective(f)
  BY <1>1 DEF Bijection, Injection, IsInjective
<1>3. s \in [1 .. n -> R] /\ IsInjective(s)
  BY <1>2 DEF SetToSeq
<1>4. n \in Nat
  BY FS_CardinalityType
<1>5. s \in Seq(R)
  BY <1>3, <1>4
<1>6. \A i, j \in DOMAIN s : s[i] = s[j] => i = j
  BY <1>3 DEF IsInjective
<1>7. s \in Injection(1 .. n, R)
  BY <1>3, <1>6 DEF Injection
<1>8. IsFiniteSet(1 .. n) /\ Cardinality(1 .. n) = n
  BY <1>4, FS_Interval
<1>9. s \in Surjection(1 .. n, R)
  BY <1>7, <1>8, FS_Injection
<1>10. \A r \in R : \E i \in DOMAIN s : s[i] = r
  BY <1>3, <1>9 DEF Surjection
<1> QED
  BY <1>5, <1>6, <1>10 DEF Lists

\* Two lists of different things are one list of both.
LEMMA ListsTogether ==
  ASSUME NEW R, NEW Q, NEW s, NEW t, Lists(s, R), Lists(t, Q), R \cap Q = {}
  PROVE  Lists(s \o t, R \cup Q)
<1>1. s \in Seq(R \cup Q) /\ t \in Seq(R \cup Q) /\ s \in Seq(R) /\ t \in Seq(Q)
  BY DEF Lists
<1>2. /\ s \o t \in Seq(R \cup Q) /\ Len(s \o t) = Len(s) + Len(t)
      /\ \A i \in 1 .. Len(s) + Len(t) : (s \o t)[i] = IF i <= Len(s) THEN s[i] ELSE t[i - Len(s)]
  BY ONLY <1>1, ConcatProperties
<1>3. /\ Len(s) \in Nat /\ Len(t) \in Nat
      /\ DOMAIN s = 1 .. Len(s) /\ DOMAIN t = 1 .. Len(t) /\ DOMAIN (s \o t) = 1 .. Len(s) + Len(t)
  BY <1>1, <1>2
<1>4. \A r \in R \cup Q : \E i \in DOMAIN (s \o t) : (s \o t)[i] = r
  <2>1. SUFFICES ASSUME NEW r \in R \cup Q
                 PROVE  \E i \in DOMAIN (s \o t) : (s \o t)[i] = r
    OBVIOUS
  <2>2. CASE r \in R
    <3>1. PICK i \in 1 .. Len(s) : s[i] = r
      BY <2>2, <1>3 DEF Lists
    <3> QED
      BY <3>1, <1>2, <1>3
  <2>3. CASE r \in Q
    <3>1. PICK i \in 1 .. Len(t) : t[i] = r
      BY <2>3, <1>3 DEF Lists
    <3>2. i + Len(s) \in 1 .. Len(s) + Len(t) /\ ~(i + Len(s) <= Len(s)) /\ (i + Len(s)) - Len(s) = i
      BY <1>3
    <3> QED
      BY <3>1, <3>2, <1>2, <1>3
  <2> QED
    BY <2>2, <2>3
<1>5. \A i \in 1 .. Len(s) : s[i] \in R
  BY <1>1
<1>6. \A i \in 1 .. Len(t) : t[i] \in Q
  BY <1>1
<1>7. \A i, j \in DOMAIN (s \o t) : (s \o t)[i] = (s \o t)[j] => i = j
  <2>1. SUFFICES ASSUME NEW i \in 1 .. Len(s) + Len(t), NEW j \in 1 .. Len(s) + Len(t),
                        (s \o t)[i] = (s \o t)[j]
                 PROVE  i = j
    BY <1>3
  <2>2. CASE i <= Len(s) /\ j <= Len(s)
    <3>1. i \in 1 .. Len(s) /\ j \in 1 .. Len(s) /\ s[i] = s[j]
      BY <2>1, <2>2, <1>2, <1>3
    <3> QED
      BY <3>1, <1>3 DEF Lists
  <2>3. CASE i <= Len(s) /\ ~(j <= Len(s))
    <3>1. i \in 1 .. Len(s) /\ j - Len(s) \in 1 .. Len(t) /\ s[i] = t[j - Len(s)]
      BY <2>1, <2>3, <1>2, <1>3
    <3> QED
      BY <3>1, <1>5, <1>6
  <2>4. CASE ~(i <= Len(s)) /\ j <= Len(s)
    <3>1. j \in 1 .. Len(s) /\ i - Len(s) \in 1 .. Len(t) /\ s[j] = t[i - Len(s)]
      BY <2>1, <2>4, <1>2, <1>3
    <3> QED
      BY <3>1, <1>5, <1>6
  <2>5. CASE ~(i <= Len(s)) /\ ~(j <= Len(s))
    <3>1. i - Len(s) \in 1 .. Len(t) /\ j - Len(s) \in 1 .. Len(t) /\ t[i - Len(s)] = t[j - Len(s)]
      BY <2>1, <2>5, <1>2, <1>3
    <3>2. i - Len(s) = j - Len(s)
      BY <3>1, <1>3 DEF Lists
    <3> QED
      BY <3>2, <1>3
  <2> QED
    BY <2>2, <2>3, <2>4, <2>5
<1> QED
  BY <1>2, <1>4, <1>7 DEF Lists

\* The pieces of a call sent so far, and more of them.
LEMMA PiecesFollow ==
  ASSUME NEW c, NEW m \in Nat, NEW n \in Nat, m + n <= Pieces
  PROVE  Arguments(c, m) \o SubSeq(Arguments(c, Pieces), m + 1, m + n) = Arguments(c, m + n)
<1> DEFINE s == Arguments(c, Pieces)
           V == {<<c, k>> : k \in 1 .. Pieces}
<1>0. Pieces \in Nat /\ m <= Pieces /\ m + n \in Nat
  BY StreamAssumption
<1>1. s \in Seq(V) /\ Len(s) = Pieces
  BY <1>0 DEF Arguments
<1>2. \A k \in 0 .. Pieces : SubSeq(s, 1, k) = Arguments(c, k)
  <2>1. SUFFICES ASSUME NEW k \in 0 .. Pieces PROVE SubSeq(s, 1, k) = Arguments(c, k)
    OBVIOUS
  <2>2. SubSeq(s, 1, k) = Restrict(s, 1 .. k)
    BY <1>1, SubSeqRestrict
  <2> QED
    BY <2>2, <1>0 DEF Restrict, Arguments
<1>3. 1 \in 1 .. Len(s) + 1 /\ m \in 1 - 1 .. Len(s) /\ m + n \in m .. Len(s)
  BY <1>0, <1>1
<1>4. SubSeq(s, 1, m) \o SubSeq(s, m + 1, m + n) = SubSeq(s, 1, m + n)
  BY <1>1, <1>3, ConcatAdjacentSubSeq
<1>5. m \in 0 .. Pieces /\ m + n \in 0 .. Pieces
  BY <1>0
<1>6. SubSeq(s, 1, m) = Arguments(c, m) /\ SubSeq(s, 1, m + n) = Arguments(c, m + n)
  BY <1>2, <1>5
<1> HIDE DEF s
<1> QED
  BY <1>4, <1>6 DEF s

\* Calls are known by different ids.
LEMMA KeysDiffer ==
  ASSUME NEW c \in ToolCall, NEW d \in ToolCall
  PROVE  /\ KeyOf(c) = KeyOf(d) => c = d
         /\ HeardOf(c) = HeardOf(d) => c = d
         /\ Id(c) = Id(d) => c = d
         /\ KeyOf(c)' = KeyOf(d)' => c = d
         /\ HeardOf(c)' = HeardOf(d)' => c = d
<1>1. c \in Nat /\ d \in Nat
  BY StreamAssumption DEF ToolCall
<1>2. \A n : Id(n)[1] = "id" /\ CallNumber(n)[1] = "call" /\ Id(n)[2] = n /\ CallNumber(n)[2] = n
  BY DEF Id, CallNumber
<1>3. /\ KeyOf(c) = KeyOf(d) => c = d
      /\ Id(c) = Id(d) => c = d
      /\ KeyOf(c)' = KeyOf(d)' => c = d
  BY <1>1, <1>2 DEF KeyOf
<1>4. HeardOf(c).id = KeyOf(c) /\ HeardOf(d).id = KeyOf(d) /\ HeardOf(c)'.id = KeyOf(c)' /\ HeardOf(d)'.id = KeyOf(d)'
  BY DEF HeardOf
<1> QED
  BY <1>3, <1>4

\* The parts of what the parser knows of a call.
LEMMA KnownParts ==
  ASSUME NEW c
  PROVE  /\ KnownOf(c).index = IndexOf(c) /\ KnownOf(c).name = NameOf(c)
         /\ KnownOf(c).args = Arguments(c, sent[c])
         /\ \A a : [KnownOf(c) EXCEPT !.args = a] = [index |-> IndexOf(c), name |-> NameOf(c), args |-> a]
BY DEF KnownOf

LEMMA KnowsMore ==
  ASSUME NEW c, NEW more, UNCHANGED <<style, nameless>>,
         Arguments(c, sent[c]) \o more = Arguments(c, sent'[c])
  PROVE  [KnownOf(c) EXCEPT !.args = @ \o more] = KnownOf(c)'
<1>1. KnownOf(c)' = [index |-> IndexOf(c), name |-> NameOf(c), args |-> Arguments(c, sent'[c])]
  BY DEF KnownOf, IndexOf, NameOf, Arguments
<1>2. [KnownOf(c) EXCEPT !.args = @ \o more]
        = [index |-> IndexOf(c), name |-> NameOf(c), args |-> KnownOf(c).args \o more]
  BY KnownParts
<1> QED
  BY <1>1, <1>2, KnownParts

-----------------------------------------------------------------------------
(***************************************************************************)
(* A call that grows.                                                      *)
(***************************************************************************)
\* A frame of a call changes what is known of this call, and of no other.
LEMMA SendsMore ==
  ASSUME SentInv, NEW c \in ToolCall, NEW n \in 0 .. Pieces, NEW id \in BOOLEAN, Sends(c, n, id),
         style \in {"both", "id"} => id \/ c \in named, style' = style
  PROVE  /\ SentInv' /\ Opened' = Opened \cup {c} /\ stage' = stage /\ said' = said /\ c \in Opened'
         /\ named' = (IF id THEN named \cup {c} ELSE named)
         /\ sent'[c] \in 0 .. Pieces /\ (c \notin Opened => sent'[c] = n)
         /\ \A d \in ToolCall \ {c} :
              KeyOf(d)' = KeyOf(d) /\ HeardOf(d)' = HeardOf(d) /\ sent'[d] = sent[d]
         /\ c \in Opened => Arguments(c, sent[c]) \o NewPieces(c) = Arguments(c, sent'[c])
         /\ c \notin Opened => <<>> \o NewPieces(c) = Arguments(c, sent'[c])
<1> DEFINE before == IF c \in Opened THEN sent[c] ELSE 0
<1>0. Pieces \in Nat /\ Unopened = Pieces + 1
  BY StreamAssumption DEF Unopened
<1>1. /\ before + n <= Pieces /\ sent' = [sent EXCEPT ![c] = before + n]
      /\ named' = (IF id THEN named \cup {c} ELSE named) /\ stage' = stage /\ said' = said
  BY DEF Sends
<1>2. before \in 0 .. Pieces /\ n \in Nat /\ before \in Nat
  BY <1>0 DEF SentInv, Opened
<1>3. before + n \in 0 .. Pieces /\ before + n \in 0 .. Unopened /\ before + n # Unopened
  BY <1>0, <1>1, <1>2
<1>4. /\ sent' \in [ToolCall -> 0 .. Unopened] /\ sent'[c] = before + n
      /\ \A d \in ToolCall \ {c} : sent'[d] = sent[d]
  BY <1>1, <1>3 DEF SentInv
<1>5. Opened' = Opened \cup {c}
  BY <1>3, <1>4 DEF Opened, Unopened
<1>6. \A d \in ToolCall \ {c} : d \in named' <=> d \in named
  BY <1>1
<1>7. \A d \in ToolCall \ {c} : KeyOf(d)' = KeyOf(d)
  BY <1>6 DEF KeyOf, Id, CallNumber
<1>8. \A d \in ToolCall \ {c} : HeardOf(d)' = HeardOf(d)
  BY <1>4, <1>7 DEF HeardOf
<1>9. SentInv'
  BY <1>1, <1>4, <1>5 DEF SentInv, Unopened
<1>10. Arguments(c, before) \o SubSeq(Arguments(c, Pieces), before + 1, before + n) = Arguments(c, before + n)
  BY <1>1, <1>2, PiecesFollow
<1>11. NewPieces(c) = SubSeq(Arguments(c, Pieces), before + 1, before + n)
  BY <1>4 DEF NewPieces
<1>12. Arguments(c, 0) = <<>>
  BY DEF Arguments
<1>13. c \notin Opened => sent'[c] = n
  BY <1>2, <1>4
<1> QED
  BY <1>1, <1>3, <1>4, <1>5, <1>7, <1>8, <1>9, <1>10, <1>11, <1>12, <1>13

\* What is not finished is open.
LEMMA UnfinishedAreOpen ==
  ASSUME IndexInv, AskedInv
  PROVE  Unfinished \subseteq Opened /\ Opened \subseteq ToolCall
BY DEF IndexInv, AskedInv, Unfinished, Opened

\* The parser goes on knowing all it should, and nothing that was completed is touched.
LEMMA Grows ==
  ASSUME PendingInv, HeardInv, Unfinished \subseteq Opened, NEW c \in ToolCall,
         Opened' = Opened \cup {c}, Unfinished' = Unfinished \cup {c},
         c \in Unfinished \/ c \notin Opened,
         \A d \in ToolCall \ {c} : KeyOf(d)' = KeyOf(d) /\ HeardOf(d)' = HeardOf(d) /\ sent'[d] = sent[d],
         style' = style, nameless' = nameless, completed' = completed,
         DOMAIN pending' = (DOMAIN pending \ {KeyOf(c)}) \cup {KeyOf(c)'},
         pending' = [k \in DOMAIN pending' |-> pending'[k]],
         \A k \in DOMAIN pending \ {KeyOf(c), KeyOf(c)'} : pending'[k] = pending[k],
         pending'[KeyOf(c)'] = KnownOf(c)',
         ~renamed' => /\ ~renamed /\ DOMAIN deltas' \subseteq DOMAIN deltas \cup {KeyOf(c)'}
                      /\ c \in Unfinished => KeyOf(c)' = KeyOf(c)
  PROVE  PendingInv' /\ HeardInv'
<1>0. DOMAIN pending = {KeyOf(d) : d \in Unfinished}
  BY DEF PendingInv
<1>1. Opened \subseteq ToolCall
  BY DEF Opened
<1>2. \A d \in Unfinished \ {c} : /\ d \in ToolCall /\ KeyOf(d)' = KeyOf(d)
                                  /\ KeyOf(d) # KeyOf(c) /\ KeyOf(d) # KeyOf(c)' /\ KeyOf(d) \in DOMAIN pending
  <2>1. SUFFICES ASSUME NEW d \in Unfinished \ {c}
                 PROVE  /\ d \in ToolCall /\ KeyOf(d)' = KeyOf(d)
                        /\ KeyOf(d) # KeyOf(c) /\ KeyOf(d) # KeyOf(c)' /\ KeyOf(d) \in DOMAIN pending
    OBVIOUS
  <2>2. d \in ToolCall /\ d # c /\ KeyOf(d)' = KeyOf(d)
    BY <1>1
  <2>3. KeyOf(d) # KeyOf(c) /\ KeyOf(d)' # KeyOf(c)'
    BY <2>2, KeysDiffer
  <2> QED
    BY <2>2, <2>3, <1>0
<1>3. \A d \in ToolCall \ {c} : KnownOf(d)' = KnownOf(d)
  BY DEF KnownOf, IndexOf, NameOf, Arguments
<1>4. DOMAIN pending' = {KeyOf(d)' : d \in Unfinished'}
  <2>1. \A k \in DOMAIN pending \ {KeyOf(c)} : \E d \in Unfinished \ {c} : k = KeyOf(d)'
    BY <1>0, <1>2
  <2>2. \A d \in Unfinished \ {c} : KeyOf(d)' \in DOMAIN pending \ {KeyOf(c)}
    BY <1>2
  <2> QED
    BY <2>1, <2>2
<1>5. \A d \in Unfinished' : pending'[KeyOf(d)'] = KnownOf(d)'
  <2>1. SUFFICES ASSUME NEW d \in Unfinished', d # c
                 PROVE  pending'[KeyOf(d)'] = KnownOf(d)'
    OBVIOUS
  <2>2. d \in Unfinished \ {c} /\ d \in ToolCall
    BY <2>1, <1>1
  <2>3. pending'[KeyOf(d)'] = pending[KeyOf(d)] /\ KnownOf(d)' = KnownOf(d)
    BY <2>1, <2>2, <1>2, <1>3
  <2> QED
    BY <2>2, <2>3 DEF PendingInv
<1>6. PendingInv'
  BY <1>4, <1>5 DEF PendingInv
<1>7. Told' = Told /\ c \notin Told /\ Told \subseteq ToolCall
  BY <1>1 DEF Told
<1>8. {HeardOf(d)' : d \in Told'} = {HeardOf(d) : d \in Told}
  BY <1>7
<1>9. ~renamed' => DOMAIN deltas' \subseteq DOMAIN pending' \cup {KeyOf(d)' : d \in Opened' \cap nameless'}
  <2>1. c \notin Unfinished => KeyOf(c) \notin DOMAIN pending
    <3>1. SUFFICES ASSUME c \notin Unfinished, NEW d \in Unfinished, KeyOf(c) = KeyOf(d)
                   PROVE  FALSE
      BY <1>0
    <3> QED
      BY <3>1, <1>1, KeysDiffer
  <2>2. SUFFICES ASSUME ~renamed'
                 PROVE  DOMAIN deltas' \subseteq DOMAIN pending' \cup {KeyOf(d)' : d \in Opened' \cap nameless'}
    OBVIOUS
  <2>3. \A d \in Opened \cap nameless : d \in Opened' \cap nameless' /\ KeyOf(d)' = KeyOf(d)
    BY <2>2, <1>1
  <2>4. {KeyOf(d) : d \in Opened \cap nameless} \subseteq {KeyOf(d)' : d \in Opened' \cap nameless'}
    BY <2>3
  <2>5. DOMAIN deltas' \subseteq DOMAIN pending \cup {KeyOf(d) : d \in Opened \cap nameless} \cup {KeyOf(c)'}
    BY <2>2 DEF HeardInv
  <2>6. DOMAIN pending \subseteq DOMAIN pending'
    BY <2>1, <2>2
  <2> QED
    BY <2>4, <2>5, <2>6
<1> QED
  BY <1>6, <1>8, <1>9 DEF HeardInv, Lists

\* A frame of a call that goes on leaves the rest as it is.
LEMMA FrameGoesOn ==
  ASSUME AskedInv, WhereInv, TextInv, ReasonInv, Reading, stage = "calls", stage' = stage, said' = said,
         Opened' # {}, UNCHANGED <<textVars, finish, failed, broke>>, renamed' \in BOOLEAN
  PROVE  AskedInv' /\ WhereInv' /\ TextInv' /\ ReasonInv' /\ streamAt' = "reading"
<1>1. /\ streamAt = "reading" /\ streamAt' = "reading"
      /\ UNCHANGED <<format, style, fields, nameless, stripped, posts>>
      /\ UNCHANGED <<inText, begun, buffer, inlined, overlooked>>
  BY DEF Reading, requestVars, postVars, textVars
<1>2. AskedInv'
  BY <1>1 DEF AskedInv
<1>3. WhereInv'
  BY <1>1 DEF WhereInv
<1>4. TextInv'
  BY <1>1 DEF TextInv, TextCallsAreTold
<1>5. failed' = "no" /\ stage' = "calls" /\ said' = NoReason /\ NoReason \notin Reason
  BY StreamAssumption DEF ReasonInv, Reason
<1>6. ReasonInv'
  BY <1>1, <1>5 DEF ReasonInv, Reason
<1> QED
  BY <1>1, <1>2, <1>3, <1>4, <1>6

-----------------------------------------------------------------------------
(***************************************************************************)
(* Frames of chat_completions.                                             *)
(***************************************************************************)
\* While a call may come, all that are open are pending, each at its index.
LEMMA ChatIsPending ==
  ASSUME SentInv, PendingInv, format = "chat_completions", stage = "calls", NEW c \in ToolCall
  PROVE  /\ Unfinished = Opened /\ Told = {} /\ Opened \subseteq ToolCall
         /\ Cardinality(DOMAIN pending) = Cardinality(Opened)
         /\ AtIndex(c) = IF style # "id" /\ c \in Opened THEN {KeyOf(c)} ELSE {}
<1>1. Unfinished = Opened /\ Told = {} /\ Opened \subseteq ToolCall
  BY DEF Unfinished, Told, Opened
<1>2. DOMAIN pending = {KeyOf(d) : d \in Opened}
  BY <1>1 DEF PendingInv
<1>3. Cardinality(DOMAIN pending) = Cardinality(Opened)
  <2> DEFINE b == [d \in Opened |-> KeyOf(d)]
  <2>1. IsFiniteSet(Opened)
    <3>1. 0 \in Int /\ Calls - 1 \in Int
      BY StreamAssumption
    <3>2. IsFiniteSet(ToolCall)
      BY <3>1, FS_Interval DEF ToolCall
    <3> QED
      BY <3>2, <1>1, FS_Subset
  <2>2. b \in [Opened -> DOMAIN pending]
    BY <1>2
  <2>3. \A d, e \in Opened : b[d] = b[e] => d = e
    BY <1>1, KeysDiffer
  <2>4. b \in Bijection(Opened, DOMAIN pending)
    BY <1>2, <2>2, <2>3 DEF Bijection, Injection, Surjection, IsInjective
  <2> QED
    BY <2>1, <2>4, FS_Bijection DEF ExistsBijection
<1>4. AtIndex(c) = IF style # "id" /\ c \in Opened THEN {KeyOf(c)} ELSE {}
  <2>1. CASE style = "id"
    BY <2>1 DEF AtIndex
  <2>2. CASE style # "id"
    <3>1. \A d \in Opened : pending[KeyOf(d)].index = d
      <4>1. \A d \in Opened : pending[KeyOf(d)] = KnownOf(d)
        BY <1>1 DEF PendingInv
      <4>2. \A d \in Opened : KnownOf(d).index = d
        BY <2>2, KnownParts DEF IndexOf
      <4> QED
        BY <4>1, <4>2
    <3>2. AtIndex(c) = {k \in DOMAIN pending : pending[k].index = c}
      BY <2>2 DEF AtIndex
    <3>3. \A k \in AtIndex(c) : c \in Opened /\ k = KeyOf(c)
      BY <3>1, <3>2, <1>2
    <3>4. c \in Opened => KeyOf(c) \in AtIndex(c)
      BY <3>1, <3>2, <1>2
    <3> QED
      BY <2>2, <3>3, <3>4
  <2> QED
    BY <2>1, <2>2
<1> QED
  BY <1>1, <1>3, <1>4

\* A piece finds its call, whatever the provider calls it; and a late id takes it over.
LEMMA DeltaFindsItsCall ==
  ASSUME AskedInv, SentInv, PendingInv, format = "chat_completions", stage = "calls",
         NEW c \in ToolCall, NEW n \in 0 .. Pieces, NEW id \in BOOLEAN, GivesId(c, id), Sends(c, n, id)
  PROVE  /\ DeltaId(c, id) = KeyOf(c)'
         /\ c \notin Opened => Renamed(c, id) = pending /\ KeyOf(c)' \notin DOMAIN pending
         /\ c \in Opened /\ KeyOf(c)' = KeyOf(c) => Renamed(c, id) = pending
         /\ c \in Opened /\ KeyOf(c)' # KeyOf(c) =>
              /\ Renamed(c, id) = With(Without(pending, {KeyOf(c)}), KeyOf(c)', pending[KeyOf(c)])
              /\ id /\ AtIndex(c) \ {Id(c)} # {}
<1>1. /\ Unfinished = Opened /\ Opened \subseteq ToolCall
      /\ Cardinality(DOMAIN pending) = Cardinality(Opened)
      /\ AtIndex(c) = IF style # "id" /\ c \in Opened THEN {KeyOf(c)} ELSE {}
  BY ChatIsPending
<1>2. named' = (IF id THEN named \cup {c} ELSE named) /\ (c = Cardinality(Opened) \/ c \in Opened)
  BY DEF Sends
<1>3. named \subseteq Opened /\ (style \in {"both", "id"} => Opened \subseteq named)
  BY DEF SentInv
<1>4. /\ style = "both" => id = (c \notin Opened)
      /\ style = "index" => ~id
      /\ style = "id" => id
      /\ style = "late" => (c \in named => ~id)
      /\ style \in {"both", "index", "id", "late"}
  BY DEF GivesId, AskedInv
<1>5. id => KeyOf(c)' = Id(c)
  BY <1>2 DEF KeyOf
<1>6. ~id => KeyOf(c)' = KeyOf(c)
  BY <1>2 DEF KeyOf
<1>7. CASE c \notin Opened
  <2>1. AtIndex(c) = {}
    BY <1>1, <1>7
  <2>2. Renamed(c, id) = pending
    BY <2>1 DEF Renamed
  <2>3. ~id => KeyOf(c) = CallNumber(c + 1)
    BY <1>3, <1>7 DEF KeyOf
  <2>4. DeltaId(c, id) = KeyOf(c)'
    BY <2>1, <2>3, <1>1, <1>2, <1>5, <1>6, <1>7 DEF DeltaId
  <2>5. KeyOf(c)' \notin DOMAIN pending
    <3>1. SUFFICES ASSUME NEW d \in Opened, KeyOf(c)' = KeyOf(d)
                   PROVE  FALSE
      BY <1>1 DEF PendingInv
    <3>2. d \in ToolCall /\ d # c
      BY <1>1, <1>7
    <3>3. KeyOf(d)' = KeyOf(d)
      BY <1>2, <3>2 DEF KeyOf
    <3> QED
      BY <3>1, <3>2, <3>3, KeysDiffer
  <2> QED
    BY <1>7, <2>2, <2>4, <2>5
<1>8. CASE c \in Opened /\ ~id
  <2>1. AtIndex(c) = {KeyOf(c)}
    BY <1>1, <1>4, <1>8
  <2> QED
    BY <2>1, <1>6, <1>8 DEF DeltaId, Renamed
<1>9. CASE c \in Opened /\ id /\ c \in named
  <2>1. KeyOf(c) = Id(c)
    BY <1>9 DEF KeyOf
  <2>2. AtIndex(c) \ {Id(c)} = {}
    BY <2>1, <1>1
  <2> QED
    BY <2>1, <2>2, <1>5, <1>9 DEF DeltaId, Renamed
<1>10. CASE c \in Opened /\ id /\ c \notin named
  <2>1. KeyOf(c) = CallNumber(c + 1) /\ KeyOf(c) # Id(c)
    BY <1>10 DEF KeyOf, CallNumber, Id
  <2>2. style # "id"
    BY <1>3, <1>10
  <2>3. AtIndex(c) = {KeyOf(c)} /\ AtIndex(c) \ {Id(c)} = {KeyOf(c)}
    BY <2>1, <2>2, <1>1, <1>10
  <2>4. (CHOOSE x \in {KeyOf(c)} : TRUE) = KeyOf(c)
    OBVIOUS
  <2>5. Renamed(c, id) = With(Without(pending, {KeyOf(c)}), KeyOf(c)', pending[KeyOf(c)])
    BY <2>3, <2>4, <1>5, <1>10 DEF Renamed
  <2> QED
    BY <2>1, <2>3, <2>5, <1>5, <1>10 DEF DeltaId
<1> QED
  BY <1>7, <1>8, <1>9, <1>10

LEMMA ChatDeltaGoes ==
  ASSUME AskedInv, StreamGoes, NEW c \in ToolCall, NEW n \in 0 .. Pieces, NEW id \in BOOLEAN,
         ChatDelta(c, n, id)
  PROVE  AskedInv' /\ StreamGoes' /\ streamAt' = "reading"
<1>1. /\ Reading /\ format = "chat_completions" /\ stage = "calls" /\ broke' = broke
      /\ GivesId(c, id) /\ Sends(c, n, id)
      /\ pending' = Adding(Renamed(c, id), DeltaId(c, id), c, NewPieces(c))
      /\ Hears(DeltaId(c, id), NewPieces(c))
      /\ renamed' = (renamed \/ (id /\ AtIndex(c) \ {Id(c)} # {}))
      /\ UNCHANGED <<block, textVars, byIndex, done, finish, failed>>
  BY DEF ChatDelta, Frame, FrameAt
<1>2. WhereInv /\ SentInv /\ PendingInv /\ IndexInv /\ HeardInv /\ TextInv /\ ReasonInv
  BY DEF StreamGoes
<1>3. style' = style /\ format' = format /\ nameless' = nameless
  BY <1>1 DEF Reading, requestVars
<1>4. style \in {"both", "id"} => id \/ c \in named
  BY <1>1, <1>2 DEF GivesId, SentInv
<1>5. /\ SentInv' /\ Opened' = Opened \cup {c} /\ stage' = stage /\ said' = said /\ c \in Opened'
      /\ \A d \in ToolCall \ {c} : KeyOf(d)' = KeyOf(d) /\ HeardOf(d)' = HeardOf(d) /\ sent'[d] = sent[d]
      /\ c \in Opened => Arguments(c, sent[c]) \o NewPieces(c) = Arguments(c, sent'[c])
      /\ c \notin Opened => <<>> \o NewPieces(c) = Arguments(c, sent'[c])
  BY <1>1, <1>2, <1>3, <1>4, SendsMore
<1>6. /\ Unfinished = Opened /\ Opened \subseteq ToolCall
  BY <1>1, <1>2, ChatIsPending
<1>7. Unfinished' = Unfinished \cup {c}
  BY <1>1, <1>3, <1>5, <1>6 DEF Unfinished
<1>8. /\ DeltaId(c, id) = KeyOf(c)'
      /\ c \notin Opened => Renamed(c, id) = pending /\ KeyOf(c)' \notin DOMAIN pending
      /\ c \in Opened /\ KeyOf(c)' = KeyOf(c) => Renamed(c, id) = pending
      /\ c \in Opened /\ KeyOf(c)' # KeyOf(c) =>
           /\ Renamed(c, id) = With(Without(pending, {KeyOf(c)}), KeyOf(c)', pending[KeyOf(c)])
           /\ id /\ AtIndex(c) \ {Id(c)} # {}
  BY <1>1, <1>2, DeltaFindsItsCall
<1>9. c \in Opened => KeyOf(c) \in DOMAIN pending /\ pending[KeyOf(c)] = KnownOf(c)
  BY <1>2, <1>6 DEF PendingInv
<1>10. c \notin Opened => KeyOf(c) \notin DOMAIN pending
  <2>1. SUFFICES ASSUME c \notin Opened, NEW d \in Opened, KeyOf(c) = KeyOf(d)
                 PROVE  FALSE
    BY <1>2, <1>6 DEF PendingInv
  <2> QED
    BY <2>1, <1>6, KeysDiffer
<1>11. DOMAIN pending' = (DOMAIN pending \ {KeyOf(c)}) \cup {KeyOf(c)'}
  BY <1>1, <1>8, <1>9, <1>10 DEF Adding, With, Without
<1>12. \A k \in DOMAIN pending \ {KeyOf(c), KeyOf(c)'} : pending'[k] = pending[k]
  BY <1>1, <1>8, <1>9, <1>10 DEF Adding, With, Without
<1>13. pending'[KeyOf(c)'] = KnownOf(c)'
  <2>0. KnownOf(c)' = [index |-> IndexOf(c), name |-> NameOf(c), args |-> Arguments(c, sent'[c])]
    BY <1>3 DEF KnownOf, IndexOf, NameOf, Arguments
  <2>1. CASE c \notin Opened
    <3>1. Entry(pending, KeyOf(c)', c) = [index |-> IndexOf(c), name |-> NameOf(c), args |-> <<>>]
      BY <2>1, <1>8 DEF Entry
    <3>2. pending' = Adding(pending, KeyOf(c)', c, NewPieces(c))
      BY <2>1, <1>1, <1>8
    <3> QED
      BY <3>1, <3>2, <2>0, <2>1, <1>5 DEF Adding, With
  <2>2. CASE c \in Opened
    <3>1. KeyOf(c)' \in DOMAIN Renamed(c, id) /\ Renamed(c, id)[KeyOf(c)'] = KnownOf(c)
      BY <2>2, <1>8, <1>9 DEF With, Without
    <3>2. Entry(Renamed(c, id), KeyOf(c)', c) = KnownOf(c)
      BY <3>1 DEF Entry
    <3>3. pending' = Adding(Renamed(c, id), KeyOf(c)', c, NewPieces(c))
      BY <1>1, <1>8
    <3>4. [KnownOf(c) EXCEPT !.args = @ \o NewPieces(c)] = KnownOf(c)'
      BY <2>2, <1>3, <1>5, KnowsMore
    <3> QED
      BY <3>2, <3>3, <3>4 DEF Adding, With
  <2> QED
    BY <2>1, <2>2
<1>14. completed' = completed /\ DOMAIN deltas' = DOMAIN deltas \cup {KeyOf(c)'}
  BY <1>1, <1>8 DEF Hears, With
<1>15. ~renamed' => /\ ~renamed /\ DOMAIN deltas' \subseteq DOMAIN deltas \cup {KeyOf(c)'}
                    /\ c \in Unfinished => KeyOf(c)' = KeyOf(c)
  BY <1>1, <1>6, <1>8, <1>14
<1>a. pending' = [k \in DOMAIN pending' |-> pending'[k]]
  BY <1>1 DEF Adding, With
<1>16. PendingInv' /\ HeardInv'
  BY <1>a, <1>2, <1>3, <1>5, <1>6, <1>7, <1>11, <1>12, <1>13, <1>14, <1>15, Grows
<1>17. IndexInv' /\ BlockInv'
  BY <1>1, <1>2, <1>3 DEF IndexInv, BlockInv
<1>18. renamed' \in BOOLEAN
  BY <1>1, <1>2 DEF WhereInv
<1>19. AskedInv' /\ WhereInv' /\ TextInv' /\ ReasonInv' /\ streamAt' = "reading"
  BY <1>1, <1>2, <1>5, <1>18, FrameGoesOn
<1> QED
  BY <1>5, <1>16, <1>17, <1>19 DEF StreamGoes

-----------------------------------------------------------------------------
(***************************************************************************)
(* Frames of responses and of messages that open a call or go on with it.  *)
(***************************************************************************)
\* There every open call has the id of the provider.
LEMMA EventsAreNamed ==
  ASSUME AskedInv, SentInv, format # "chat_completions"
  PROVE  /\ Opened = named /\ style = "both"
         /\ \A c \in Opened : KeyOf(c) = Id(c)
         /\ \A c \in ToolCall : IndexOf(c) = c
BY DEF AskedInv, SentInv, KeyOf, IndexOf

LEMMA EventGoes ==
  ASSUME AskedInv, StreamGoes, format # "chat_completions", Reading, stage = "calls", broke' = broke,
         UNCHANGED textVars,
         NEW c \in ToolCall, NEW n \in 0 .. Pieces, NEW id \in BOOLEAN, Sends(c, n, id),
         id \/ c \in Opened, c \in Unfinished \/ c \notin Opened, Unfinished' = Unfinished \cup {c},
         pending' = With(pending, Id(c), KnownOf(c)'),
         UNCHANGED <<finish, failed, renamed, completed>>,
         DOMAIN deltas' \subseteq DOMAIN deltas \cup {Id(c)}, IndexInv', BlockInv'
  PROVE  AskedInv' /\ StreamGoes' /\ streamAt' = "reading"
<1>1. WhereInv /\ SentInv /\ PendingInv /\ IndexInv /\ HeardInv /\ TextInv /\ ReasonInv
  BY DEF StreamGoes
<1>2. style' = style /\ format' = format /\ nameless' = nameless
  BY DEF Reading, requestVars
<1>3. /\ Opened = named /\ style = "both"
      /\ \A d \in Opened : KeyOf(d) = Id(d)
      /\ IndexOf(c) = c
  BY <1>1, EventsAreNamed
<1>4. /\ SentInv' /\ Opened' = Opened \cup {c} /\ stage' = stage /\ said' = said /\ c \in Opened'
      /\ named' = (IF id THEN named \cup {c} ELSE named)
      /\ \A d \in ToolCall \ {c} : KeyOf(d)' = KeyOf(d) /\ HeardOf(d)' = HeardOf(d) /\ sent'[d] = sent[d]
  BY <1>1, <1>2, <1>3, SendsMore
<1>5. KeyOf(c)' = Id(c)
  BY <1>3, <1>4 DEF KeyOf
<1>6. Unfinished \subseteq Opened /\ Opened \subseteq ToolCall
  BY <1>1, UnfinishedAreOpen
<1>7. KeyOf(c) \in DOMAIN pending => c \in Unfinished /\ KeyOf(c) = Id(c)
  <2>1. SUFFICES ASSUME NEW d \in Unfinished, KeyOf(c) = KeyOf(d)
                 PROVE  c \in Unfinished /\ KeyOf(c) = Id(c)
    BY <1>1 DEF PendingInv
  <2>2. c = d
    BY <2>1, <1>6, KeysDiffer
  <2> QED
    BY <2>2, <1>3, <1>6
<1>8. DOMAIN pending' = (DOMAIN pending \ {KeyOf(c)}) \cup {KeyOf(c)'}
  BY <1>5, <1>7 DEF With
<1>9. \A k \in DOMAIN pending \ {KeyOf(c), KeyOf(c)'} : pending'[k] = pending[k]
  BY <1>5 DEF With
<1>10. pending'[KeyOf(c)'] = KnownOf(c)'
  BY <1>5 DEF With
<1>11. ~renamed' => /\ ~renamed /\ DOMAIN deltas' \subseteq DOMAIN deltas \cup {KeyOf(c)'}
                    /\ c \in Unfinished => KeyOf(c)' = KeyOf(c)
  BY <1>3, <1>5, <1>6
<1>a. pending' = [k \in DOMAIN pending' |-> pending'[k]]
  BY DEF With
<1>12. PendingInv' /\ HeardInv'
  BY <1>a, <1>1, <1>2, <1>4, <1>6, <1>8, <1>9, <1>10, <1>11, Grows
<1>13. AskedInv' /\ WhereInv' /\ TextInv' /\ ReasonInv' /\ streamAt' = "reading"
  <2>1. renamed' \in BOOLEAN
    BY <1>1 DEF WhereInv
  <2> QED
    BY <1>1, <1>4, <2>1, FrameGoesOn
<1> QED
  BY <1>4, <1>12, <1>13 DEF StreamGoes

\* What the parser has of an open call that is not done, in responses.
LEMMA ResponseIsPending ==
  ASSUME AskedInv, StreamGoes, format = "responses", stage = "calls"
  PROVE  /\ Unfinished = {c \in Opened : Id(c) \notin done}
         /\ \A c \in Unfinished :
              /\ StreamCallId(c) = Id(c) /\ Id(c) \in DOMAIN pending
              /\ pending[Id(c)] = KnownOf(c)
         /\ \A c \in ToolCall : c \notin Opened => Id(c) \notin done /\ Id(c) \notin DOMAIN pending
<1>1. SentInv /\ PendingInv /\ IndexInv
  BY DEF StreamGoes
<1>2. Unfinished = {c \in Opened : Id(c) \notin done} /\ Opened \subseteq ToolCall
  BY DEF Unfinished, Opened
<1>3. /\ \A c \in Opened : KeyOf(c) = Id(c)
      /\ \A c \in ToolCall : IndexOf(c) = c
  BY <1>1, EventsAreNamed
<1>4. \A c \in Unfinished :
        /\ StreamCallId(c) = Id(c) /\ Id(c) \in DOMAIN pending
        /\ pending[Id(c)] = KnownOf(c)
  <2>1. SUFFICES ASSUME NEW c \in Unfinished
                 PROVE  /\ StreamCallId(c) = Id(c) /\ Id(c) \in DOMAIN pending
                        /\ pending[Id(c)] = KnownOf(c)
    OBVIOUS
  <2>2. c \in Opened /\ c \in ToolCall /\ KeyOf(c) = Id(c) /\ IndexOf(c) = c
    BY <1>2, <1>3
  <2>3. StreamCallId(c) = Id(c)
    BY <2>2, <1>1 DEF IndexInv, StreamCallId
  <2> QED
    BY <2>2, <2>3, <1>1 DEF PendingInv
<1>5. \A c \in ToolCall : c \notin Opened => Id(c) \notin done /\ Id(c) \notin DOMAIN pending
  <2>1. SUFFICES ASSUME NEW c \in ToolCall, c \notin Opened
                 PROVE  Id(c) \notin done /\ Id(c) \notin DOMAIN pending
    OBVIOUS
  <2>2. \A d \in Opened : Id(c) # Id(d)
    BY <2>1, <1>2, KeysDiffer
  <2> QED
    BY <2>2, <1>1, <1>2, <1>3 DEF IndexInv, PendingInv
<1> QED
  BY <1>2, <1>4, <1>5

LEMMA ItemAddedGoes ==
  ASSUME AskedInv, StreamGoes, NEW c \in ToolCall, ItemAdded(c)
  PROVE  AskedInv' /\ StreamGoes' /\ streamAt' = "reading"
<1>1. /\ Reading /\ format = "responses" /\ stage = "calls" /\ broke' = broke
      /\ c \notin Opened /\ Sends(c, 0, TRUE)
      /\ pending' = Adding(pending, Id(c), c, <<>>) /\ byIndex' = With(byIndex, c, Id(c))
      /\ UNCHANGED textVars
      /\ UNCHANGED <<block, done, finish, completed, deltas, failed, renamed>>
  BY DEF ItemAdded, Frame, FrameAt, listenerVars
<1>2. SentInv /\ IndexInv /\ 0 \in 0 .. Pieces /\ TRUE \in BOOLEAN /\ format' = format /\ style' = style /\ nameless' = nameless
  BY <1>1, StreamAssumption DEF StreamGoes, Reading, requestVars
<1>3. /\ Unfinished = {d \in Opened : Id(d) \notin done}
      /\ Id(c) \notin done /\ Id(c) \notin DOMAIN pending
  BY <1>1, ResponseIsPending
<1>4. /\ Opened' = Opened \cup {c} /\ stage' = stage
      /\ sent'[c] = 0
  BY <1>1, <1>2, SendsMore
<1>5. Unfinished' = Unfinished \cup {c}
  BY <1>1, <1>2, <1>3, <1>4 DEF Unfinished
<1>6. Arguments(c, sent'[c]) = <<>> /\ <<>> \o <<>> = <<>>
  BY <1>4 DEF Arguments
<1>7. pending' = With(pending, Id(c), KnownOf(c)')
  <2>1. KnownOf(c)' = [index |-> IndexOf(c), name |-> NameOf(c), args |-> <<>>]
    BY <1>2, <1>6 DEF KnownOf, IndexOf, NameOf, Arguments
  <2>2. Entry(pending, Id(c), c) = [index |-> IndexOf(c), name |-> NameOf(c), args |-> <<>>]
    BY <1>3 DEF Entry
  <2> QED
    BY <2>1, <2>2, <1>1, <1>6 DEF Adding
<1>8. IndexInv' /\ BlockInv'
  BY <1>1, <1>2, <1>4 DEF IndexInv, BlockInv, With
<1> QED
  BY <1>1, <1>2, <1>5, <1>7, <1>8, EventGoes

LEMMA ArgumentsDeltaGoes ==
  ASSUME AskedInv, StreamGoes, NEW c \in ToolCall, NEW n \in 0 .. Pieces, ArgumentsDelta(c, n)
  PROVE  AskedInv' /\ StreamGoes' /\ streamAt' = "reading"
<1>1. /\ Reading /\ format = "responses" /\ stage = "calls" /\ broke' = broke
      /\ c \in Opened /\ Id(c) \notin done /\ Sends(c, n, FALSE)
      /\ pending' = Adding(pending, StreamCallId(c), c, NewPieces(c))
      /\ byIndex' = With(byIndex, c, StreamCallId(c))
      /\ Hears(StreamCallId(c), NewPieces(c))
      /\ UNCHANGED textVars
      /\ UNCHANGED <<block, done, finish, failed, renamed>>
  BY DEF ArgumentsDelta, Frame, FrameAt
<1>2. SentInv /\ IndexInv /\ FALSE \in BOOLEAN /\ format' = format /\ style' = style /\ nameless' = nameless
  BY <1>1 DEF StreamGoes, Reading, requestVars
<1>3. /\ Unfinished = {d \in Opened : Id(d) \notin done} /\ c \in Unfinished
      /\ StreamCallId(c) = Id(c) /\ Id(c) \in DOMAIN pending
      /\ pending[Id(c)] = KnownOf(c)
  BY <1>1, ResponseIsPending
<1>a. c \in named
  BY <1>1, <1>2, EventsAreNamed
<1>4. /\ Opened' = Opened \cup {c} /\ stage' = stage
      /\ Arguments(c, sent[c]) \o NewPieces(c) = Arguments(c, sent'[c])
  BY <1>1, <1>2, <1>a, SendsMore
<1>5. Unfinished' = Unfinished \cup {c}
  BY <1>1, <1>2, <1>3, <1>4 DEF Unfinished
<1>6. Entry(pending, Id(c), c) = KnownOf(c)
  BY <1>3 DEF Entry
<1>b. [KnownOf(c) EXCEPT !.args = @ \o NewPieces(c)] = KnownOf(c)'
  BY <1>2, <1>4, KnowsMore
<1>7. pending' = With(pending, Id(c), KnownOf(c)')
  BY <1>1, <1>3, <1>6, <1>b DEF Adding
<1>8. IndexInv' /\ BlockInv'
  BY <1>1, <1>2, <1>3, <1>4 DEF IndexInv, BlockInv, With
<1>9. completed' = completed /\ DOMAIN deltas' \subseteq DOMAIN deltas \cup {Id(c)}
  BY <1>1, <1>3 DEF Hears, With
<1> QED
  BY <1>1, <1>2, <1>3, <1>5, <1>7, <1>8, <1>9, EventGoes

LEMMA ArgumentsDoneGoes ==
  ASSUME AskedInv, StreamGoes, NEW c \in ToolCall, NEW n \in 0 .. Pieces, ArgumentsDone(c, n)
  PROVE  AskedInv' /\ StreamGoes' /\ streamAt' = "reading"
<1>1. /\ Reading /\ format = "responses" /\ stage = "calls" /\ broke' = broke
      /\ c \in Opened /\ Id(c) \notin done /\ Sends(c, n, FALSE) /\ sent'[c] = Pieces
      /\ pending' = With(pending, StreamCallId(c),
                         [Entry(pending, StreamCallId(c), c) EXCEPT !.args = Arguments(c, Pieces)])
      /\ UNCHANGED textVars
      /\ UNCHANGED <<block, byIndex, done, finish, completed, deltas, failed, renamed>>
  BY DEF ArgumentsDone, Frame, FrameAt, listenerVars
<1>2. SentInv /\ IndexInv /\ FALSE \in BOOLEAN /\ format' = format /\ style' = style /\ nameless' = nameless
  BY <1>1 DEF StreamGoes, Reading, requestVars
<1>3. /\ Unfinished = {d \in Opened : Id(d) \notin done} /\ c \in Unfinished
      /\ StreamCallId(c) = Id(c) /\ Id(c) \in DOMAIN pending
      /\ pending[Id(c)] = KnownOf(c)
  BY <1>1, ResponseIsPending
<1>a. c \in named
  BY <1>1, <1>2, EventsAreNamed
<1>4. Opened' = Opened \cup {c} /\ stage' = stage
  BY <1>1, <1>2, <1>a, SendsMore
<1>5. Unfinished' = Unfinished \cup {c}
  BY <1>1, <1>2, <1>3, <1>4 DEF Unfinished
<1>6. [Entry(pending, Id(c), c) EXCEPT !.args = Arguments(c, Pieces)] = KnownOf(c)'
  <2>1. Entry(pending, Id(c), c) = KnownOf(c)
    BY <1>3 DEF Entry
  <2>2. KnownOf(c)' = [index |-> IndexOf(c), name |-> NameOf(c), args |-> Arguments(c, Pieces)]
    BY <1>1, <1>2 DEF KnownOf, IndexOf, NameOf, Arguments
  <2> QED
    BY <2>1, <2>2, KnownParts
<1>7. pending' = With(pending, Id(c), KnownOf(c)')
  BY <1>1, <1>3, <1>6
<1>8. IndexInv' /\ BlockInv'
  BY <1>1, <1>2, <1>3, <1>4 DEF IndexInv, BlockInv
<1> QED
  BY <1>1, <1>2, <1>3, <1>5, <1>7, <1>8, EventGoes

\* What the parser has of the block that is open, in messages.
LEMMA BlockIsPending ==
  ASSUME AskedInv, StreamGoes, format = "messages"
  PROVE  /\ Unfinished = DOMAIN byIndex
         /\ \A c \in Unfinished :
              /\ c \in Opened /\ c \in named /\ c \in ToolCall /\ byIndex[c] = Id(c)
              /\ StreamCallId(c) = Id(c) /\ Id(c) \in DOMAIN pending
              /\ pending[Id(c)] = KnownOf(c)
<1>1. SentInv /\ PendingInv /\ IndexInv
  BY DEF StreamGoes
<1>2. Unfinished = DOMAIN byIndex /\ Opened \subseteq ToolCall
  BY DEF Unfinished, Opened
<1>3. /\ \A c \in Opened : KeyOf(c) = Id(c) /\ c \in named
      /\ \A c \in ToolCall : IndexOf(c) = c
  BY <1>1, EventsAreNamed
<1>4. SUFFICES ASSUME NEW c \in Unfinished
               PROVE  /\ c \in Opened /\ c \in named /\ c \in ToolCall /\ byIndex[c] = Id(c)
                      /\ StreamCallId(c) = Id(c) /\ Id(c) \in DOMAIN pending
                      /\ pending[Id(c)] = KnownOf(c)
  BY <1>2
<1>5. c \in Opened /\ c \in ToolCall /\ byIndex[c] = Id(c) /\ StreamCallId(c) = Id(c)
  BY <1>1, <1>2 DEF IndexInv, StreamCallId
<1>6. c \in named /\ KeyOf(c) = Id(c) /\ IndexOf(c) = c
  BY <1>3, <1>5
<1> QED
  BY <1>5, <1>6, <1>1 DEF PendingInv

LEMMA BlockStartGoes ==
  ASSUME AskedInv, StreamGoes, NEW c \in ToolCall, BlockStart(c)
  PROVE  AskedInv' /\ StreamGoes' /\ streamAt' = "reading"
<1>1. /\ Reading /\ format = "messages" /\ stage = "calls" /\ broke' = broke
      /\ block = {} /\ block' = {c} /\ c \notin Opened /\ Sends(c, 0, TRUE)
      /\ pending' = Adding(pending, Id(c), c, <<>>) /\ byIndex' = With(byIndex, c, Id(c))
      /\ UNCHANGED textVars
      /\ UNCHANGED <<done, finish, completed, deltas, failed, renamed>>
  BY DEF BlockStart, Frame, FrameAt, listenerVars
<1>2. /\ SentInv /\ IndexInv /\ BlockInv /\ PendingInv
      /\ 0 \in 0 .. Pieces /\ TRUE \in BOOLEAN /\ format' = format /\ style' = style /\ nameless' = nameless
  BY <1>1, StreamAssumption DEF StreamGoes, Reading, requestVars
<1>3. Unfinished = DOMAIN byIndex /\ c \notin DOMAIN byIndex /\ Id(c) \notin DOMAIN pending
  <2>1. Unfinished = DOMAIN byIndex /\ Unfinished \subseteq Opened /\ Opened \subseteq ToolCall
    BY <1>1, <1>2, BlockIsPending DEF IndexInv, Opened
  <2>2. \A d \in Unfinished : KeyOf(d) = Id(d) /\ Id(d) # Id(c)
    <3>1. \A d \in Unfinished : KeyOf(d) = Id(d) /\ d \in ToolCall /\ d # c
      BY <2>1, <1>1, <1>2, EventsAreNamed
    <3> QED
      BY <3>1, KeysDiffer
  <2> QED
    BY <2>1, <2>2, <1>1, <1>2 DEF PendingInv
<1>4. /\ Opened' = Opened \cup {c} /\ stage' = stage /\ sent'[c] = 0
  BY <1>1, <1>2, SendsMore
<1>5. /\ DOMAIN byIndex' = DOMAIN byIndex \cup {c} /\ byIndex'[c] = Id(c)
      /\ \A d \in DOMAIN byIndex : byIndex'[d] = byIndex[d]
      /\ byIndex' = [d \in DOMAIN byIndex' |-> byIndex'[d]]
  BY <1>1, <1>3 DEF With
<1>6. Unfinished' = Unfinished \cup {c}
  BY <1>1, <1>2, <1>3, <1>5 DEF Unfinished
<1>7. Arguments(c, sent'[c]) = <<>> /\ <<>> \o <<>> = <<>>
  BY <1>4 DEF Arguments
<1>8. pending' = With(pending, Id(c), KnownOf(c)')
  <2>1. KnownOf(c)' = [index |-> IndexOf(c), name |-> NameOf(c), args |-> <<>>]
    BY <1>2, <1>7 DEF KnownOf, IndexOf, NameOf, Arguments
  <2>2. Entry(pending, Id(c), c) = [index |-> IndexOf(c), name |-> NameOf(c), args |-> <<>>]
    BY <1>3 DEF Entry
  <2> QED
    BY <2>1, <2>2, <1>1, <1>7 DEF Adding
<1>9. IndexInv' /\ BlockInv'
  BY <1>1, <1>2, <1>4, <1>5 DEF IndexInv, BlockInv
<1> QED
  BY <1>1, <1>2, <1>6, <1>8, <1>9, EventGoes

LEMMA BlockDeltaGoes ==
  ASSUME AskedInv, StreamGoes, NEW c \in ToolCall, NEW n \in 0 .. Pieces, BlockDelta(c, n)
  PROVE  AskedInv' /\ StreamGoes' /\ streamAt' = "reading"
<1>1. /\ Reading /\ format = "messages" /\ stage = "calls" /\ broke' = broke
      /\ c \in block /\ Sends(c, n, FALSE)
      /\ pending' = Adding(pending, StreamCallId(c), c, NewPieces(c))
      /\ Hears(StreamCallId(c), NewPieces(c))
      /\ UNCHANGED textVars
      /\ UNCHANGED <<block, byIndex, done, finish, failed, renamed>>
  BY DEF BlockDelta, Frame, FrameAt
<1>2. SentInv /\ IndexInv /\ BlockInv /\ FALSE \in BOOLEAN /\ format' = format /\ style' = style /\ nameless' = nameless
  BY <1>1 DEF StreamGoes, Reading, requestVars
<1>3. /\ Unfinished = DOMAIN byIndex /\ c \in Unfinished /\ c \in Opened /\ c \in named
      /\ StreamCallId(c) = Id(c) /\ Id(c) \in DOMAIN pending
      /\ pending[Id(c)] = KnownOf(c)
  BY <1>1, <1>2, BlockIsPending DEF BlockInv
<1>4. /\ Opened' = Opened \cup {c} /\ stage' = stage
      /\ Arguments(c, sent[c]) \o NewPieces(c) = Arguments(c, sent'[c])
  BY <1>1, <1>2, <1>3, SendsMore
<1>5. Unfinished' = Unfinished \cup {c}
  BY <1>1, <1>2, <1>3 DEF Unfinished
<1>6. Entry(pending, Id(c), c) = KnownOf(c)
  BY <1>3 DEF Entry
<1>a. [KnownOf(c) EXCEPT !.args = @ \o NewPieces(c)] = KnownOf(c)'
  BY <1>2, <1>4, KnowsMore
<1>7. pending' = With(pending, Id(c), KnownOf(c)')
  BY <1>1, <1>3, <1>6, <1>a DEF Adding
<1>8. IndexInv' /\ BlockInv'
  BY <1>1, <1>2, <1>3, <1>4 DEF IndexInv, BlockInv
<1>9. completed' = completed /\ DOMAIN deltas' \subseteq DOMAIN deltas \cup {Id(c)}
  BY <1>1, <1>3 DEF Hears, With
<1> QED
  BY <1>1, <1>2, <1>3, <1>5, <1>7, <1>8, <1>9, EventGoes

-----------------------------------------------------------------------------
(***************************************************************************)
(* Frames that complete calls.                                             *)
(***************************************************************************)
\* What was completed and what is completed now are told together.
LEMMA CompletesThem ==
  ASSUME NEW F, NEW T, NEW q, F \cup T \subseteq ToolCall, F \cap T = {}, Completes(q),
         IsFiniteSet(T), Lists(completed, {HeardOf(c)' : c \in F}),
         {[id |-> k, args |-> q[k].args] : k \in DOMAIN q} = {HeardOf(c)' : c \in T}
  PROVE  /\ Lists(completed', {HeardOf(c)' : c \in F \cup T})
         /\ DOMAIN deltas' = DOMAIN deltas \ DOMAIN q
<1> DEFINE R == {HeardOf(c)' : c \in F}
           Q == {HeardOf(c)' : c \in T}
<1>1. IsFiniteSet(Q)
  <2> DEFINE f == [c \in T |-> HeardOf(c)']
  <2>1. f \in Surjection(T, Q)
    BY DEF Surjection
  <2> QED
    BY <2>1, FS_Surjection
<1>2. R \cap Q = {}
  <2>1. SUFFICES ASSUME NEW c \in F, NEW d \in T, HeardOf(c)' = HeardOf(d)'
                 PROVE  FALSE
    OBVIOUS
  <2>2. c = d
    BY <2>1, KeysDiffer
  <2> QED
    BY <2>2
<1>3. /\ completed' = completed \o SetToSeq(Q)
      /\ deltas' = Without(deltas, DOMAIN q)
  BY DEF Completes
<1>4. Lists(SetToSeq(Q), Q)
  BY <1>1, SetToSeqLists
<1>5. R \cup Q = {HeardOf(c)' : c \in F \cup T}
  OBVIOUS
<1>6. Lists(completed, R)
  OBVIOUS
<1> HIDE DEF R, Q
<1>7. Lists(completed \o SetToSeq(Q), R \cup Q)
  BY <1>2, <1>4, <1>6, ListsTogether
<1> QED
  BY <1>3, <1>5, <1>7 DEF Without

LEMMA CallsAreFinite ==
  ASSUME NEW T \in SUBSET ToolCall
  PROVE  IsFiniteSet(T)
<1>1. 0 \in Int /\ Calls - 1 \in Int
  BY StreamAssumption
<1>2. IsFiniteSet(ToolCall)
  BY <1>1, FS_Interval DEF ToolCall
<1> QED
  BY <1>2, FS_Subset

\* What is pending says the same of the calls that are not finished.
LEMMA PendingTells ==
  ASSUME PendingInv
  PROVE  /\ DOMAIN WithName(pending) = {KeyOf(c) : c \in Unfinished \ nameless}
         /\ {[id |-> k, args |-> WithName(pending)[k].args] : k \in DOMAIN WithName(pending)}
              = {HeardOf(c) : c \in Unfinished \ nameless}
         /\ DOMAIN pending = {KeyOf(c) : c \in Unfinished}
         /\ pending = Nothing <=> Unfinished = {}
<1> DEFINE q == WithName(pending)
<1>1. DOMAIN pending = {KeyOf(c) : c \in Unfinished}
  BY DEF PendingInv
<1>2. \A c \in Unfinished : /\ KeyOf(c) \in DOMAIN pending
                            /\ pending[KeyOf(c)].args = Arguments(c, sent[c])
                            /\ pending[KeyOf(c)].name = NameOf(c)
  <2>1. \A c \in Unfinished : KeyOf(c) \in DOMAIN pending /\ pending[KeyOf(c)] = KnownOf(c)
    BY <1>1 DEF PendingInv
  <2> QED
    BY <2>1, KnownParts
<1>3. DOMAIN q = {k \in DOMAIN pending : pending[k].name # "none"} /\ \A k \in DOMAIN q : q[k] = pending[k]
  BY DEF WithName
<1> HIDE DEF q
<1>a. \A c \in Unfinished : pending[KeyOf(c)].name # "none" <=> c \notin nameless
  BY <1>2 DEF NameOf
<1>4. DOMAIN q = {KeyOf(c) : c \in Unfinished \ nameless}
  BY <1>1, <1>3, <1>a
<1>5. \A c \in Unfinished \ nameless : HeardOf(c) = [id |-> KeyOf(c), args |-> q[KeyOf(c)].args]
  BY <1>2, <1>3, <1>4 DEF HeardOf
<1>6. {[id |-> k, args |-> q[k].args] : k \in DOMAIN q} = {HeardOf(c) : c \in Unfinished \ nameless}
  BY <1>4, <1>5
<1>7. Unfinished = {} => pending = Nothing
  BY DEF PendingInv, Nothing
<1>8. pending = Nothing => DOMAIN pending = {}
  BY DEF Nothing
<1>9. pending = Nothing => Unfinished = {}
  BY <1>1, <1>8
<1> QED
  BY <1>1, <1>4, <1>6, <1>7, <1>9 DEF q

\* A frame of the end of the answer.
LEMMA FrameFacts ==
  ASSUME AskedInv, WhereInv, Reading, stage' \in {"calls", "told", "finished"},
         failed' \in {"no", "quiet", "open"}, UNCHANGED <<renamed, broke>>
  PROVE  /\ AskedInv' /\ WhereInv' /\ streamAt' = "reading"
         /\ format' = format /\ style' = style /\ nameless' = nameless
<1>1. /\ streamAt = "reading" /\ streamAt' = "reading"
      /\ UNCHANGED <<format, style, fields, nameless, stripped, posts>>
  BY DEF Reading, requestVars, postVars
<1>2. AskedInv'
  BY <1>1 DEF AskedInv
<1>3. WhereInv'
  BY <1>1 DEF WhereInv
<1> QED
  BY <1>1, <1>2, <1>3

\* It leaves what is known of the text.
LEMMA TextKept ==
  ASSUME TextInv, UNCHANGED textVars, stage' # "calls" \/ (stage' = stage /\ Opened' = Opened)
  PROVE  TextInv' /\ inlined' = inlined
<1>1. UNCHANGED <<inText, begun, buffer, inlined, overlooked>>
  BY DEF textVars
<1> QED
  BY <1>1 DEF TextInv, TextCallsAreTold

\* As long as nothing is sent, calls keep their ids and pieces.
LEMMA NothingSent ==
  ASSUME UNCHANGED <<sent, named, style, nameless>>
  PROVE  /\ Opened' = Opened
         /\ \A c : KeyOf(c)' = KeyOf(c) /\ HeardOf(c)' = HeardOf(c) /\ KnownOf(c)' = KnownOf(c)
         /\ SentInv => SentInv'
BY DEF Opened, KeyOf, HeardOf, KnownOf, IndexOf, NameOf, SentInv, Unopened

\* The parser forgets some calls, and goes on knowing the others.
LEMMA Forgets ==
  ASSUME PendingInv, Unfinished \subseteq ToolCall, NEW G \in SUBSET Unfinished, NEW K,
         K \cap DOMAIN pending = {KeyOf(c) : c \in G},
         pending' = Without(pending, K), Unfinished' = Unfinished \ G,
         \A c \in Unfinished' : KeyOf(c)' = KeyOf(c) /\ KnownOf(c)' = KnownOf(c)
  PROVE  PendingInv'
<1>1. DOMAIN pending = {KeyOf(c) : c \in Unfinished}
  BY PendingTells
<1>2. \A c \in Unfinished' : c \in Unfinished /\ KeyOf(c)' = KeyOf(c) /\ KeyOf(c) \in DOMAIN pending \ K
  <2>1. SUFFICES ASSUME NEW c \in Unfinished \ G, KeyOf(c) \in K
                 PROVE  FALSE
    BY <1>1
  <2>2. PICK d \in G : KeyOf(c) = KeyOf(d)
    BY <2>1, <1>1
  <2> QED
    BY <2>1, <2>2, KeysDiffer
<1>3. DOMAIN pending' = DOMAIN pending \ K /\ \A k \in DOMAIN pending' : pending'[k] = pending[k]
  BY DEF Without
<1>4. \A k \in DOMAIN pending' : \E c \in Unfinished' : k = KeyOf(c)'
  <2>1. SUFFICES ASSUME NEW c \in Unfinished, KeyOf(c) \notin K
                 PROVE  \E d \in Unfinished' : KeyOf(c) = KeyOf(d)'
    BY <1>1, <1>3
  <2>2. c \in Unfinished'
    BY <2>1, <1>1
  <2> QED
    BY <2>2
<1>5. DOMAIN pending' = {KeyOf(c)' : c \in Unfinished'}
  BY <1>2, <1>3, <1>4
<1>6. pending' = [k \in DOMAIN pending' |-> pending'[k]]
  BY DEF Without
<1>7. \A c \in Unfinished' : pending'[KeyOf(c)'] = KnownOf(c)'
  <2>1. SUFFICES ASSUME NEW c \in Unfinished'
                 PROVE  pending'[KeyOf(c)'] = KnownOf(c)'
    OBVIOUS
  <2>2. c \in Unfinished /\ KeyOf(c)' = KeyOf(c) /\ KeyOf(c) \in DOMAIN pending'
    BY <1>2, <1>3
  <2>3. pending[KeyOf(c)] = KnownOf(c)
    BY <2>2 DEF PendingInv
  <2> QED
    BY <2>2, <2>3, <1>3
<1> QED
  BY <1>5, <1>6, <1>7 DEF PendingInv

\* When all that have a name are completed, the others are left, and what was heard of them.
LEMMA AllAreTold ==
  ASSUME PendingInv, HeardInv, Unfinished \subseteq Opened, UNCHANGED <<sent, named, style, nameless>>,
         NEW q, Completes(q), DOMAIN q = {KeyOf(c) : c \in Unfinished \ nameless},
         {[id |-> k, args |-> q[k].args] : k \in DOMAIN q} = {HeardOf(c) : c \in Unfinished \ nameless}
  PROVE  /\ Lists(completed', {HeardOf(c)' : c \in Opened \ nameless})
         /\ ~renamed => DOMAIN deltas' \subseteq {KeyOf(c)' : c \in Opened' \cap nameless'}
         /\ Unfinished' \subseteq nameless /\ renamed' = renamed => HeardInv'
<1>1. /\ Opened' = Opened /\ Opened \subseteq ToolCall /\ nameless' = nameless
      /\ \A c : HeardOf(c)' = HeardOf(c) /\ KeyOf(c)' = KeyOf(c)
  BY NothingSent DEF Opened
<1>2. Lists(completed, {HeardOf(c)' : c \in Told})
  BY <1>1 DEF HeardInv
<1>3. {[id |-> k, args |-> q[k].args] : k \in DOMAIN q} = {HeardOf(c)' : c \in Unfinished \ nameless}
  BY <1>1
<1>4. /\ Told \cup (Unfinished \ nameless) = Opened \ nameless /\ Told \cap (Unfinished \ nameless) = {}
      /\ Told \cup (Unfinished \ nameless) \subseteq ToolCall
  BY <1>1 DEF Told
<1>5. IsFiniteSet(Unfinished \ nameless)
  BY <1>4, CallsAreFinite
<1>6. /\ Lists(completed', {HeardOf(c)' : c \in Told \cup (Unfinished \ nameless)})
      /\ DOMAIN deltas' = DOMAIN deltas \ DOMAIN q
  BY <1>2, <1>3, <1>4, <1>5, CompletesThem
<1>7. Lists(completed', {HeardOf(c)' : c \in Opened \ nameless})
  BY <1>4, <1>6
<1>8. ~renamed => DOMAIN deltas' \subseteq {KeyOf(c)' : c \in Opened' \cap nameless'}
  <2>1. {KeyOf(c)' : c \in Opened' \cap nameless'} = {KeyOf(c) : c \in Opened \cap nameless}
    BY <1>1
  <2>2. DOMAIN pending \subseteq DOMAIN q \cup {KeyOf(c) : c \in Opened \cap nameless}
    BY PendingTells
  <2> QED
    BY <2>1, <2>2, <1>6 DEF HeardInv
<1>9. ASSUME Unfinished' \subseteq nameless, renamed' = renamed
      PROVE  HeardInv'
  <2>1. Told' = Opened \ nameless
    BY <1>1, <1>9 DEF Told
  <2>2. {HeardOf(c)' : c \in Told'} = {HeardOf(c)' : c \in Opened \ nameless}
    BY <2>1
  <2> QED
    BY <2>2, <1>7, <1>8, <1>9 DEF HeardInv, Lists
<1> QED
  BY <1>7, <1>8, <1>9

LEMMA ChatFinishGoes ==
  ASSUME AskedInv, StreamGoes, NEW reason \in Reason, ChatFinish(reason)
  PROVE  AskedInv' /\ StreamGoes' /\ streamAt' = "reading"
<1>1. /\ Reading /\ format = "chat_completions" /\ stage = "calls" /\ broke' = broke
      /\ stage' = "finished" /\ said' = reason /\ (reason = "tool_calls" => Opened # {})
      /\ Completes(WithName(pending)) /\ pending' = Nothing
      /\ finish' = (IF pending = Nothing THEN Settled(reason) ELSE "tool_calls")
      /\ UNCHANGED textVars
      /\ UNCHANGED <<sent, named, block, byIndex, done, failed, renamed>>
  BY DEF ChatFinish, Frame, FrameAt
<1>2. WhereInv /\ SentInv /\ PendingInv /\ IndexInv /\ HeardInv /\ TextInv /\ ReasonInv
  BY DEF StreamGoes
<1>3. failed = "no" /\ failed' = "no"
  BY <1>1, <1>2 DEF ReasonInv
<1>4. AskedInv' /\ WhereInv' /\ streamAt' = "reading" /\ format' = format /\ style' = style /\ nameless' = nameless
  BY <1>1, <1>2, <1>3, FrameFacts
<1>5. Opened' = Opened /\ SentInv' /\ Unfinished = Opened /\ Unfinished' = {}
  BY <1>1, <1>2, <1>4, NothingSent DEF Unfinished
<1>6. PendingInv'
  BY <1>1, <1>5 DEF PendingInv, Nothing
<1>7. HeardInv'
  BY <1>1, <1>2, <1>4, <1>5, PendingTells, AllAreTold
<1>8. IndexInv' /\ BlockInv'
  BY <1>1, <1>2, <1>4 DEF IndexInv, BlockInv
<1>9. pending = Nothing <=> Opened = {}
  BY <1>2, <1>5, PendingTells
<1>10. TextInv' /\ inlined' = inlined
  BY <1>1, <1>2, TextKept
<1>11. ReasonInv'
  BY <1>1, <1>2, <1>3, <1>4, <1>5, <1>9, <1>10 DEF ReasonInv, Settled, Reason
<1> QED
  BY <1>4, <1>5, <1>6, <1>7, <1>8, <1>10, <1>11 DEF StreamGoes

LEMMA ResponseCompletedGoes ==
  ASSUME AskedInv, StreamGoes, NEW reason \in Reason \ {"tool_calls"}, ResponseCompleted(reason)
  PROVE  AskedInv' /\ StreamGoes' /\ streamAt' = "reading"
<1> DEFINE left == {c \in Opened \ nameless : Id(c) \notin done}
           q == [id \in {Id(c) : c \in left} |-> [args |-> Arguments(id[2], sent[id[2]])]]
           given == IF reason = "stop" /\ (done # {} \/ left # {}) THEN "tool_calls" ELSE reason
<1>1. /\ Reading /\ format = "responses" /\ stage = "calls" /\ broke' = broke
      /\ stage' = "finished" /\ said' = reason /\ Completes(q)
      /\ pending' = Without(pending, {Id(c) : c \in left})
      /\ finish' = Settled(given)
      /\ UNCHANGED textVars
      /\ UNCHANGED <<sent, named, block, byIndex, done, failed, renamed>>
  BY DEF ResponseCompleted, Frame, FrameAt
<1>2. WhereInv /\ SentInv /\ PendingInv /\ IndexInv /\ HeardInv /\ TextInv /\ ReasonInv
  BY DEF StreamGoes
<1>3. failed = "no" /\ inlined = <<>> /\ finish = NoReason /\ NoReason \notin Reason /\ failed' = "no"
  BY <1>1, <1>2, StreamAssumption DEF ReasonInv, Reason
<1>4. AskedInv' /\ WhereInv' /\ streamAt' = "reading" /\ format' = format /\ style' = style /\ nameless' = nameless
  BY <1>1, <1>2, <1>3, FrameFacts
<1>5. /\ Opened' = Opened /\ SentInv' /\ Unfinished \subseteq Opened /\ Opened \subseteq ToolCall
      /\ Unfinished \ nameless = left /\ Unfinished' = Unfinished \ left /\ left \subseteq Unfinished
  <2>1. Opened' = Opened /\ SentInv' /\ Opened \subseteq ToolCall
    BY <1>1, <1>2, <1>4, NothingSent DEF Opened
  <2>2. Unfinished = {c \in Opened : Id(c) \notin done}
    BY <1>1 DEF Unfinished
  <2>3. Unfinished' = {c \in Opened : Id(c) \notin done /\ c \in nameless}
    BY <2>1, <1>1, <1>3, <1>4 DEF Unfinished, Id
  <2> QED
    BY <2>1, <2>2, <2>3
<1>6. \A c \in left : KeyOf(c) = Id(c)
  BY <1>1, <1>2, EventsAreNamed
<1>7. DOMAIN q = {KeyOf(c) : c \in left} /\ DOMAIN pending = {KeyOf(c) : c \in Unfinished}
  BY <1>2, <1>6, PendingTells
<1>8. {[id |-> k, args |-> q[k].args] : k \in DOMAIN q} = {HeardOf(c) : c \in left}
  <2>1. \A c \in left : q[Id(c)].args = Arguments(c, sent[c])
    BY DEF Id
  <2>2. \A c \in left : HeardOf(c) = [id |-> Id(c), args |-> q[Id(c)].args]
    BY <2>1, <1>6 DEF HeardOf
  <2>3. DOMAIN q = {Id(c) : c \in left}
    OBVIOUS
  <2> HIDE DEF q, left
  <2> QED
    BY <2>2, <2>3
<1>a. DOMAIN q = {KeyOf(c) : c \in Unfinished \ nameless}
      /\ {[id |-> k, args |-> q[k].args] : k \in DOMAIN q} = {HeardOf(c) : c \in Unfinished \ nameless}
  BY <1>5, <1>7, <1>8
<1>b. {Id(c) : c \in left} \cap DOMAIN pending = {KeyOf(c) : c \in left}
  BY <1>5, <1>6, <1>7
<1>c. \A c : KeyOf(c)' = KeyOf(c) /\ KnownOf(c)' = KnownOf(c)
  BY <1>1, <1>4, NothingSent
<1> HIDE DEF q
<1>9. PendingInv'
  <2> DEFINE K == {Id(c) : c \in left}
  <2>1. pending' = Without(pending, K) /\ K \cap DOMAIN pending = {KeyOf(c) : c \in left}
    BY <1>1, <1>b
  <2>2. Unfinished \subseteq ToolCall /\ left \in SUBSET Unfinished /\ Unfinished' = Unfinished \ left
    BY <1>5
  <2> HIDE DEF K, left
  <2> QED
    BY <2>1, <2>2, <1>2, <1>c, Forgets
<1>10. HeardInv'
  <2>1. Unfinished' \subseteq nameless
    BY <1>5
  <2> QED
    BY <2>1, <1>1, <1>2, <1>4, <1>5, <1>a, AllAreTold
<1>11. IndexInv' /\ BlockInv'
  BY <1>1, <1>2, <1>4, <1>5 DEF IndexInv, BlockInv
<1>12. finish' = given
  BY <1>1, <1>3 DEF Settled, Reason
<1>13. TextInv' /\ inlined' = <<>>
  BY <1>1, <1>2, <1>3, TextKept
<1>14. Opened \ nameless # {} => done # {} \/ left # {}
  OBVIOUS
<1>15. done # {} \/ left # {} => Opened # {}
  BY <1>1, <1>2 DEF IndexInv
<1> HIDE DEF left
<1>16. ReasonInv'
  BY <1>1, <1>3, <1>4, <1>5, <1>12, <1>13, <1>14, <1>15 DEF ReasonInv, Reason
<1> QED
  BY <1>4, <1>5, <1>9, <1>10, <1>11, <1>13, <1>16 DEF StreamGoes

\* A frame that touches no call leaves what is known of the calls.
LEMMA NoCallTouched ==
  ASSUME StreamGoes, Unfinished' = Unfinished,
         UNCHANGED <<sent, named, style, format, nameless, pending, byIndex, done, completed, deltas, renamed>>
  PROVE  SentInv' /\ PendingInv' /\ IndexInv' /\ HeardInv' /\ Opened' = Opened /\ (block' = block => BlockInv')
<1>1. SentInv /\ PendingInv /\ IndexInv /\ BlockInv /\ HeardInv
  BY DEF StreamGoes
<1>2. /\ Opened' = Opened /\ SentInv'
      /\ \A c : KeyOf(c)' = KeyOf(c) /\ HeardOf(c)' = HeardOf(c) /\ KnownOf(c)' = KnownOf(c)
  BY <1>1, NothingSent
<1>3. {KeyOf(c)' : c \in Unfinished'} = {KeyOf(c) : c \in Unfinished}
  BY <1>2
<1>4. PendingInv'
  <2>1. pending = [k \in {KeyOf(c) : c \in Unfinished} |-> pending[k]]
    BY <1>1 DEF PendingInv
  <2>2. pending' = [k \in {KeyOf(c)' : c \in Unfinished'} |-> pending'[k]]
    BY <2>1, <1>3
  <2>3. \A c \in Unfinished' : pending'[KeyOf(c)'] = KnownOf(c)'
    BY <1>1, <1>2 DEF PendingInv
  <2> QED
    BY <2>2, <2>3 DEF PendingInv
<1>5. IndexInv' /\ (block' = block => BlockInv')
  BY <1>1, <1>2 DEF IndexInv, BlockInv
<1>6. Told' = Told
  BY <1>2 DEF Told
<1>7. {HeardOf(c)' : c \in Told'} = {HeardOf(c) : c \in Told}
  BY <1>2, <1>6
<1>8. {KeyOf(c)' : c \in Opened' \cap nameless'} = {KeyOf(c) : c \in Opened \cap nameless}
  BY <1>2
<1>9. HeardInv'
  BY <1>1, <1>7, <1>8 DEF HeardInv, Lists
<1> QED
  BY <1>2, <1>4, <1>5, <1>9

\* response.output_item.done completes one call, and only one, if it has a name.
LEMMA ItemDoneGoes ==
  ASSUME AskedInv, StreamGoes, NEW c \in ToolCall, NEW n \in 0 .. Pieces, ItemDone(c, n)
  PROVE  AskedInv' /\ StreamGoes' /\ streamAt' = "reading"
<1> DEFINE had == Entry(pending, Id(c), c)
           all == [had EXCEPT !.args = IF @ = <<>> THEN Arguments(c, Pieces) ELSE @]
           q == [id \in {Id(c)} |-> all]
<1>1. /\ Reading /\ format = "responses" /\ stage = "calls" /\ broke' = broke
      /\ Id(c) \notin done /\ Sends(c, n, TRUE) /\ sent'[c] = Pieces /\ n \in {0, Pieces}
      /\ \/ /\ all.name # "none" /\ Completes(q)
            /\ done' = done \cup {Id(c)} /\ pending' = Without(pending, {Id(c)})
         \/ all.name = "none" /\ pending' = With(pending, Id(c), all) /\ UNCHANGED <<done, completed, deltas>>
      /\ byIndex' = With(byIndex, c, Id(c))
      /\ UNCHANGED textVars
      /\ UNCHANGED <<block, finish, failed, renamed>>
  BY DEF ItemDone, Frame, FrameAt
<1>2. WhereInv /\ SentInv /\ PendingInv /\ IndexInv /\ HeardInv /\ TextInv /\ ReasonInv /\ TRUE \in BOOLEAN
  BY DEF StreamGoes
<1>3. style' = style /\ format' = format /\ nameless' = nameless
  BY <1>1 DEF Reading, requestVars
<1>4. /\ Unfinished = {d \in Opened : Id(d) \notin done}
      /\ \A d \in Unfinished : Id(d) \in DOMAIN pending /\ pending[Id(d)] = KnownOf(d)
      /\ c \notin Opened => Id(c) \notin done /\ Id(c) \notin DOMAIN pending
  BY <1>1, ResponseIsPending
<1>5. /\ SentInv' /\ Opened' = Opened \cup {c} /\ stage' = stage /\ said' = said /\ c \in Opened'
      /\ named' = named \cup {c}
      /\ \A d \in ToolCall \ {c} : KeyOf(d)' = KeyOf(d) /\ HeardOf(d)' = HeardOf(d) /\ sent'[d] = sent[d]
  BY <1>1, <1>2, <1>3, SendsMore
<1>6. Opened \subseteq ToolCall
  BY DEF Opened
<1>7. (\A d \in Opened : KeyOf(d) = Id(d)) /\ KeyOf(c)' = Id(c)
  BY <1>1, <1>2, <1>5, EventsAreNamed DEF KeyOf
<1>8. all = KnownOf(c)'
  <2>0. KnownOf(c)' = [index |-> IndexOf(c), name |-> NameOf(c), args |-> Arguments(c, Pieces)]
    BY <1>1, <1>3 DEF KnownOf, IndexOf, NameOf, Arguments
  <2>1. CASE c \notin Opened
    BY <2>0, <2>1, <1>4 DEF Entry
  <2>2. CASE c \in Opened
    <3>1. had = KnownOf(c)
      <4>1. c \in Unfinished
        BY <2>2, <1>1, <1>4
      <4> QED
        BY <4>1, <1>4 DEF Entry
    <3>2. sent[c] \in 0 .. Pieces /\ sent[c] + n = Pieces
      BY <2>2, <1>1, <1>2, StreamAssumption DEF Sends, SentInv, Opened, Unopened
    <3>3. sent[c] = Pieces \/ sent[c] = 0
      BY <3>2, <1>1, StreamAssumption
    <3>4. Arguments(c, 0) = <<>>
      BY DEF Arguments
    <3> HIDE DEF had
    <3>5. all = [index |-> IndexOf(c), name |-> NameOf(c),
                 args |-> IF Arguments(c, sent[c]) = <<>> THEN Arguments(c, Pieces) ELSE Arguments(c, sent[c])]
      BY <3>1 DEF KnownOf
    <3> QED
      BY <3>3, <3>4, <3>5, <2>0
  <2> QED
    BY <2>1, <2>2
<1> HIDE DEF had, all
<1>9. all.name # "none" <=> c \notin nameless
  BY <1>3, <1>8 DEF KnownOf, NameOf
<1>10. IndexInv' /\ BlockInv'
  <2>1. done' \subseteq {Id(d) : d \in Opened' \ nameless'}
    BY <1>1, <1>2, <1>3, <1>5, <1>9 DEF IndexInv
  <2> QED
    BY <2>1, <1>1, <1>2, <1>3, <1>5, <1>6 DEF IndexInv, BlockInv, With
<1>11. CASE c \in nameless
  <2>1. pending' = With(pending, Id(c), KnownOf(c)') /\ UNCHANGED <<done, completed, deltas>>
    BY <1>1, <1>8, <1>9, <1>11
  <2>2. Unfinished' = Unfinished \cup {c} /\ (c \in Unfinished \/ c \notin Opened)
    BY <2>1, <1>1, <1>3, <1>4, <1>5 DEF Unfinished, Id
  <2> QED
    BY <2>1, <2>2, <1>1, <1>2, <1>10, EventGoes
<1>12. CASE c \notin nameless
  <2>1. Completes(q) /\ done' = done \cup {Id(c)} /\ pending' = Without(pending, {Id(c)})
    BY <1>1, <1>9, <1>12
  <2>2. DOMAIN q = {Id(c)} /\ q[Id(c)].args = Arguments(c, sent'[c])
    BY <1>8 DEF KnownOf, Arguments
  <2>3. HeardOf(c)' = [id |-> Id(c), args |-> q[Id(c)].args]
    BY <2>2, <1>7 DEF HeardOf, Arguments
  <2> HIDE DEF q
  <2>4. {[id |-> k, args |-> q[k].args] : k \in DOMAIN q} = {HeardOf(d)' : d \in {c}}
    BY <2>2, <2>3
  <2>5. Unfinished' = Unfinished \ {c}
    <3>1. Unfinished' = {d \in Opened \cup {c} : Id(d) \notin done \cup {Id(c)}}
      BY <2>1, <1>1, <1>3, <1>5 DEF Unfinished, Id
    <3>2. \A d \in Opened \cup {c} : Id(d) = Id(c) => d = c
      BY <1>6, KeysDiffer
    <3> QED
      BY <3>1, <3>2, <1>4
  <2>6. Told' = Told \cup {c} /\ c \notin Told /\ Told \subseteq ToolCall
    BY <2>5, <1>1, <1>3, <1>4, <1>5, <1>6, <1>12 DEF Told
  <2>7. {HeardOf(d)' : d \in Told} = {HeardOf(d) : d \in Told}
    BY <2>6, <1>5
  <2>8. Lists(completed, {HeardOf(d)' : d \in Told})
    BY <2>7, <1>2 DEF HeardInv
  <2>9. Told \cup {c} \subseteq ToolCall /\ Told \cap {c} = {} /\ IsFiniteSet({c})
    BY <2>6, FS_Singleton
  <2>10. /\ Lists(completed', {HeardOf(d)' : d \in Told \cup {c}})
         /\ DOMAIN deltas' = DOMAIN deltas \ {Id(c)}
    BY <2>1, <2>2, <2>4, <2>8, <2>9, CompletesThem
  <2>11. HeardInv'
    <3>1. {HeardOf(d)' : d \in Told'} = {HeardOf(d)' : d \in Told \cup {c}}
      BY <2>6
    <3>2. {KeyOf(d) : d \in Opened \cap nameless} \subseteq {KeyOf(d)' : d \in Opened' \cap nameless'}
      BY <1>3, <1>5, <1>6, <1>12
    <3>3. ~renamed' => DOMAIN deltas' \subseteq DOMAIN pending' \cup {KeyOf(d)' : d \in Opened' \cap nameless'}
      BY <3>2, <2>1, <2>10, <1>1, <1>2 DEF HeardInv, Without
    <3> QED
      BY <3>1, <3>3, <2>10 DEF HeardInv, Lists
  <2>12. PendingInv'
    <3> DEFINE G == Unfinished \cap {c}
    <3>1. {Id(c)} \cap DOMAIN pending = {KeyOf(d) : d \in G}
      BY <1>1, <1>4, <1>6, <1>7
    <3>2. \A d \in Unfinished' : KeyOf(d)' = KeyOf(d) /\ KnownOf(d)' = KnownOf(d)
      BY <2>5, <1>3, <1>4, <1>5, <1>6 DEF KnownOf, IndexOf, NameOf, Arguments
    <3>3. Unfinished \subseteq ToolCall /\ Unfinished' = Unfinished \ G /\ G \in SUBSET Unfinished
      BY <2>5, <1>4, <1>6
    <3> HIDE DEF G
    <3> QED
      BY <3>1, <3>2, <3>3, <2>1, <1>2, Forgets
  <2>13. renamed' \in BOOLEAN /\ Opened' # {}
    BY <1>1, <1>2, <1>5 DEF WhereInv
  <2>14. AskedInv' /\ WhereInv' /\ TextInv' /\ ReasonInv' /\ streamAt' = "reading"
    BY <2>13, <1>1, <1>2, <1>5, FrameGoesOn
  <2> QED
    BY <2>11, <2>12, <2>14, <1>5, <1>10 DEF StreamGoes
<1> QED
  BY <1>11, <1>12

\* content_block_stop completes the call of the block, if it has a name.
LEMMA BlockStopGoes ==
  ASSUME AskedInv, StreamGoes, NEW c \in ToolCall, BlockStop(c)
  PROVE  AskedInv' /\ StreamGoes' /\ streamAt' = "reading"
<1> DEFINE q == Restrict(pending, {byIndex[c]})
<1>1. /\ Reading /\ format = "messages" /\ stage = "calls" /\ broke' = broke
      /\ c \in block /\ block' = {}
      /\ \/ /\ pending[byIndex[c]].name # "none" /\ Completes(q)
            /\ done' = done \cup {byIndex[c]}
            /\ pending' = Without(pending, {byIndex[c]}) /\ byIndex' = Without(byIndex, {c})
         \/ pending[byIndex[c]].name = "none" /\ UNCHANGED <<completed, deltas, done, pending, byIndex>>
      /\ UNCHANGED textVars
      /\ UNCHANGED <<sent, named, stage, said, finish, failed, renamed>>
  BY DEF BlockStop, Frame, FrameAt
<1>2. WhereInv /\ SentInv /\ PendingInv /\ IndexInv /\ BlockInv /\ HeardInv /\ TextInv /\ ReasonInv
  BY DEF StreamGoes
<1>3. AskedInv' /\ WhereInv' /\ streamAt' = "reading" /\ format' = format /\ style' = style /\ nameless' = nameless
  <2>1. stage' \in {"calls", "told", "finished"} /\ failed' \in {"no", "quiet", "open"}
    BY <1>1, <1>2 DEF WhereInv
  <2> QED
    BY <1>1, <1>2, <2>1, FrameFacts
<1>4. /\ Unfinished = DOMAIN byIndex /\ c \in Unfinished /\ c \in Opened /\ byIndex[c] = Id(c)
      /\ Id(c) \in DOMAIN pending /\ pending[Id(c)] = KnownOf(c) /\ Unfinished \subseteq ToolCall
      /\ Unfinished \ {c} \subseteq nameless
  <2>1. c \in DOMAIN byIndex /\ DOMAIN byIndex \ {c} \subseteq nameless
    BY <1>1, <1>2 DEF BlockInv
  <2> QED
    BY <2>1, <1>1, BlockIsPending
<1>5. pending[byIndex[c]].name # "none" <=> c \notin nameless
  BY <1>4 DEF KnownOf, NameOf
<1>6. /\ Opened' = Opened /\ SentInv' /\ Unfinished \subseteq Opened
      /\ \A d : KeyOf(d)' = KeyOf(d) /\ KnownOf(d)' = KnownOf(d)
  BY <1>1, <1>2, <1>3, <1>4, NothingSent DEF IndexInv
<1>7. KeyOf(c) = Id(c)
  BY <1>1, <1>2, <1>4, EventsAreNamed
<1>8. TextInv' /\ inlined' = inlined
  BY <1>1, <1>2, <1>6, TextKept
<1>9. failed = "no" /\ said = NoReason /\ NoReason \notin Reason
  BY <1>1, <1>2, StreamAssumption DEF ReasonInv, Reason
<1>10. ReasonInv'
  BY <1>1, <1>2, <1>3, <1>6, <1>8, <1>9 DEF ReasonInv, Reason
<1>11. CASE c \in nameless
  <2>1. UNCHANGED <<completed, deltas, done, pending, byIndex>>
    BY <1>1, <1>5, <1>11
  <2>2. Unfinished' = Unfinished
    BY <2>1, <1>1, <1>3 DEF Unfinished
  <2>3. PendingInv' /\ IndexInv' /\ HeardInv'
    BY <2>1, <2>2, <1>1, <1>3, NoCallTouched
  <2>4. BlockInv'
    BY <2>1, <1>1, <1>3, <1>4, <1>11 DEF BlockInv
  <2> QED
    BY <2>3, <2>4, <1>3, <1>6, <1>8, <1>10 DEF StreamGoes
<1>12. CASE c \notin nameless
  <2>1. /\ Completes(q) /\ pending' = Without(pending, {Id(c)}) /\ byIndex' = Without(byIndex, {c})
        /\ q = Restrict(pending, {Id(c)})
    BY <1>1, <1>4, <1>5, <1>12
  <2>2. /\ DOMAIN byIndex' = DOMAIN byIndex \ {c} /\ byIndex' = [d \in DOMAIN byIndex' |-> byIndex'[d]]
        /\ \A d \in DOMAIN byIndex' : byIndex'[d] = byIndex[d]
    BY <2>1 DEF Without
  <2>3. Unfinished' = Unfinished \ {c} /\ Unfinished' \subseteq nameless /\ Unfinished \ nameless = {c}
    BY <2>2, <1>1, <1>3, <1>4, <1>12 DEF Unfinished
  <2>4. DOMAIN q = {Id(c)} /\ q[Id(c)] = KnownOf(c)
    BY <2>1, <1>4 DEF Restrict
  <2> HIDE DEF q
  <2>5. HeardOf(c) = [id |-> Id(c), args |-> q[Id(c)].args]
    BY <2>4, <1>7 DEF HeardOf, KnownOf
  <2>6. /\ DOMAIN q = {KeyOf(d) : d \in Unfinished \ nameless}
        /\ {[id |-> k, args |-> q[k].args] : k \in DOMAIN q} = {HeardOf(d) : d \in Unfinished \ nameless}
    BY <2>3, <2>4, <2>5, <1>7
  <2>7. HeardInv'
    BY <2>1, <2>3, <2>6, <1>1, <1>2, <1>3, <1>6, AllAreTold
  <2>8. PendingInv'
    <3>1. {Id(c)} \cap DOMAIN pending = {KeyOf(d) : d \in {c}}
      BY <1>4, <1>7
    <3>2. {c} \in SUBSET Unfinished
      BY <1>4
    <3> QED
      BY <3>1, <3>2, <2>1, <2>3, <1>2, <1>4, <1>6, Forgets
  <2>9. IndexInv' /\ BlockInv'
    BY <2>2, <1>1, <1>2, <1>3, <1>4, <1>6 DEF IndexInv, BlockInv
  <2> QED
    BY <2>7, <2>8, <2>9, <1>3, <1>6, <1>8, <1>10 DEF StreamGoes
<1> QED
  BY <1>11, <1>12

-----------------------------------------------------------------------------
(***************************************************************************)
(* Frames that touch no call.                                              *)
(***************************************************************************)
\* One more at the end of a sequence in order.
LEMMA OneMore ==
  ASSUME NEW s \in Seq(Nat), NEW m \in Nat, NEW k \in Nat, NEW x \in Nat, m < x, x <= k,
         NEW t, t = Append(s, x),
         \A i, j \in DOMAIN s : i < j => s[i] < s[j], \A i \in DOMAIN s : s[i] \in 1 .. m
  PROVE  /\ t \in Seq(Nat) /\ Len(t) = Len(s) + 1 /\ t # <<>>
         /\ \A i, j \in DOMAIN t : i < j => t[i] < t[j]
         /\ \A i \in DOMAIN t : t[i] \in 1 .. k
<1>1. /\ t \in Seq(Nat) /\ Len(t) = Len(s) + 1 /\ t # <<>>
      /\ \A i \in 1 .. Len(s) : t[i] = s[i]
      /\ t[Len(s) + 1] = x
  BY AppendProperties
<1>2. Len(s) \in Nat /\ DOMAIN s = 1 .. Len(s) /\ DOMAIN t = 1 .. Len(s) + 1
  BY <1>1
<1>3. \A i \in 1 .. Len(s) : t[i] \in 1 .. m
  BY <1>1, <1>2
<1>4. \A i \in 1 .. Len(s) + 1 : i \in 1 .. Len(s) \/ i = Len(s) + 1
  BY <1>2
<1>5. \A i \in DOMAIN t : t[i] \in 1 .. k
  BY <1>1, <1>2, <1>3, <1>4
<1>6. ASSUME NEW i \in DOMAIN t, NEW j \in DOMAIN t, i < j
      PROVE  t[i] < t[j]
  <2>1. i \in 1 .. Len(s)
    BY <1>2, <1>6
  <2>2. CASE j = Len(s) + 1
    BY <2>1, <2>2, <1>1, <1>3
  <2>3. CASE j \in 1 .. Len(s)
    BY <2>1, <2>3, <1>1, <1>2, <1>6
  <2> QED
    BY <2>2, <2>3, <1>2, <1>4
<1> QED
  BY <1>1, <1>5, <1>6

\* Calls in the text are told in order, and none is missed that is looked for.
LEMMA TextFrameGoes ==
  ASSUME AskedInv, StreamGoes, NEW ends \in 0 .. Inlines, NEW begins \in BOOLEAN, TextFrame(ends, begins)
  PROVE  AskedInv' /\ StreamGoes' /\ streamAt' = "reading"
<1> DEFINE first == IF buffer # 0 THEN buffer ELSE IF begun THEN inText + 2 ELSE inText + 1
<1>1. /\ Reading /\ format = "chat_completions" /\ stage = "calls" /\ broke' = broke
      /\ (ends = 0 => begins /\ ~begun)
      /\ inText' = inText + ends /\ begun' = begins
      /\ overlooked' = (overlooked \/ Opened # {} \/ (begins /\ ends > 0) \/ ends > 1)
      /\ \/ pending = Nothing /\ first <= inText'
            /\ inlined' = Append(inlined, first) /\ finish' = "tool_calls" /\ buffer' = 0
         \/ pending = Nothing /\ first > inText' /\ buffer' = (IF begins THEN first ELSE buffer)
            /\ UNCHANGED <<inlined, finish>>
         \/ pending # Nothing /\ UNCHANGED <<inlined, finish, buffer>>
      /\ UNCHANGED <<sent, named, stage, block, said, pending, byIndex, done, completed, deltas, failed, renamed>>
  BY DEF TextFrame, Frame, FrameAt, answerVars, listenerVars
<1>2. WhereInv /\ SentInv /\ PendingInv /\ IndexInv /\ BlockInv /\ HeardInv /\ TextInv /\ ReasonInv
  BY DEF StreamGoes
<1>3. /\ streamAt = "reading" /\ streamAt' = "reading"
      /\ UNCHANGED <<format, style, fields, nameless, stripped, posts>>
  BY <1>1 DEF Reading, requestVars, postVars
<1>4. Unfinished = Opened /\ (pending = Nothing <=> Opened = {})
  BY <1>1, <1>2, PendingTells DEF Unfinished
<1>5. Opened' = Opened /\ Unfinished' = Unfinished
  BY <1>1, <1>3 DEF Opened, Unopened, Unfinished
<1>6. SentInv' /\ PendingInv' /\ IndexInv' /\ BlockInv' /\ HeardInv'
  BY <1>1, <1>3, <1>5, NoCallTouched
<1>7. AskedInv' /\ WhereInv'
  BY <1>1, <1>2, <1>3, <1>5 DEF AskedInv, WhereInv
<1>8. /\ inText \in Nat /\ buffer \in Nat /\ inlined \in Seq(Nat) /\ ends \in Nat
      /\ \A i, j \in DOMAIN inlined : i < j => inlined[i] < inlined[j]
      /\ \A i \in DOMAIN inlined : inlined[i] \in 1 .. inText
      /\ ~overlooked => Len(inlined) = inText
      /\ Opened = {} => buffer \in {0, inText + 1}
      /\ ~overlooked /\ begun => buffer = inText + 1
  BY <1>1, <1>2, StreamAssumption DEF TextInv, TextCallsAreTold
<1>9. Opened = {} => first \in {inText + 1, inText + 2} /\ first \in Nat
  BY <1>8
<1>10. ~overlooked' => Opened = {} /\ ~overlooked /\ first = inText + 1 /\ (ends = 0 <=> begins) /\ ends \in {0, 1}
  <2>1. overlooked' = (overlooked \/ Opened # {} \/ (begins /\ ends > 0) \/ ends > 1)
    BY <1>1
  <2>2. ~overlooked' => Opened = {} /\ ~overlooked /\ ~(begins /\ ends > 0) /\ ~(ends > 1)
    BY ONLY <2>1, Zenon
  <2>3. Opened = {} /\ ~overlooked => first = inText + 1
    BY <1>8
  <2>4. ~(begins /\ ends > 0) /\ ~(ends > 1) => (ends = 0 <=> begins) /\ ends \in {0, 1}
    BY <1>1, <1>8
  <2> QED
    BY <2>2, <2>3, <2>4
<1>11. TextInv' /\ ReasonInv'
  <2>1. CASE pending = Nothing /\ first <= inText' /\ inlined' = Append(inlined, first)
             /\ finish' = "tool_calls" /\ buffer' = 0
    <3>1. Opened = {} /\ first \in {inText + 1, inText + 2} /\ first \in Nat
      BY <2>1, <1>4, <1>9
    <3> HIDE DEF first
    <3>2. inText' \in Nat /\ inText < first /\ first <= inText' /\ inlined' = Append(inlined, first)
      BY <2>1, <3>1, <1>1, <1>8
    <3>3. /\ inText \in Nat /\ inlined \in Seq(Nat)
          /\ \A i, j \in DOMAIN inlined : i < j => inlined[i] < inlined[j]
          /\ \A i \in DOMAIN inlined : inlined[i] \in 1 .. inText
      BY <1>8
    <3>4. /\ inlined' \in Seq(Nat) /\ Len(inlined') = Len(inlined) + 1 /\ inlined' # <<>>
          /\ \A i, j \in DOMAIN inlined' : i < j => inlined'[i] < inlined'[j]
          /\ \A i \in DOMAIN inlined' : inlined'[i] \in 1 .. inText'
      BY ONLY <3>1, <3>2, <3>3, OneMore
    <3>6. ~overlooked' => Len(inlined') = inText' /\ ends = 1 /\ ~begins
      BY <2>1, <3>2, <3>4, <1>1, <1>8, <1>10
    <3>7. TextInv'
      BY <2>1, <3>2, <3>4, <3>6, <1>1 DEF TextInv, TextCallsAreTold
    <3>8. ReasonInv'
      <4>1. said = NoReason /\ NoReason \notin Reason /\ failed = "no" /\ inlined' # <<>>
        BY <3>4, <1>1, <1>2, StreamAssumption DEF ReasonInv, Reason
      <4> QED
        BY <4>1, <2>1, <1>1, <1>3 DEF ReasonInv, Reason
    <3> QED
      BY <3>7, <3>8
  <2>2. CASE pending = Nothing /\ first > inText' /\ buffer' = (IF begins THEN first ELSE buffer)
             /\ UNCHANGED <<inlined, finish>>
    <3>1. Opened = {} /\ first \in {inText + 1, inText + 2} /\ first \in Nat
      BY <2>2, <1>4, <1>9
    <3>2. begins => first = inText' + 1
      BY <2>2, <3>1, <1>1, <1>8
    <3>3. ~begins => buffer = 0
      BY <2>2, <3>1, <1>1, <1>8
    <3>4. ~overlooked' => Len(inlined) = inText'
      BY <2>2, <1>1, <1>8, <1>10
    <3>5. \A i \in DOMAIN inlined : inlined[i] \in 1 .. inText'
      BY <1>1, <1>8
    <3> HIDE DEF first
    <3>6. inText' \in Nat /\ buffer' \in {0, inText' + 1} /\ buffer' \in Nat /\ (begun' => buffer' = inText' + 1)
      BY <2>2, <3>1, <3>2, <3>3, <1>1, <1>8
    <3>7. TextInv'
      BY <2>2, <3>4, <3>5, <3>6, <1>8 DEF TextInv, TextCallsAreTold
    <3>8. ReasonInv'
      BY <2>2, <1>1, <1>2, <1>3, <1>5 DEF ReasonInv
    <3> QED
      BY <3>7, <3>8
  <2>3. CASE pending # Nothing /\ UNCHANGED <<inlined, finish, buffer>>
    <3>1. Opened # {} /\ overlooked'
      BY <2>3, <1>1, <1>4
    <3>2. \A i \in DOMAIN inlined : inlined[i] \in 1 .. inText'
      BY <1>1, <1>8
    <3>3. inText' \in Nat
      BY <1>1, <1>8
    <3> HIDE DEF first
    <3>4. TextInv'
      BY <2>3, <3>1, <3>2, <3>3, <1>5, <1>8 DEF TextInv, TextCallsAreTold
    <3>5. ReasonInv'
      BY <2>3, <1>1, <1>2, <1>3, <1>5 DEF ReasonInv
    <3> QED
      BY <3>4, <3>5
  <2> QED
    BY <2>1, <2>2, <2>3, <1>1
<1> QED
  BY <1>3, <1>6, <1>7, <1>11 DEF StreamGoes

\* message_delta gives the reason of the answer, or none that is known.
LEMMA MessageDeltaGoes ==
  ASSUME AskedInv, StreamGoes, NEW reason \in {"stop", "tool_calls", "length", NoReason},
         MessageDelta(reason)
  PROVE  AskedInv' /\ StreamGoes' /\ streamAt' = "reading"
<1>1. /\ Reading /\ format = "messages" /\ stage = "calls" /\ broke' = broke
      /\ stage' = "told" /\ finish' = Settled(reason) /\ said' = reason
      /\ reason = "tool_calls" => Opened # {}
      /\ UNCHANGED textVars
      /\ UNCHANGED <<sent, named, block, pending, byIndex, done, completed, deltas, failed, renamed>>
  BY DEF MessageDelta, Frame, FrameAt, listenerVars
<1>2. WhereInv /\ TextInv /\ ReasonInv
  BY DEF StreamGoes
<1>3. failed = "no" /\ failed' = "no" /\ inlined = <<>> /\ finish = NoReason /\ NoReason \notin Reason
  BY <1>1, <1>2, StreamAssumption DEF ReasonInv, Reason
<1>4. AskedInv' /\ WhereInv' /\ streamAt' = "reading" /\ format' = format /\ style' = style /\ nameless' = nameless
  BY <1>1, <1>2, <1>3, FrameFacts
<1>5. Unfinished' = Unfinished
  BY <1>1, <1>4 DEF Unfinished
<1>6. SentInv' /\ PendingInv' /\ IndexInv' /\ HeardInv' /\ Opened' = Opened /\ BlockInv'
  BY <1>1, <1>4, <1>5, NoCallTouched
<1>7. finish' = reason
  BY <1>1, <1>3 DEF Settled, Reason
<1>8. TextInv' /\ inlined' = <<>>
  BY <1>1, <1>2, <1>3, TextKept
<1>9. ReasonInv'
  BY <1>1, <1>3, <1>4, <1>6, <1>7, <1>8 DEF ReasonInv, Reason
<1> QED
  BY <1>4, <1>6, <1>8, <1>9 DEF StreamGoes

LEMMA MessageStopGoes ==
  ASSUME AskedInv, StreamGoes, MessageStop
  PROVE  AskedInv' /\ StreamGoes' /\ streamAt' = "reading"
<1>1. /\ Reading /\ format = "messages" /\ stage = "told" /\ broke' = broke
      /\ stage' = "finished" /\ finish' = Settled("stop") /\ said' = said
      /\ UNCHANGED textVars
      /\ UNCHANGED <<sent, named, block, pending, byIndex, done, completed, deltas, failed, renamed>>
  BY DEF MessageStop, FrameAt, listenerVars
<1>2. WhereInv /\ TextInv /\ ReasonInv
  BY DEF StreamGoes
<1>3. failed = "no" /\ failed' = "no" /\ inlined = <<>>
  BY <1>1, <1>2 DEF ReasonInv
<1>4. AskedInv' /\ WhereInv' /\ streamAt' = "reading" /\ format' = format /\ style' = style /\ nameless' = nameless
  BY <1>1, <1>2, <1>3, FrameFacts
<1>5. Unfinished' = Unfinished
  BY <1>1, <1>4 DEF Unfinished
<1>6. SentInv' /\ PendingInv' /\ IndexInv' /\ HeardInv' /\ Opened' = Opened /\ BlockInv'
  BY <1>1, <1>4, <1>5, NoCallTouched
<1>7. finish' = IF finish = "tool_calls" THEN "tool_calls" ELSE "stop"
  BY <1>1 DEF Settled
<1>8. TextInv' /\ inlined' = <<>>
  BY <1>1, <1>2, <1>3, TextKept
<1>9. ReasonInv'
  BY <1>1, <1>2, <1>3, <1>4, <1>6, <1>7, <1>8 DEF ReasonInv
<1> QED
  BY <1>4, <1>6, <1>8, <1>9 DEF StreamGoes

LEMMA ErrorFrameGoes ==
  ASSUME AskedInv, StreamGoes, ErrorFrame
  PROVE  AskedInv' /\ StreamGoes' /\ streamAt' = "reading"
<1>1. /\ Reading /\ format # "chat_completions" /\ stage = "calls" /\ broke' = broke
      /\ stage' = "finished" /\ finish' = Settled("error") /\ said' = said
      /\ failed' = (IF pending = Nothing THEN "quiet" ELSE "open")
      /\ UNCHANGED textVars
      /\ UNCHANGED <<sent, named, block, pending, byIndex, done, completed, deltas, renamed>>
  BY DEF ErrorFrame, Frame, FrameAt
<1>2. WhereInv /\ PendingInv /\ TextInv /\ ReasonInv
  BY DEF StreamGoes
<1>3. /\ inlined = <<>> /\ finish = NoReason /\ said = NoReason /\ NoReason \notin Reason
      /\ failed' # "no" /\ failed' \in {"no", "quiet", "open"}
  BY <1>1, <1>2, StreamAssumption DEF ReasonInv, Reason
<1>4. AskedInv' /\ WhereInv' /\ streamAt' = "reading" /\ format' = format /\ style' = style /\ nameless' = nameless
  BY <1>1, <1>2, <1>3, FrameFacts
<1>5. Unfinished' = Unfinished
  <2>1. Opened' = Opened
    BY <1>1 DEF Opened
  <2>2. CASE format = "responses"
    <3>1. Unfinished = {c \in Opened : Id(c) \notin done}
      BY <2>2, <1>1 DEF Unfinished
    <3>2. Unfinished' = {c \in Opened : Id(c) \notin done}
      BY <2>1, <2>2, <1>1, <1>3, <1>4 DEF Unfinished, Id
    <3> QED
      BY <3>1, <3>2
  <2>3. CASE format = "messages"
    BY <2>3, <1>1, <1>4 DEF Unfinished
  <2> QED
    BY <2>2, <2>3, <1>1 DEF AskedInv
<1>6. SentInv' /\ PendingInv' /\ IndexInv' /\ HeardInv' /\ Opened' = Opened /\ BlockInv'
  BY <1>1, <1>4, <1>5, NoCallTouched
<1>7. finish' = "error"
  BY <1>1, <1>3 DEF Settled, Reason
<1>8. failed' = "quiet" => Unfinished' = {}
  BY <1>1, <1>2, <1>5, PendingTells
<1>9. TextInv' /\ inlined' = <<>>
  BY <1>1, <1>2, <1>3, TextKept
<1>10. ReasonInv'
  BY <1>1, <1>3, <1>4, <1>7, <1>8, <1>9 DEF ReasonInv, Reason
<1> QED
  BY <1>4, <1>6, <1>9, <1>10 DEF StreamGoes

-----------------------------------------------------------------------------
(***************************************************************************)
(* The end of the stream.                                                  *)
(***************************************************************************)
\* What a list tells of the calls.
LEMMA ListIsAsSent ==
  ASSUME NEW T, T \subseteq Opened', Lists(completed', {HeardOf(c)' : c \in T}),
         T \cap nameless' = {} \/ (stage' = "whole" /\ format' = "chat_completions")
  PROVE  /\ CallsAreAsSent' /\ (Opened' \ nameless' \subseteq T => NoCallIsMissing')
         /\ completed' = <<>> <=> T = {}
<1> DEFINE R == {HeardOf(c)' : c \in T}
<1>1. T \subseteq ToolCall
  BY DEF Opened
<1>2. /\ \A i \in DOMAIN completed' : completed'[i] \in R
      /\ \A r \in R : \E i \in DOMAIN completed' : completed'[i] = r
      /\ \A i, j \in DOMAIN completed' : completed'[i] = completed'[j] => i = j
      /\ completed' \in Seq(R)
  BY DEF Lists
<1>3. \A c : HeardOf(c)' = [id |-> KeyOf(c)', args |-> Arguments(c, sent'[c])]
  BY DEF HeardOf, Arguments
<1>4. \A i \in DOMAIN completed' : \E c \in T :
        completed'[i].id = KeyOf(c)' /\ completed'[i].args = Arguments(c, sent'[c])
  BY <1>2, <1>3
<1>5. \A i, j \in DOMAIN completed' : completed'[i].id = completed'[j].id => i = j
  <2>1. SUFFICES ASSUME NEW i \in DOMAIN completed', NEW j \in DOMAIN completed',
                        completed'[i].id = completed'[j].id
                 PROVE  i = j
    OBVIOUS
  <2>2. PICK c \in T : completed'[i] = HeardOf(c)'
    BY <1>2
  <2>3. PICK d \in T : completed'[j] = HeardOf(d)'
    BY <1>2
  <2>4. HeardOf(c)'.id = KeyOf(c)' /\ HeardOf(d)'.id = KeyOf(d)'
    BY <1>3
  <2>5. c \in ToolCall /\ d \in ToolCall /\ KeyOf(c)' = KeyOf(d)'
    BY <2>1, <2>2, <2>3, <2>4, <1>1
  <2>6. c = d
    BY <2>5, KeysDiffer
  <2> QED
    BY <2>2, <2>3, <2>6, <1>2
<1>6. \A c \in T : c \in named' => KeyOf(c)' = Id(c)
  BY DEF KeyOf
<1>7. CallsAreAsSent'
  <2>1. \A i \in DOMAIN completed' : \E c \in Opened' :
          /\ completed'[i].args = Arguments(c, sent'[c])
          /\ c \in named' => completed'[i].id = Id(c)
          /\ c \in nameless' => stage' = "whole" /\ format' = "chat_completions"
    BY <1>4, <1>6
  <2> QED
    BY <1>5, <2>1 DEF CallsAreAsSent, Arguments, Id
<1>8. ASSUME Opened' \ nameless' \subseteq T
      PROVE  NoCallIsMissing'
  <2>1. \A c \in Opened' \ nameless' : \E i \in DOMAIN completed' :
          /\ completed'[i].args = Arguments(c, sent'[c])
          /\ c \in named' => completed'[i].id = Id(c)
    <3>1. SUFFICES ASSUME NEW c \in Opened' \ nameless'
                   PROVE  \E i \in DOMAIN completed' :
                            /\ completed'[i].args = Arguments(c, sent'[c])
                            /\ c \in named' => completed'[i].id = Id(c)
      OBVIOUS
    <3>2. c \in T
      BY <3>1, <1>8
    <3>3. PICK i \in DOMAIN completed' : completed'[i] = HeardOf(c)'
      BY <3>2, <1>2
    <3> QED
      BY <3>2, <3>3, <1>3, <1>6
  <2> QED
    BY <2>1 DEF NoCallIsMissing, Arguments, Id
<1>9. completed' = <<>> <=> T = {}
  <2>1. T = {} => R = {}
    OBVIOUS
  <2>2. T # {} => R # {}
    OBVIOUS
  <2> HIDE DEF R
  <2>3. R = {} => DOMAIN completed' = {}
    BY <1>2
  <2>4. DOMAIN completed' = 1 .. Len(completed') /\ Len(completed') \in Nat
    BY <1>2
  <2>5. R # {} => DOMAIN completed' # {}
    BY <1>2
  <2>6. completed' = <<>> <=> Len(completed') = 0
    BY <1>2, EmptySeq
  <2>7. DOMAIN completed' = {} <=> Len(completed') = 0
    BY <2>4
  <2> QED
    BY <2>1, <2>2, <2>3, <2>5, <2>6, <2>7
<1> QED
  BY <1>7, <1>8, <1>9

LEMMA PostsStayFew ==
  ASSUME AskedInv
  PROVE  PostsAreFew
BY DEF AskedInv, PostsAreFew

\* Breaking off is no lie.
LEMMA Breaks ==
  ASSUME AskedInv', PostsAreFew', StreamGoes, EndInError
  PROVE  StreamInv'
<1>1. /\ streamAt' = "over" /\ broke' = TRUE
      /\ UNCHANGED <<inText, inlined, overlooked>>
      /\ UNCHANGED <<format, style, fields, nameless, sent, named, stage, pending, byIndex, done, finish,
                     completed, deltas, failed, renamed>>
  BY DEF EndInError, requestVars, answerVars, textVars, parserVars
<1>2. Opened' = Opened /\ \A c : HeardOf(c)' = HeardOf(c)
  BY <1>1, NothingSent
<1>3. /\ Lists(completed', {HeardOf(c)' : c \in Told}) /\ Told \subseteq Opened' /\ Told \cap nameless' = {}
  BY <1>1, <1>2 DEF StreamGoes, HeardInv, Told
<1>4. CallsAreAsSent'
  BY <1>3, ListIsAsSent
<1>5. Over' /\ NoCallIsMissing' /\ NothingIsLeftOver' /\ StopIsTold'
  BY <1>1 DEF Over, NoCallIsMissing, NothingIsLeftOver, StopIsTold
<1>6. TextCallsAreTold'
  BY <1>1 DEF StreamGoes, TextInv, TextCallsAreTold
<1> QED
  BY <1>4, <1>5, <1>6 DEF StreamInv, StreamTellsItsCalls

LEMMA Ends ==
  ASSUME AskedInv, StreamGoes, StreamEnds
  PROVE  StreamInv'
<1> DEFINE q == WithName(pending)
<1>1. /\ streamAt' = "over" /\ Completes(q) /\ pending' = Nothing
      /\ finish' = (IF pending = Nothing THEN finish ELSE "tool_calls")
      /\ stop' = (IF finish' \in {"tool_calls", "length", "error"} THEN finish' ELSE "stop")
      /\ UNCHANGED <<inText, inlined, overlooked>>
      /\ UNCHANGED <<format, style, fields, nameless, stripped, posts, sent, named, stage, said, byIndex, done,
                     broke, failed, renamed>>
  BY DEF StreamEnds, requestVars, postVars, answerVars, textVars, endVars
<1>2. WhereInv /\ SentInv /\ PendingInv /\ IndexInv /\ HeardInv /\ TextInv /\ ReasonInv
  BY DEF StreamGoes
<1>3. AskedInv' /\ PostsAreFew'
  <2>1. AskedInv'
    BY <1>1 DEF AskedInv
  <2>2. PostsAreFew
    BY PostsStayFew
  <2> QED
    BY <2>1, <2>2, <1>1 DEF PostsAreFew
<1>4. Unfinished \subseteq Opened /\ Opened' = Opened
  BY <1>1, <1>2, UnfinishedAreOpen, NothingSent
<1>5. /\ DOMAIN q = {KeyOf(c) : c \in Unfinished \ nameless}
      /\ {[id |-> k, args |-> q[k].args] : k \in DOMAIN q} = {HeardOf(c) : c \in Unfinished \ nameless}
      /\ pending = Nothing <=> Unfinished = {}
  BY <1>2, PendingTells
<1> HIDE DEF q
<1>6. /\ Lists(completed', {HeardOf(c)' : c \in Opened \ nameless})
      /\ ~renamed => DOMAIN deltas' \subseteq {KeyOf(c)' : c \in Opened' \cap nameless'}
  BY <1>1, <1>2, <1>4, <1>5, AllAreTold
<1>7. CallsAreAsSent' /\ NoCallIsMissing' /\ (completed' = <<>> <=> Opened \ nameless = {})
  <2> DEFINE T == Opened \ nameless
  <2>1. T \subseteq Opened' /\ T \cap nameless' = {} /\ Opened' \ nameless' \subseteq T
    BY <1>1, <1>4
  <2>2. Lists(completed', {HeardOf(c)' : c \in T})
    BY <1>6
  <2> HIDE DEF T
  <2>3. CallsAreAsSent' /\ NoCallIsMissing' /\ (completed' = <<>> <=> T = {})
    BY <2>1, <2>2, ListIsAsSent
  <2> QED
    BY <2>3 DEF T
<1>8. NothingIsLeftOver'
  <2>1. deltas' = Without(deltas, DOMAIN q)
    BY <1>1 DEF Completes
  <2>2. ~renamed /\ Opened' \cap nameless' = {} => DOMAIN deltas' = {}
    BY <1>6
  <2>3. DOMAIN deltas' = {} => deltas' = Nothing
    BY <2>1 DEF Without, Nothing
  <2> QED
    BY <2>2, <2>3, <1>1 DEF NothingIsLeftOver, Nothing
<1>9. StopIsTold'
  <2>1. stop' = "tool_calls" => Opened # {} \/ inlined # <<>>
    BY <1>1, <1>2, <1>4, <1>5 DEF ReasonInv
  <2>2. Opened \ nameless # {} =>
          \/ stop' = "tool_calls"
          \/ format = "responses" /\ said # "stop"
          \/ format = "messages" /\ said # "tool_calls"
    <3>1. CASE format = "chat_completions"
      <4>1. stage = "calls" => Unfinished = Opened
        BY <3>1 DEF Unfinished
      <4> QED
        BY <4>1, <3>1, <1>1, <1>2, <1>5 DEF ReasonInv
    <3>2. CASE format = "responses"
      BY <3>2, <1>1, <1>2 DEF ReasonInv
    <3>3. CASE format = "messages"
      BY <3>3, <1>1, <1>2 DEF ReasonInv
    <3> QED
      BY <3>1, <3>2, <3>3 DEF AskedInv
  <2>3. inlined # <<>> => stop' = "tool_calls"
    BY <1>1, <1>2 DEF ReasonInv
  <2>4. failed = "quiet" => stop' = "error"
    BY <1>1, <1>2, <1>5 DEF ReasonInv
  <2>5. said \in {"length", "error"} => stop' \in {said, "tool_calls"} \/ (format = "messages" /\ stage = "finished")
    BY <1>1, <1>2 DEF ReasonInv
  <2> QED
    BY <2>1, <2>2, <2>3, <2>4, <2>5, <1>1, <1>4, <1>7 DEF StopIsTold
<1>10. TextCallsAreTold'
  BY <1>1, <1>2 DEF TextInv, TextCallsAreTold
<1> QED
  BY <1>1, <1>3, <1>7, <1>8, <1>9, <1>10 DEF StreamInv, StreamTellsItsCalls, Over

\* An answer in one piece.
LEMMA MaterializeTells ==
  ASSUME AskedInv, StreamGoes, NEW n \in 0 .. Calls, NEW reason \in Reason \cup {NoReason},
         Materialize(n, reason)
  PROVE  StreamInv'
<1> DEFINE all == 0 .. n - 1
           told == IF format = "chat_completions" THEN all ELSE all \ nameless
<1>1. /\ streamAt = "posting" /\ streamAt' = "over" /\ stage' = "whole"
      /\ format = "responses" => reason \in {"stop", "length", "error"}
      /\ format = "chat_completions" => reason # NoReason
      /\ reason = "tool_calls" => n > 0
      /\ sent' = [c \in ToolCall |-> IF c < n THEN Pieces ELSE Unopened] /\ named' = all
      /\ completed' = SetToSeq({[id |-> Id(c), args |-> Arguments(c, Pieces)] : c \in told})
      /\ stop' = MaterializedStop(told, reason)
      /\ said' = reason /\ inText' = texts /\ overlooked' = (texts # 0)
      /\ UNCHANGED <<format, style, fields, nameless, stripped, posts, inlined, deltas, broke, failed, renamed>>
  BY DEF Materialize, requestVars, postVars
<1>2. deltas = Nothing /\ failed = "no" /\ inlined = <<>>
  BY <1>1 DEF StreamGoes, WhereInv
<1>3. AskedInv' /\ PostsAreFew'
  <2>1. AskedInv'
    BY <1>1 DEF AskedInv
  <2>2. PostsAreFew
    BY PostsStayFew
  <2> QED
    BY <2>1, <2>2, <1>1 DEF PostsAreFew
<1>4. n \in Nat /\ Pieces \in Nat /\ Unopened = Pieces + 1 /\ Pieces # Unopened /\ Calls \in Nat /\ n <= Calls
  BY StreamAssumption DEF Unopened
<1>5. Opened' = all /\ \A c \in all : sent'[c] = Pieces /\ c \in ToolCall
  <2>1. \A c \in 0 .. n - 1 : c \in ToolCall /\ c < n
    BY <1>4 DEF ToolCall
  <2>2. \A c \in ToolCall : c < n => c \in 0 .. n - 1
    BY <1>4 DEF ToolCall
  <2>3. \A c \in ToolCall : sent'[c] = IF c < n THEN Pieces ELSE Unopened
    BY <1>1
  <2>4. Opened' = {c \in ToolCall : sent'[c] # Unopened}
    BY DEF Opened, Unopened
  <2> QED
    BY <2>1, <2>2, <2>3, <2>4, <1>4
<1>6. \A c \in all : HeardOf(c)' = [id |-> Id(c), args |-> Arguments(c, Pieces)]
  BY <1>1, <1>5 DEF HeardOf, KeyOf
<1>7. told \subseteq all /\ (told \cap nameless = {} \/ format = "chat_completions") /\ all \ nameless \subseteq told
  OBVIOUS
<1>8. (all = {} <=> n = 0) /\ (format = "chat_completions" => told = all)
  BY <1>4
<1> HIDE DEF told, all
<1>9. Lists(completed', {HeardOf(c)' : c \in told})
  <2> DEFINE R == {HeardOf(c)' : c \in told}
  <2>1. R = {[id |-> Id(c), args |-> Arguments(c, Pieces)] : c \in told}
    BY <1>6, <1>7
  <2>2. told \in SUBSET ToolCall
    BY <1>5, <1>7
  <2>3. IsFiniteSet(R)
    <3> DEFINE f == [c \in told |-> HeardOf(c)']
    <3>1. f \in Surjection(told, R)
      BY DEF Surjection
    <3> QED
      BY <3>1, <2>2, CallsAreFinite, FS_Surjection
  <2>4. completed' = SetToSeq(R)
    BY <2>1, <1>1
  <2> HIDE DEF R
  <2> QED
    BY <2>3, <2>4, SetToSeqLists DEF R
<1>10. CallsAreAsSent' /\ NoCallIsMissing' /\ (completed' = <<>> <=> told = {})
  BY <1>1, <1>5, <1>7, <1>9, ListIsAsSent
<1>11. NothingIsLeftOver'
  BY <1>1, <1>2 DEF NothingIsLeftOver, Nothing
<1>12. StopIsTold'
  <2>1. CASE format = "chat_completions"
    <3>1. stop' = IF told # {} THEN "tool_calls" ELSE reason
      BY <2>1, <1>1 DEF MaterializedStop
    <3>2. stop' = "tool_calls" <=> told # {}
      BY <3>1, <2>1, <1>1, <1>4, <1>8
    <3> QED
      BY <3>1, <3>2, <1>1, <1>2, <1>10 DEF StopIsTold
  <2>2. CASE format = "responses"
    <3>1. stop' = IF reason = "stop" /\ told # {} THEN "tool_calls" ELSE reason
      BY <2>2, <1>1 DEF MaterializedStop
    <3> QED
      BY <3>1, <2>2, <1>1, <1>2, <1>10 DEF StopIsTold
  <2>3. CASE format = "messages"
    <3>1. stop' = IF reason # NoReason THEN reason ELSE IF told # {} THEN "tool_calls" ELSE "stop"
      BY <2>3, <1>1 DEF MaterializedStop
    <3>2. NoReason \notin Reason
      BY StreamAssumption DEF Reason
    <3>3. stop' = "tool_calls" => told # {} \/ Opened' \cap nameless' # {}
      <4>1. stop' = "tool_calls" => told # {} \/ n > 0
        BY <3>1, <1>1
      <4>2. n > 0 => all # {}
        BY <1>4, <1>8
      <4> QED
        BY <4>1, <4>2, <1>1, <1>5, <1>7
    <3> QED
      BY <3>1, <3>2, <3>3, <2>3, <1>1, <1>2, <1>10 DEF StopIsTold, Reason
  <2> QED
    BY <2>1, <2>2, <2>3 DEF AskedInv
<1>13. TextCallsAreTold'
  <2>1. inlined' = <<>> /\ (~overlooked' => inText' = 0)
    BY <1>1, <1>2
  <2> QED
    BY <2>1 DEF TextCallsAreTold
<1> QED
  BY <1>1, <1>3, <1>10, <1>11, <1>12, <1>13 DEF StreamInv, StreamTellsItsCalls, Over

\* What is not about the answer leaves it as it is.
LEMMA AnswerUntouched ==
  ASSUME AskedInv', StreamGoes, streamAt' \in {"posting", "reading"},
         streamAt' = "posting" => streamAt = "posting",
         UNCHANGED <<requestVars, answerVars, textVars, parserVars, listenerVars, endVars>>
  PROVE  StreamInv'
<1>1. /\ UNCHANGED <<inText, begun, buffer, inlined, overlooked>>
      /\ UNCHANGED <<format, style, fields, nameless, sent, named, stage, block, said, pending, byIndex, done,
                     finish, completed, deltas, stop, broke, failed, renamed>>
  BY DEF requestVars, answerVars, textVars, parserVars, listenerVars, endVars
<1>2. Opened' = Opened /\ Unfinished' = Unfinished
  BY <1>1 DEF Unfinished, Opened, Unopened, Id
<1>3. SentInv' /\ PendingInv' /\ IndexInv' /\ HeardInv' /\ BlockInv'
  BY <1>1, <1>2, NoCallTouched
<1>4. WhereInv'
  BY <1>1, <1>2 DEF StreamGoes, WhereInv
<1>5. ReasonInv'
  BY <1>1, <1>2 DEF StreamGoes, ReasonInv
<1>6. TextInv'
  BY <1>1, <1>2 DEF StreamGoes, TextInv, TextCallsAreTold
<1> QED
  BY <1>3, <1>4, <1>5, <1>6 DEF StreamInv, StreamGoes, Over

\* A post after a refusal.
LEMMA PostsAgain ==
  ASSUME AskedInv, StreamGoes, NEW why \in {"usage", "reasoning", "1214", "other"}, Refused(why)
  PROVE  StreamInv'
<1>0. streamAt = "posting"
  BY DEF Refused
<1>1. CASE /\ RetriesWithoutUsage(why) /\ stripped' = stripped \cup {"usage"} /\ posts' = posts + 1
           /\ UNCHANGED <<requestVars, streamAt, answerVars, textVars, parserVars, listenerVars, endVars>>
  <2>1. AskedInv'
    BY <1>1 DEF AskedInv, RetriesWithoutUsage, requestVars
  <2> QED
    BY <2>1, <1>0, <1>1, AnswerUntouched
<1>2. CASE /\ RetriesWithoutReasoning(why) /\ stripped' = stripped \cup {"reasoning"} /\ posts' = posts + 1
           /\ UNCHANGED <<requestVars, streamAt, answerVars, textVars, parserVars, listenerVars, endVars>>
  <2>1. AskedInv'
    BY <1>2 DEF AskedInv, RetriesWithoutReasoning, requestVars
  <2> QED
    BY <2>1, <1>0, <1>2, AnswerUntouched
<1>3. CASE EndInError /\ UNCHANGED postVars
  <2>1. AskedInv' /\ PostsAreFew'
    BY <1>3, PostsStayFew DEF AskedInv, PostsAreFew, EndInError, requestVars, postVars
  <2> QED
    BY <2>1, <1>3, Breaks
<1> QED
  BY <1>1, <1>2, <1>3 DEF Refused

-----------------------------------------------------------------------------
LEMMA StreamInvInit ==
  ASSUME StreamInit
  PROVE  StreamInv
<1>1. Opened = {} /\ Unfinished = {} /\ Told = {} /\ Pieces \in Nat /\ Unopened = Pieces + 1
  BY StreamAssumption DEF StreamInit, Opened, Unfinished, Told, Unopened, Nothing
<1>2. AskedInv
  BY DEF StreamInit, AskedInv
<1>3. WhereInv /\ ReasonInv
  BY <1>1, StreamAssumption DEF StreamInit, WhereInv, ReasonInv
<1>4. SentInv
  BY <1>1 DEF StreamInit, SentInv
<1>5. PendingInv /\ IndexInv /\ BlockInv
  BY <1>1 DEF StreamInit, PendingInv, IndexInv, BlockInv, Nothing
<1>6. HeardInv
  <2>1. completed = <<>> /\ deltas = Nothing
    BY DEF StreamInit
  <2>2. Lists(<<>>, {})
    BY DEF Lists
  <2>3. {HeardOf(c) : c \in Told} = {}
    BY <1>1
  <2> QED
    BY <2>1, <2>2, <2>3 DEF HeardInv, Nothing
<1>7. TextInv
  BY DEF StreamInit, TextInv, TextCallsAreTold
<1> QED
  BY <1>2, <1>3, <1>4, <1>5, <1>6, <1>7 DEF StreamInit, StreamInv, StreamGoes, Over

LEMMA StreamInvNext ==
  ASSUME StreamInv, [StreamNext]_streamVars
  PROVE  StreamInv'
<1>1. CASE UNCHANGED streamVars
  <2>1. /\ UNCHANGED <<inText, begun, buffer, inlined, overlooked>>
        /\ UNCHANGED <<format, style, fields, nameless, stripped, posts, streamAt, sent, named, stage, said,
                       completed, deltas, stop, broke, failed, renamed>>
    BY <1>1 DEF streamVars, requestVars, postVars, answerVars, textVars, parserVars, listenerVars, endVars
  <2>2. AskedInv'
    BY <2>1 DEF StreamInv, AskedInv
  <2>3. CASE Over
    <3>1. Opened' = Opened /\ Over'
      BY <2>1, <2>3 DEF Opened, Unopened, Over
    <3>2. StreamTellsItsCalls
      BY <2>3 DEF StreamInv
    <3>3. StreamTellsItsCalls'
      BY <2>1, <3>1, <3>2
         DEF StreamTellsItsCalls, CallsAreAsSent, NoCallIsMissing, TextCallsAreTold, NothingIsLeftOver, StopIsTold,
             PostsAreFew, Over
    <3> QED
      BY <2>2, <3>1, <3>3 DEF StreamInv
  <2>4. CASE ~Over
    <3>1. StreamGoes /\ streamAt' \in {"posting", "reading"}
      BY <2>1, <2>4 DEF StreamInv, StreamGoes, WhereInv
    <3> QED
      BY <2>1, <2>2, <3>1, <1>1, AnswerUntouched DEF streamVars
  <2> QED
    BY <2>3, <2>4
<1>2. CASE StreamNext
  <2>1. AskedInv /\ streamAt # "over" => StreamGoes
    BY DEF StreamInv, Over
  <2>a. AskedInv
    BY DEF StreamInv
  <2>b. ASSUME AskedInv', StreamGoes', streamAt' = "reading"
        PROVE  StreamInv'
    BY <2>b DEF StreamInv, Over
  <2>c. ASSUME EndInError, streamAt # "over", UNCHANGED postVars
        PROVE  StreamInv'
    <3>1. AskedInv' /\ PostsAreFew'
      BY <2>a, <2>c, PostsStayFew DEF AskedInv, PostsAreFew, EndInError, requestVars, postVars
    <3> QED
      BY <3>1, <2>1, <2>a, <2>c, Breaks
  <2>2. CASE FetchFails \/ NoAnswer \/ IdleTimeout \/ ReadFails \/ SeeAbort
    BY <2>2, <2>c DEF FetchFails, NoAnswer, IdleTimeout, ReadFails, SeeAbort
  <2>3. CASE Accepted
    <3>1. AskedInv'
      BY <2>3, <2>a DEF Accepted, AskedInv, requestVars, postVars
    <3> QED
      BY <3>1, <2>1, <2>a, <2>3, AnswerUntouched DEF Accepted
  <2>4. CASE AbortRequest
    <3>1. AskedInv'
      BY <2>4, <2>a DEF AbortRequest, AskedInv, requestVars, postVars
    <3>2. StreamGoes /\ streamAt' = streamAt
      BY <2>1, <2>a, <2>4 DEF AbortRequest
    <3>3. streamAt' \in {"posting", "reading"}
      BY <3>2 DEF StreamGoes, WhereInv
    <3> QED
      BY <3>1, <3>2, <3>3, <2>4, AnswerUntouched DEF AbortRequest
  <2>5. CASE StreamEnds
    BY <2>1, <2>a, <2>5, Ends DEF StreamEnds
  <2>6. CASE \E why \in {"usage", "reasoning", "1214", "other"} : Refused(why)
    <3>1. PICK why \in {"usage", "reasoning", "1214", "other"} : Refused(why)
      BY <2>6
    <3>2. StreamGoes
      BY <3>1, <2>1, <2>a DEF Refused
    <3> QED
      BY <3>1, <3>2, <2>a, PostsAgain
  <2>7. CASE \E n \in 0 .. Calls, reason \in Reason \cup {NoReason} : Materialize(n, reason)
    <3>1. PICK n \in 0 .. Calls, reason \in Reason \cup {NoReason} : Materialize(n, reason)
      BY <2>7
    <3>2. StreamGoes
      BY <3>1, <2>1, <2>a DEF Materialize
    <3> QED
      BY <3>1, <3>2, <2>a, MaterializeTells
  <2>8. CASE \E c \in ToolCall, n \in 0 .. Pieces :
               \/ \E id \in BOOLEAN : ChatDelta(c, n, id)
               \/ ArgumentsDelta(c, n) \/ ArgumentsDone(c, n) \/ ItemDone(c, n) \/ BlockDelta(c, n)
    <3>1. PICK c \in ToolCall, n \in 0 .. Pieces :
                 \/ \E id \in BOOLEAN : ChatDelta(c, n, id)
                 \/ ArgumentsDelta(c, n) \/ ArgumentsDone(c, n) \/ ItemDone(c, n) \/ BlockDelta(c, n)
      BY <2>8
    <3>2. streamAt = "reading"
      BY <3>1 DEF ChatDelta, ArgumentsDelta, ArgumentsDone, ItemDone, BlockDelta, Frame, FrameAt, Reading
    <3>3. StreamGoes
      BY <3>2, <2>1, <2>a
    <3>4. AskedInv' /\ StreamGoes' /\ streamAt' = "reading"
      BY <3>1, <3>3, <2>a, ChatDeltaGoes, ArgumentsDeltaGoes, ArgumentsDoneGoes, ItemDoneGoes, BlockDeltaGoes
    <3> QED
      BY <3>4, <2>b
  <2>9. CASE \E c \in ToolCall : ItemAdded(c) \/ BlockStart(c) \/ BlockStop(c)
    <3>1. PICK c \in ToolCall : ItemAdded(c) \/ BlockStart(c) \/ BlockStop(c)
      BY <2>9
    <3>2. streamAt = "reading"
      BY <3>1 DEF ItemAdded, BlockStart, BlockStop, Frame, FrameAt, Reading
    <3>3. StreamGoes
      BY <3>2, <2>1, <2>a
    <3>4. AskedInv' /\ StreamGoes' /\ streamAt' = "reading"
      BY <3>1, <3>3, <2>a, ItemAddedGoes, BlockStartGoes, BlockStopGoes
    <3> QED
      BY <3>4, <2>b
  <2>10. CASE \/ \E ends \in 0 .. Inlines, begins \in BOOLEAN : TextFrame(ends, begins)
              \/ \E reason \in Reason : ChatFinish(reason)
              \/ \E reason \in Reason \ {"tool_calls"} : ResponseCompleted(reason)
              \/ \E reason \in {"stop", "tool_calls", "length", NoReason} : MessageDelta(reason)
              \/ MessageStop \/ ErrorFrame
    <3>2. streamAt = "reading"
      BY <2>10 DEF TextFrame, ChatFinish, ResponseCompleted, MessageDelta, MessageStop, ErrorFrame, Frame, FrameAt, Reading
    <3>3. StreamGoes
      BY <3>2, <2>1, <2>a
    <3>4. AskedInv' /\ StreamGoes' /\ streamAt' = "reading"
      BY <2>10, <3>3, <2>a, TextFrameGoes, ChatFinishGoes, ResponseCompletedGoes, MessageDeltaGoes, MessageStopGoes,
         ErrorFrameGoes
    <3> QED
      BY <3>4, <2>b
  <2> QED
    BY <1>2, <2>2, <2>3, <2>4, <2>5, <2>6, <2>7, <2>8, <2>9, <2>10 DEF StreamNext
<1> QED
  BY <1>1, <1>2

\* The tool calls that stream() tells of are the ones the provider made, each told once,
\* with all that was sent of its arguments; and its stop reason fits them.
THEOREM Streaming == StreamSpec => []StreamTellsItsCalls
<1>1. StreamInit => StreamInv
  BY StreamInvInit
<1>2. StreamInv /\ [StreamNext]_streamVars => StreamInv'
  BY StreamInvNext
<1>3. StreamInv => StreamTellsItsCalls
  <2>1. SUFFICES ASSUME StreamInv
                 PROVE  StreamTellsItsCalls
    OBVIOUS
  <2>2. PostsAreFew
    BY <2>1, PostsStayFew DEF StreamInv
  <2>3. ~Over => TextCallsAreTold
    BY <2>1 DEF StreamInv, StreamGoes, TextInv
  <2>4. ~Over => StreamTellsItsCalls
    BY <2>2, <2>3 DEF StreamTellsItsCalls, CallsAreAsSent, NoCallIsMissing, NothingIsLeftOver, StopIsTold
  <2> QED
    BY <2>1, <2>4 DEF StreamInv
<1> QED
  BY <1>1, <1>2, <1>3, PTL DEF StreamSpec
=============================================================================
