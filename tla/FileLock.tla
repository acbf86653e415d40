------------------------------- MODULE FileLock -------------------------------
(***************************************************************************)
(* withFileLock: the lock directory under every read-modify-write of the   *)
(* file stores (runs, leases, events, mailbox messages, workers).          *)
(*                                                                         *)
(* A client is one call of withFileLock for one path; it belongs to an     *)
(* operating-system process and dies with it. A client calls once in the   *)
(* life of its process. rm -rf of the lock directory is one step, and so   *)
(* are reading owner.json and the age of the directory.                    *)
(*                                                                         *)
(* Time appears only in two assumptions: a live client writes its owner    *)
(* file within ten minutes (Age), and critical sections are short enough   *)
(* that nobody waits a minute for a lock that is being worked under        *)
(* (TimeOut).                                                              *)
(*                                                                         *)
(* ReclaimableWhenOwnerless and IsAliveOnAnyError are ways to get the next *)
(* definition wrong.                                                       *)
(***************************************************************************)
EXTENDS Naturals

CONSTANTS
  Client,
  Process,
  ProcessOf,        \* the process of each client
  PidReused,        \* a restarted process gets the pid it died with
  NoDir, NoOwner,   \* no lock directory; no owner.json in it
  MaxRestarts       \* bound: crashes of one process

ASSUME ProcessOfAssumption == ProcessOf \in [Client -> Process]
ASSUME PidAssumption == PidReused \in BOOLEAN
ASSUME MaxRestartsAssumption == MaxRestarts \in Nat

\* One life of a process, and one call.
Life == Process \X Nat
Call == Client \X Nat
LockDir == [maker : Call, owner : Life \cup {NoOwner}, old : BOOLEAN]

ASSUME NoneAssumption == NoDir \notin LockDir /\ NoOwner \notin Life

VARIABLES
  dir,          \* the lock directory, or NoDir
  pc,           \* where each client is
  judged,       \* whose directory each reclaiming client found to be stale
  up,           \* the processes that run
  incarnation,  \* how often each process was started again
  raced         \* history: a directory was removed that was neither judged nor owned

vars == <<dir, pc, judged, up, incarnation, raced>>

CallOf(c) == <<c, incarnation[ProcessOf[c]]>>

\* What owner.json says: the pid, that is a process in one of its lives.
LifeOf(c) == <<ProcessOf[c], incarnation[ProcessOf[c]]>>

Init ==
  /\ dir = NoDir
  /\ pc = [c \in Client |-> "idle"]
  /\ judged = [c \in Client |-> <<c, 0>>]
  /\ up = Process
  /\ incarnation = [p \in Process |-> 0]
  /\ raced = FALSE

Goto(c, label) == pc' = [pc EXCEPT ![c] = label]
-----------------------------------------------------------------------------
IsAliveOnAnyError(life) == TRUE

\* process.kill(pid, 0) tells pids apart, not the processes that had them.
IsAlive(life) ==
  /\ life[1] \in up
  /\ PidReused \/ incarnation[life[1]] = life[2]

ReclaimableWhenOwnerless(d) == d.owner # NoOwner => ~IsAlive(d.owner)

\* reclaimIfStale: a dead owner, or no owner for ten minutes.
Reclaimable(d) == IF d.owner = NoOwner THEN d.old ELSE ~IsAlive(d.owner)

Start(c) ==
  /\ ProcessOf[c] \in up /\ pc[c] = "idle"
  /\ Goto(c, "wait")
  /\ UNCHANGED <<dir, judged, up, incarnation, raced>>

\* mkdir succeeds: the lock is taken, but nobody can tell by whom yet.
MakeDir(c) ==
  /\ pc[c] = "wait" /\ dir = NoDir
  /\ dir' = [maker |-> CallOf(c), owner |-> NoOwner, old |-> FALSE]
  /\ Goto(c, "made")
  /\ UNCHANGED <<judged, up, incarnation, raced>>

\* writeFile of owner.json, into whatever directory has that name now; without
\* one it fails.
WriteOwner(c) ==
  /\ pc[c] = "made"
  /\ IF dir = NoDir
       THEN Goto(c, "cleanup") /\ dir' = dir
       ELSE Goto(c, "critical") /\ dir' = [dir EXCEPT !.owner = LifeOf(c)]
  /\ UNCHANGED <<judged, up, incarnation, raced>>

\* The call fails too, after rm -rf of a directory made by somebody else.
CleanUp(c) ==
  /\ pc[c] = "cleanup"
  /\ raced' = (raced \/ dir # NoDir)
  /\ dir' = NoDir
  /\ Goto(c, "error")
  /\ UNCHANGED <<judged, up, incarnation>>

\* The operation is over: rm -rf of whatever directory has that name now.
Exit(c) ==
  /\ pc[c] = "critical"
  /\ dir' = NoDir
  /\ Goto(c, "done")
  /\ UNCHANGED <<judged, up, incarnation, raced>>

\* mkdir fails with EEXIST and the directory is found to be stale.
Judge(c) ==
  /\ pc[c] = "wait" /\ dir # NoDir /\ Reclaimable(dir)
  /\ judged' = [judged EXCEPT ![c] = dir.maker]
  /\ Goto(c, "reclaim")
  /\ UNCHANGED <<dir, up, incarnation, raced>>

\* rm -rf of the directory, which need not be the one that was judged.
Reclaim(c) ==
  /\ pc[c] = "reclaim"
  /\ raced' = (raced \/ (dir # NoDir /\ dir.maker # judged[c]))
  /\ dir' = NoDir
  /\ Goto(c, "wait")
  /\ UNCHANGED <<judged, up, incarnation>>

\* The lock is not stale, nobody works under it, and a minute is over.
TimeOut(c) ==
  /\ pc[c] = "wait" /\ dir # NoDir /\ ~Reclaimable(dir)
  /\ \A d \in Client : pc[d] \notin {"made", "critical"}
  /\ Goto(c, "timedOut")
  /\ UNCHANGED <<dir, judged, up, incarnation, raced>>

\* Ten minutes after mkdir there is still no owner.json.
Age ==
  /\ dir # NoDir /\ dir.owner = NoOwner /\ ~dir.old
  /\ \A d \in Client : pc[d] # "made"
  /\ dir' = [dir EXCEPT !.old = TRUE]
  /\ UNCHANGED <<pc, judged, up, incarnation, raced>>

Crash(p) ==
  /\ p \in up /\ incarnation[p] < MaxRestarts
  /\ up' = up \ {p}
  /\ pc' = [c \in Client |-> IF ProcessOf[c] = p THEN "idle" ELSE pc[c]]
  /\ UNCHANGED <<dir, judged, incarnation, raced>>

Restart(p) ==
  /\ p \notin up
  /\ up' = up \cup {p}
  /\ incarnation' = [incarnation EXCEPT ![p] = @ + 1]
  /\ UNCHANGED <<dir, pc, judged, raced>>

\* What the code of one call does by itself.
Step(c) ==
  \/ MakeDir(c) \/ WriteOwner(c) \/ CleanUp(c) \/ Exit(c)
  \/ Judge(c) \/ Reclaim(c) \/ TimeOut(c)

Next ==
  \/ \E c \in Client : Start(c) \/ Step(c)
  \/ \E p \in Process : Crash(p) \/ Restart(p)
  \/ Age

\* A call keeps polling and a live process keeps running; time goes on.  Nothing
\* makes a process crash, come back, or call.
Fairness == WF_vars(Age) /\ \A c \in Client : WF_vars(Step(c))

Spec == Init /\ [][Next]_vars /\ Fairness
-----------------------------------------------------------------------------
TypeOK ==
  /\ dir \in LockDir \cup {NoDir}
  /\ pc \in [Client -> {"idle", "wait", "made", "cleanup", "critical", "reclaim", "done",
                        "timedOut", "error"}]
  /\ judged \in [Client -> Call]
  /\ up \in SUBSET Process
  /\ incarnation \in [Process -> Nat]
  /\ raced \in BOOLEAN

\* Two operations on the same path never overlap.
MutualExclusion ==
  \A c, d \in Client : pc[c] = "critical" /\ pc[d] = "critical" => c = d

\* They overlap only after a client has removed another directory than the one
\* it found to be stale: mkdir before owner.json, crashes on either side of it
\* and reclaiming as such are harmless.
ExclusiveUnlessReclaimRaced == ~raced => MutualExclusion

\* As long as no process has crashed, a lock that is being taken, worked under or
\* given up is never mistaken for a stale one: nobody's directory is removed under
\* it, and no call fails or times out.
HarmlessWithoutCrash ==
  (up = Process /\ \A p \in Process : incarnation[p] = 0) =>
    ~raced /\ \A c \in Client : pc[c] \notin {"cleanup", "timedOut", "error"}

\* owner.json names a life of a process that is over.
LeftByDeadProcess ==
  /\ dir # NoDir /\ dir.owner # NoOwner
  /\ ~(dir.owner[1] \in up /\ incarnation[dir.owner[1]] = dir.owner[2])

\* A lock directory left by a dead process goes away as soon as somebody wants
\* the lock and lives to get it.
DeadLockIsReclaimed ==
  \A c \in Client :
    (LeftByDeadProcess /\ pc[c] = "wait") ~> (~LeftByDeadProcess \/ pc[c] = "idle")

\* No call waits for ever, whatever is left on disk by whom.
EveryCallReturns ==
  \A c \in Client :
    pc[c] = "wait" ~> pc[c] \in {"done", "timedOut", "error", "idle"}

\* Without a crash the lock only ever does what its callers want.
OrderlyWithoutCrash == TypeOK /\ HarmlessWithoutCrash

\* Whatever is left on disk, by whom, the lock comes free and every call returns.
LockComesFree == DeadLockIsReclaimed /\ EveryCallReturns
=============================================================================
