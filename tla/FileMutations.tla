---------------------------- MODULE FileMutations ----------------------------
(***************************************************************************)
(* withFileMutationQueue for one file: jobs of several processes edit it,  *)
(* in a process one after the other, between processes under a lock        *)
(* directory with an owner file. A dead owner's lock is removed by those   *)
(* who wait.                                                               *)
(*                                                                         *)
(* A job that names the file through a link gets another key while the     *)
(* file does not exist, realpath failing: another queue, another lock. The *)
(* ten minutes of a lock without an owner are never over in a wait of one. *)
(*                                                                         *)
(* AllAreDead is a way to get the next definition wrong.                   *)
(***************************************************************************)
EXTENDS Sequences, FiniteSets

CONSTANTS
  Job, Process,
  Host,        \* the process of each job
  Linked       \* the jobs that name the file through a link

VARIABLES
  job,         \* where each job is
  keyOf,       \* the key of each job
  queue,       \* fileMutationQueues: the jobs of a process under a key
  lock,        \* each key's lock directory: a job that made it, or none
  marked,      \* the keys whose lock has its owner file
  sawDead,     \* the lock each job is about to remove
  exists,      \* the file exists
  dead,        \* processes that have crashed
  stolen       \* history: keys whose lock changed between being found dead and removed

mutationVars == <<job, keyOf, queue, lock, marked, sawDead, exists, dead, stolen>>

Key == {"real", "link"}
None == "none"

MutationInit ==
  /\ job = [j \in Job |-> "idle"] /\ keyOf = [j \in Job |-> "real"]
  /\ queue = [p \in Process |-> [k \in Key |-> <<>>]]
  /\ lock = [k \in Key |-> None] /\ marked = {} /\ sawDead = [j \in Job |-> None]
  /\ exists \in BOOLEAN /\ dead = {} /\ stolen = {}

MovesTo(j, where) == job' = [job EXCEPT ![j] = where]
Queue(j) == queue[Host[j]][keyOf[j]]

Register(j) ==
  /\ job[j] = "idle" /\ Host[j] \notin dead
  /\ LET k == IF j \in Linked /\ ~exists THEN "link" ELSE "real" IN
     /\ keyOf' = [keyOf EXCEPT ![j] = k]
     /\ queue' = [queue EXCEPT ![Host[j]][k] = Append(@, j)]
  /\ MovesTo(j, "queued")
  /\ UNCHANGED <<lock, marked, sawDead, exists, dead, stolen>>

IsItsTurn(j) == Head(Queue(j)) = j

MakeLock(j) ==
  /\ job[j] = "queued" /\ IsItsTurn(j) /\ lock[keyOf[j]] = None
  /\ lock' = [lock EXCEPT ![keyOf[j]] = j] /\ marked' = marked \ {keyOf[j]}
  /\ MovesTo(j, "owning")
  /\ UNCHANGED <<keyOf, queue, sawDead, exists, dead, stolen>>

AllAreDead(j) == lock[keyOf[j]] # None

\* The lock names an owner that is not alive.
OwnerIsDead(j) ==
  lock[keyOf[j]] # None /\ keyOf[j] \in marked /\ Host[lock[keyOf[j]]] \in dead

FindDead(j) ==
  /\ job[j] = "queued" /\ IsItsTurn(j) /\ OwnerIsDead(j)
  /\ sawDead' = [sawDead EXCEPT ![j] = lock[keyOf[j]]] /\ MovesTo(j, "removing")
  /\ UNCHANGED <<keyOf, queue, lock, marked, exists, dead, stolen>>

\* rm by path, whoever has made the directory since.
RemoveDead(j) ==
  /\ job[j] = "removing"
  /\ stolen' = IF lock[keyOf[j]] \in {None, sawDead[j]} THEN stolen ELSE stolen \cup {keyOf[j]}
  /\ lock' = [lock EXCEPT ![keyOf[j]] = None] /\ marked' = marked \ {keyOf[j]}
  /\ MovesTo(j, "queued")
  /\ UNCHANGED <<keyOf, queue, sawDead, exists, dead>>

LeavesQueue(j) == queue' = [queue EXCEPT ![Host[j]][keyOf[j]] = Tail(@)]

\* A minute has passed, and the lock is not one that may be removed.
TimeOut(j) ==
  /\ job[j] = "queued" /\ IsItsTurn(j) /\ lock[keyOf[j]] # None /\ ~OwnerIsDead(j)
  /\ MovesTo(j, "failed") /\ LeavesQueue(j)
  /\ UNCHANGED <<keyOf, lock, marked, sawDead, exists, dead, stolen>>

\* The owner file, for which the directory must still be there; whoever made it since.
Mark(j) ==
  /\ job[j] = "owning"
  /\ IF lock[keyOf[j]] # None
     THEN /\ marked' = marked \cup {keyOf[j]} /\ lock' = [lock EXCEPT ![keyOf[j]] = j]
          /\ MovesTo(j, "editing") /\ queue' = queue
     ELSE UNCHANGED <<marked, lock>> /\ MovesTo(j, "failed") /\ LeavesQueue(j)
  /\ UNCHANGED <<keyOf, sawDead, exists, dead, stolen>>

\* The edit is over, done or failed; the lock directory is removed by its path.
Release(j) ==
  /\ job[j] = "editing"
  /\ \E done \in BOOLEAN : exists' = (exists \/ done)
  /\ lock' = [lock EXCEPT ![keyOf[j]] = None] /\ marked' = marked \ {keyOf[j]}
  /\ MovesTo(j, "done") /\ LeavesQueue(j)
  /\ UNCHANGED <<keyOf, sawDead, dead, stolen>>

Crash(p) ==
  /\ p \notin dead /\ dead # Process \ {p} /\ dead' = dead \cup {p}
  /\ job' = [j \in Job |-> IF Host[j] = p /\ job[j] \notin {"done", "failed"} THEN "gone" ELSE job[j]]
  /\ queue' = [queue EXCEPT ![p] = [k \in Key |-> <<>>]]
  /\ UNCHANGED <<keyOf, lock, marked, sawDead, exists, stolen>>

Advance(j) ==
  MakeLock(j) \/ FindDead(j) \/ RemoveDead(j) \/ TimeOut(j) \/ Mark(j) \/ Release(j)

MutationNext == (\E j \in Job : Register(j) \/ Advance(j)) \/ (\E p \in Process : Crash(p))

MutationSpec == MutationInit /\ [][MutationNext]_mutationVars
-----------------------------------------------------------------------------
MutationTypeOK ==
  /\ keyOf \in [Job -> Key] /\ lock \in [Key -> Job \cup {None}] /\ marked \subseteq Key
  /\ sawDead \in [Job -> Job \cup {None}] /\ dead \subseteq Process /\ stolen \subseteq Key

\* Two jobs edit the file at once only when they know it by different keys, or when a
\* live lock was removed by one that had found a dead one there; without a crash and
\* without a link, never.
OneEditorPerKey ==
  \A i, j \in Job : job[i] = "editing" /\ job[j] = "editing" /\ i # j =>
    keyOf[i] # keyOf[j] \/ keyOf[i] \in stolen

\* Every job gets its turn and comes to an end: the place in the queue is given back by
\* jobs that fail, too, and the lock of a crashed process makes nobody wait for ever.
EveryJobEnds == \A j \in Job : job[j] = "queued" ~> job[j] \in {"done", "failed", "gone"}

\* One job at a time, with the keys and locks that are there.
EditsAreExclusive == MutationTypeOK /\ OneEditorPerKey
=============================================================================
