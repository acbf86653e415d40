------------------------------- MODULE RunLease -------------------------------
(***************************************************************************)
(* The fenced snapshot store of kernel_v3: FileRunStateStore.              *)
(*                                                                         *)
(* One run identity is modelled. On disk there are a lease file, an epoch  *)
(* file and a snapshot file; every operation runs under the file lock of   *)
(* the lease path, so an operation is a short critical section of one or   *)
(* two disk writes. A process may crash between the two writes: the lock   *)
(* it held is reclaimed, what it wrote stays.                              *)
(*                                                                         *)
(* NextEpochOfLeaseFile and FenceIsValidForAnyHolder are ways to get the   *)
(* next definition wrong.                                                  *)
(*                                                                         *)
(* Time is a counter. The bounds MaxTime and MaxEpoch only keep TLC's      *)
(* state space finite; the proofs do not use them.                         *)
(***************************************************************************)
EXTENDS Naturals

CONSTANTS
  Proc,                \* processes that run a RuntimeKernel for this run
  Ttl,                 \* leaseTtlMs
  NoLease, NoFence,    \* "there is none"
  NoProc,              \* the file lock is free
  RestartKeepsHolder,  \* a restarted process reuses its holderId
  MaxTime, MaxEpoch    \* bounds of the model

ASSUME TtlAssumption == Ttl \in Nat \ {0}
ASSUME BoundAssumption == MaxTime \in Nat /\ MaxEpoch \in Nat
ASSUME ProcAssumption == NoProc \notin Proc
ASSUME RestartAssumption == RestartKeepsHolder \in BOOLEAN

\* A token is a fresh UUID: the number of leases granted before it.
\* A holder is a process together with its incarnation.
Holder == Proc \X Nat
Fence == [holder : Holder, epoch : Nat, token : Nat]
Lease == [holder : Holder, epoch : Nat, token : Nat, expiresAt : Nat]

ASSUME NoneAssumption == NoLease \notin Lease /\ NoFence \notin Fence

VARIABLES
  now,          \* Date.now()
  lease,        \* the lease file, or NoLease
  epochFile,    \* the epoch file; 0 when it does not exist
  snapshot,     \* epoch of the fence the snapshot was last saved under
  lock,         \* owner of the file lock, or NoProc
  pc,           \* where each process is in its critical section
  fence,        \* the fence each process works under, or NoFence
  incarnation,  \* how often each process restarted with a new holderId
  granted,      \* number of tokens drawn
  issued        \* history: the fences acquire() ever returned

vars == <<now, lease, epochFile, snapshot, lock, pc, fence, incarnation,
          granted, issued>>

Init ==
  /\ now = 0
  /\ lease = NoLease
  /\ epochFile = 0
  /\ snapshot = 0
  /\ lock = NoProc
  /\ pc = [p \in Proc |-> "idle"]
  /\ fence = [p \in Proc |-> NoFence]
  /\ incarnation = [p \in Proc |-> 0]
  /\ granted = 0
  /\ issued = {}

-----------------------------------------------------------------------------
HolderId(p) == <<p, incarnation[p]>>

toFence(l) == [holder |-> l.holder, epoch |-> l.epoch, token |-> l.token]

sameFence(l, f) == toFence(l) = f

Unexpired == lease # NoLease /\ lease.expiresAt > now

FenceIsValidForAnyHolder(f) == Unexpired /\ f # NoFence

\* assertFence: the fence is that of the lease on disk, which has not expired.
FenceIsValid(f) == Unexpired /\ f # NoFence /\ sameFence(lease, f)

NextEpochOfLeaseFile == IF lease # NoLease THEN lease.epoch + 1 ELSE 1

\* The epoch of the next lease survives a release because of the epoch file,
\* and a crash before the epoch file is written because of the lease file.
NextEpoch ==
  IF lease # NoLease /\ lease.epoch > epochFile
  THEN lease.epoch + 1
  ELSE epochFile + 1

LockIsFree == lock = NoProc

Return(p, f) ==
  /\ fence' = [fence EXCEPT ![p] = f]
  /\ issued' = issued \cup {f}

-----------------------------------------------------------------------------
\* acquire, first write: no unexpired lease, so a new one goes to disk.
AcquireWriteLease(p) ==
  /\ LockIsFree /\ fence[p] = NoFence
  /\ ~Unexpired
  /\ NextEpoch <= MaxEpoch
  /\ lease' = [holder |-> HolderId(p), epoch |-> NextEpoch,
               token |-> granted, expiresAt |-> now + Ttl]
  /\ granted' = granted + 1
  /\ lock' = p
  /\ pc' = [pc EXCEPT ![p] = "persistEpoch"]
  /\ UNCHANGED <<now, epochFile, snapshot, fence, incarnation, issued>>

\* acquire, second write: the epoch file, then the fence is returned.
AcquirePersistEpoch(p) ==
  /\ pc[p] = "persistEpoch"
  /\ epochFile' = lease.epoch
  /\ Return(p, toFence(lease))
  /\ lock' = NoProc
  /\ pc' = [pc EXCEPT ![p] = "idle"]
  /\ UNCHANGED <<now, lease, snapshot, incarnation, granted>>

\* acquire when this holder still has the lease: the same fence again, and
\* neither the expiry nor the epoch file is touched.
AcquireAgain(p) ==
  /\ LockIsFree /\ fence[p] = NoFence
  /\ Unexpired /\ lease.holder = HolderId(p)
  /\ Return(p, toFence(lease))
  /\ UNCHANGED <<now, lease, epochFile, snapshot, lock, pc, incarnation, granted>>

\* renew extends the expiry of a valid lease; otherwise it returns false and
\* RuntimeLeaseGuard considers the lease lost.
Renew(p) ==
  /\ LockIsFree /\ FenceIsValid(fence[p])
  /\ lease' = [lease EXCEPT !.expiresAt = now + Ttl]
  /\ UNCHANGED <<now, epochFile, snapshot, lock, pc, fence, incarnation,
                 granted, issued>>

\* release removes the lease file if the fence is still the one on disk, expired
\* or not; either way the process is done with its fence.
Release(p) ==
  /\ LockIsFree /\ fence[p] # NoFence
  /\ lease' = IF lease # NoLease /\ sameFence(lease, fence[p]) THEN NoLease ELSE lease
  /\ fence' = [fence EXCEPT ![p] = NoFence]
  /\ UNCHANGED <<now, epochFile, snapshot, lock, pc, incarnation, granted, issued>>

\* release throws, because the lock was not to be had in time or the file not to be
\* removed: the lease stays on disk until it expires or its holder is back.
ReleaseFails(p) ==
  /\ pc[p] = "idle" /\ fence[p] # NoFence
  /\ fence' = [fence EXCEPT ![p] = NoFence]
  /\ UNCHANGED <<now, lease, epochFile, snapshot, lock, pc, incarnation, granted, issued>>

\* save, first half: take the lock and check the fence.
SaveCheckFence(p) ==
  /\ LockIsFree /\ FenceIsValid(fence[p])
  /\ lock' = p
  /\ pc' = [pc EXCEPT ![p] = "writeSnapshot"]
  /\ UNCHANGED <<now, lease, epochFile, snapshot, fence, incarnation, granted, issued>>

\* save, second half: the atomic write.  The lease may have expired meanwhile.
SaveWriteSnapshot(p) ==
  /\ pc[p] = "writeSnapshot"
  /\ snapshot' = fence[p].epoch
  /\ lock' = NoProc
  /\ pc' = [pc EXCEPT ![p] = "idle"]
  /\ UNCHANGED <<now, lease, epochFile, fence, incarnation, granted, issued>>

\* A process dies anywhere; its lock is reclaimed because its pid is dead.
Crash(p) ==
  /\ fence[p] # NoFence \/ pc[p] # "idle"
  /\ pc' = [pc EXCEPT ![p] = "idle"]
  /\ fence' = [fence EXCEPT ![p] = NoFence]
  /\ lock' = IF lock = p THEN NoProc ELSE lock
  /\ incarnation' = IF RestartKeepsHolder THEN incarnation
                    ELSE [incarnation EXCEPT ![p] = @ + 1]
  /\ UNCHANGED <<now, lease, epochFile, snapshot, granted, issued>>

Tick ==
  /\ now < MaxTime
  /\ now' = now + 1
  /\ UNCHANGED <<lease, epochFile, snapshot, lock, pc, fence, incarnation,
                 granted, issued>>

Next ==
  \/ Tick
  \/ \E p \in Proc :
       \/ AcquireWriteLease(p) \/ AcquirePersistEpoch(p) \/ AcquireAgain(p)
       \/ Renew(p) \/ Release(p) \/ ReleaseFails(p)
       \/ SaveCheckFence(p) \/ SaveWriteSnapshot(p)
       \/ Crash(p)

Spec == Init /\ [][Next]_vars

-----------------------------------------------------------------------------
TypeOK ==
  /\ now \in Nat
  /\ lease \in Lease \cup {NoLease}
  /\ epochFile \in Nat
  /\ snapshot \in Nat
  /\ lock \in Proc \cup {NoProc}
  /\ pc \in [Proc -> {"idle", "persistEpoch", "writeSnapshot"}]
  /\ fence \in [Proc -> Fence \cup {NoFence}]
  /\ incarnation \in [Proc -> Nat]
  /\ granted \in Nat
  /\ issued \in SUBSET Fence

\* Two different fences never carry the same epoch, although the epoch is
\* spread over two files that are written one after the other and one of them
\* is deleted on release.  The event log orders writers by this epoch.
EpochIdentifiesFence ==
  \A f, g \in issued : f.epoch = g.epoch => f = g

\* No two processes hold a fence that assertFence would accept, whatever
\* expired, was released or crashed before.
OneValidFence ==
  \A p, q \in Proc :
    FenceIsValid(fence[p]) /\ FenceIsValid(fence[q]) => p = q

\* A snapshot is never overwritten by a holder of an older lease, even though a
\* save may land on disk after the lease it was checked against has expired.
SnapshotEpochsIncrease == [][snapshot' >= snapshot]_vars
=============================================================================
