--------------------------- MODULE RunLease_proofs ---------------------------
(***************************************************************************)
(* Proofs about RunLease for any set of processes, any time to live and    *)
(* unbounded time. The order of epochs needs that a restarted process      *)
(* draws a new holderId; types and the one valid fence do not.             *)
(***************************************************************************)
EXTENDS RunLease, TLAPS

\* A restarted process does not come back under the holderId it died with.
FreshHolders == RestartKeepsHolder = FALSE

-----------------------------------------------------------------------------
(***************************************************************************)
(* The inductive invariant.                                                *)
(***************************************************************************)
\* The file lock is held exactly while its owner is in a critical section.
LockInv == \A p \in Proc : pc[p] # "idle" <=> lock = p

\* What the process in the critical section knows about the lease file.
CriticalInv ==
  \A p \in Proc :
    /\ pc[p] = "persistEpoch" =>
         lease # NoLease /\ lease.holder = HolderId(p) /\ lease.epoch > epochFile
    /\ pc[p] = "writeSnapshot" =>
         lease # NoLease /\ fence[p] # NoFence /\ sameFence(lease, fence[p])

\* No lease on disk belongs to an incarnation that is still to come.
HolderInv ==
  lease # NoLease =>
    \A p \in Proc, n \in Nat : lease.holder = <<p, n>> => n <= incarnation[p]

\* A lease that is ahead of the epoch file is being acquired, or its holder
\* died while acquiring it and nobody can claim it any more.
UnpersistedInv ==
  lease # NoLease /\ lease.epoch > epochFile =>
    \A p \in Proc : lease.holder = HolderId(p) => pc[p] = "persistEpoch"

\* A lease the epoch file has caught up with has been returned to its holder.
PersistedInv ==
  lease # NoLease /\ lease.epoch <= epochFile => toFence(lease) \in issued

FenceInv ==
  \A p \in Proc :
    fence[p] # NoFence => fence[p] \in issued /\ fence[p].holder = HolderId(p)

IssuedInv == \A f \in issued : f.epoch <= epochFile

SnapshotInv ==
  /\ snapshot <= epochFile
  /\ lease # NoLease => snapshot <= lease.epoch

IInv ==
  /\ TypeOK /\ LockInv /\ CriticalInv /\ HolderInv /\ UnpersistedInv
  /\ PersistedInv /\ FenceInv /\ IssuedInv /\ SnapshotInv
  /\ EpochIdentifiesFence
-----------------------------------------------------------------------------
\* A granted lease carries the epoch and the holder its fence carries.
LEMMA ToFenceType ==
  \A l \in Lease : toFence(l) \in Fence
BY DEF Lease, Fence, toFence

\* The next epoch is ahead of both places an epoch is kept in.
LEMMA NextEpochIsFresh ==
  ASSUME TypeOK
  PROVE  /\ NextEpoch \in Nat
         /\ NextEpoch > epochFile
         /\ lease # NoLease => NextEpoch > lease.epoch
BY DEF TypeOK, NextEpoch, Lease

-----------------------------------------------------------------------------
LEMMA InitIInv == Init => IInv
<1> SUFFICES ASSUME Init PROVE IInv
  OBVIOUS
<1>1. TypeOK
  BY DEF Init, TypeOK
<1>2. LockInv /\ CriticalInv /\ HolderInv /\ UnpersistedInv /\ PersistedInv
  BY ProcAssumption DEF Init, LockInv, CriticalInv, HolderInv, UnpersistedInv, PersistedInv
<1>3. FenceInv /\ IssuedInv /\ EpochIdentifiesFence
  BY DEF Init, FenceInv, IssuedInv, EpochIdentifiesFence
<1>4. SnapshotInv
  BY DEF Init, SnapshotInv
<1>5. QED
  BY <1>1, <1>2, <1>3, <1>4 DEF IInv

LEMMA NextIInv ==
  ASSUME FreshHolders, IInv, [Next]_vars
  PROVE  IInv'
<1> USE TtlAssumption, ProcAssumption, NoneAssumption
<1> USE DEF IInv
<1>1. CASE Tick
  <2>1. TypeOK'
    BY <1>1 DEF Tick, TypeOK
  <2>2. (LockInv /\ CriticalInv /\ HolderInv /\ UnpersistedInv /\ PersistedInv
         /\ FenceInv /\ IssuedInv /\ SnapshotInv /\ EpochIdentifiesFence)'
    BY <1>1 DEF Tick, TypeOK, LockInv, CriticalInv, HolderInv, UnpersistedInv,
       PersistedInv, FenceInv, IssuedInv, SnapshotInv, EpochIdentifiesFence,
       HolderId, sameFence, toFence
  <2>3. QED
    BY <2>1, <2>2
<1>2. ASSUME NEW p \in Proc, AcquireWriteLease(p) PROVE IInv'
  <2> DEFINE new == [holder |-> HolderId(p), epoch |-> NextEpoch,
                     token |-> granted, expiresAt |-> now + Ttl]
  <2>1. new \in Lease
    BY NextEpochIsFresh DEF TypeOK, HolderId, Lease, Holder
  <2>2. /\ lease' = new /\ lease' # NoLease
        /\ lease'.holder = HolderId(p)' /\ lease'.epoch = NextEpoch
    BY <1>2, <2>1 DEF AcquireWriteLease, HolderId
  <2>3. TypeOK' /\ LockInv'
    BY <1>2, <2>1 DEF AcquireWriteLease, TypeOK, LockInv, LockIsFree
  <2>4. CriticalInv'
    BY <1>2, <2>2, NextEpochIsFresh DEF AcquireWriteLease, TypeOK, LockInv, LockIsFree,
       CriticalInv, HolderId
  <2>5. HolderInv'
    BY <1>2, <2>2 DEF AcquireWriteLease, TypeOK, HolderInv, HolderId
  <2>6. UnpersistedInv' /\ PersistedInv'
    BY <1>2, <2>2, NextEpochIsFresh DEF AcquireWriteLease, TypeOK,
       UnpersistedInv, PersistedInv, HolderId
  <2>7. FenceInv' /\ IssuedInv' /\ EpochIdentifiesFence'
    BY <1>2 DEF AcquireWriteLease, FenceInv, IssuedInv, EpochIdentifiesFence, HolderId
  <2>8. SnapshotInv'
    BY <1>2, <2>2, NextEpochIsFresh DEF AcquireWriteLease, TypeOK, SnapshotInv
  <2>9. QED
    BY <2>3, <2>4, <2>5, <2>6, <2>7, <2>8
<1>3. ASSUME NEW p \in Proc, AcquirePersistEpoch(p) PROVE IInv'
  <2>1. /\ lease \in Lease /\ lease # NoLease /\ lease.epoch > epochFile
        /\ lease.holder = HolderId(p)
        /\ lock = p
    BY <1>3 DEF AcquirePersistEpoch, TypeOK, CriticalInv, LockInv
  <2>2. /\ toFence(lease) \in Fence
        /\ toFence(lease).epoch = lease.epoch /\ toFence(lease).holder = HolderId(p)
    BY <2>1, ToFenceType DEF toFence
  <2>3. TypeOK' /\ LockInv'
    BY <1>3, <2>1, <2>2 DEF AcquirePersistEpoch, Return, TypeOK, LockInv, Lease
  <2>4. CriticalInv'
    BY <1>3, <2>1 DEF AcquirePersistEpoch, Return, TypeOK, LockInv, CriticalInv, HolderId,
       sameFence
  <2>5. HolderInv'
    BY <1>3 DEF AcquirePersistEpoch, HolderInv
  <2>6. UnpersistedInv' /\ PersistedInv'
    BY <1>3, <2>1 DEF AcquirePersistEpoch, Return, UnpersistedInv, PersistedInv, Lease,
       toFence
  <2>7. FenceInv'
    BY <1>3, <2>2 DEF AcquirePersistEpoch, Return, TypeOK, FenceInv, HolderId
  <2>8. IssuedInv' /\ EpochIdentifiesFence'
    BY <1>3, <2>1, <2>2 DEF AcquirePersistEpoch, Return, TypeOK, IssuedInv,
       EpochIdentifiesFence, Lease, Fence
  <2>9. SnapshotInv'
    BY <1>3, <2>1 DEF AcquirePersistEpoch, TypeOK, SnapshotInv, Lease
  <2>10. QED
    BY <2>3, <2>4, <2>5, <2>6, <2>7, <2>8, <2>9
<1>4. ASSUME NEW p \in Proc, AcquireAgain(p) PROVE IInv'
  <2>1. /\ lease \in Lease /\ lease # NoLease /\ lease.holder = HolderId(p)
        /\ lock = NoProc /\ fence[p] = NoFence
    BY <1>4 DEF AcquireAgain, Unexpired, TypeOK, LockIsFree
  <2>2. lease.epoch <= epochFile /\ toFence(lease) \in issued
    BY <2>1 DEF UnpersistedInv, PersistedInv, LockInv, TypeOK, Lease
  <2>3. toFence(lease) \in Fence /\ toFence(lease).holder = HolderId(p)
    BY <2>1, ToFenceType DEF toFence
  <2>4. issued' = issued
    BY <1>4, <2>2 DEF AcquireAgain, Return
  <2>5. TypeOK' /\ LockInv'
    BY <1>4, <2>3 DEF AcquireAgain, Return, TypeOK, LockInv
  <2>6. CriticalInv'
    BY <1>4, <2>1 DEF AcquireAgain, Return, TypeOK, LockInv, CriticalInv, HolderId, sameFence
  <2>7. FenceInv'
    BY <1>4, <2>2, <2>3 DEF AcquireAgain, Return, TypeOK, FenceInv, HolderId
  <2>8. (HolderInv /\ UnpersistedInv /\ PersistedInv /\ IssuedInv /\ SnapshotInv
         /\ EpochIdentifiesFence)'
    BY <1>4, <2>4 DEF AcquireAgain, HolderInv, UnpersistedInv, PersistedInv, IssuedInv,
       SnapshotInv, EpochIdentifiesFence, HolderId
  <2>9. QED
    BY <2>5, <2>6, <2>7, <2>8
<1>5. ASSUME NEW p \in Proc, Renew(p) PROVE IInv'
  <2>1. lease \in Lease /\ lease # NoLease
    BY <1>5 DEF Renew, FenceIsValid, Unexpired, TypeOK
  <2>2. /\ lease' \in Lease /\ lease' # NoLease
        /\ lease'.holder = lease.holder /\ lease'.epoch = lease.epoch
        /\ toFence(lease') = toFence(lease)
    BY <1>5, <2>1 DEF Renew, TypeOK, Lease, toFence
  <2>3. TypeOK' /\ LockInv'
    BY <1>5, <2>2 DEF Renew, TypeOK, LockInv
  <2>4. CriticalInv'
    BY <1>5, <2>1, <2>2 DEF Renew, LockInv, LockIsFree, CriticalInv, TypeOK
  <2>5. (HolderInv /\ UnpersistedInv /\ PersistedInv)'
    BY <1>5, <2>1, <2>2 DEF Renew, HolderInv, UnpersistedInv, PersistedInv, HolderId
  <2>6. (FenceInv /\ IssuedInv /\ SnapshotInv /\ EpochIdentifiesFence)'
    BY <1>5, <2>1, <2>2 DEF Renew, FenceInv, IssuedInv, SnapshotInv, EpochIdentifiesFence,
       HolderId
  <2>7. QED
    BY <2>3, <2>4, <2>5, <2>6
<1>6. ASSUME NEW p \in Proc, Release(p) PROVE IInv'
  <2>1. lease' \in {lease, NoLease} /\ lock = NoProc
    BY <1>6 DEF Release, LockIsFree
  <2>2. TypeOK' /\ LockInv'
    BY <1>6, <2>1 DEF Release, TypeOK, LockInv
  <2>3. CriticalInv'
    BY <1>6, <2>1 DEF Release, LockInv, CriticalInv, TypeOK
  <2>4. (HolderInv /\ UnpersistedInv /\ PersistedInv /\ SnapshotInv)'
    BY <1>6, <2>1 DEF Release, HolderInv, UnpersistedInv, PersistedInv, SnapshotInv, HolderId
  <2>5. (FenceInv /\ IssuedInv /\ EpochIdentifiesFence)'
    BY <1>6 DEF Release, TypeOK, FenceInv, IssuedInv, EpochIdentifiesFence, HolderId
  <2>6. QED
    BY <2>2, <2>3, <2>4, <2>5
<1>7. ASSUME NEW p \in Proc, SaveCheckFence(p) PROVE IInv'
  <2>1. lease # NoLease /\ fence[p] # NoFence /\ sameFence(lease, fence[p])
    BY <1>7 DEF SaveCheckFence, FenceIsValid, Unexpired
  <2>2. TypeOK' /\ LockInv'
    BY <1>7 DEF SaveCheckFence, TypeOK, LockInv, LockIsFree
  <2>3. CriticalInv'
    BY <1>7, <2>1 DEF SaveCheckFence, LockInv, LockIsFree, CriticalInv, TypeOK, HolderId,
       sameFence
  <2>4. UnpersistedInv'
    BY <1>7 DEF SaveCheckFence, LockInv, LockIsFree, UnpersistedInv, TypeOK, HolderId
  <2>5. (HolderInv /\ PersistedInv /\ FenceInv /\ IssuedInv /\ SnapshotInv
         /\ EpochIdentifiesFence)'
    BY <1>7 DEF SaveCheckFence, HolderInv, PersistedInv, FenceInv, IssuedInv, SnapshotInv,
       EpochIdentifiesFence, HolderId
  <2>6. QED
    BY <2>2, <2>3, <2>4, <2>5
<1>8. ASSUME NEW p \in Proc, SaveWriteSnapshot(p) PROVE IInv'
  <2>1. /\ lock = p
        /\ lease \in Lease /\ lease # NoLease /\ fence[p] \in Fence /\ fence[p] \in issued
        /\ fence[p].epoch = lease.epoch
    BY <1>8 DEF SaveWriteSnapshot, LockInv, CriticalInv, FenceInv, TypeOK, sameFence, toFence
  <2>2. TypeOK' /\ LockInv'
    BY <1>8, <2>1 DEF SaveWriteSnapshot, TypeOK, LockInv, Fence
  <2>3. CriticalInv' /\ UnpersistedInv'
    BY <1>8, <2>1 DEF SaveWriteSnapshot, LockInv, CriticalInv, UnpersistedInv, TypeOK,
       HolderId, sameFence
  <2>4. SnapshotInv'
    BY <1>8, <2>1 DEF SaveWriteSnapshot, SnapshotInv, IssuedInv, TypeOK, Lease
  <2>5. (HolderInv /\ PersistedInv /\ FenceInv /\ IssuedInv /\ EpochIdentifiesFence)'
    BY <1>8 DEF SaveWriteSnapshot, HolderInv, PersistedInv, FenceInv, IssuedInv,
       EpochIdentifiesFence, HolderId
  <2>6. QED
    BY <2>2, <2>3, <2>4, <2>5
<1>9. ASSUME NEW p \in Proc, Crash(p) PROVE IInv'
  <2>1. incarnation' = [incarnation EXCEPT ![p] = @ + 1]
    BY <1>9 DEF Crash, FreshHolders
  <2>2. TypeOK' /\ LockInv'
    BY <1>9, <2>1 DEF Crash, TypeOK, LockInv
  <2>3. \A q \in Proc : lease # NoLease /\ lease.holder = HolderId(q)' =>
          q # p /\ lease.holder = HolderId(q)
    BY <1>9, <2>1 DEF TypeOK, HolderInv, HolderId
  <2>4. CriticalInv' /\ UnpersistedInv'
    BY <1>9, <2>1, <2>3 DEF Crash, LockInv, CriticalInv, UnpersistedInv, TypeOK, HolderId,
       sameFence
  <2>5. HolderInv'
    BY <1>9, <2>1 DEF Crash, TypeOK, HolderInv
  <2>6. FenceInv'
    BY <1>9, <2>1 DEF Crash, TypeOK, FenceInv, HolderId
  <2>7. (PersistedInv /\ IssuedInv /\ SnapshotInv /\ EpochIdentifiesFence)'
    BY <1>9 DEF Crash, PersistedInv, IssuedInv, SnapshotInv, EpochIdentifiesFence
  <2>8. QED
    BY <2>2, <2>4, <2>5, <2>6, <2>7
<1>10. ASSUME NEW p \in Proc, ReleaseFails(p) PROVE IInv'
  <2>1. TypeOK' /\ LockInv' /\ FenceInv'
    BY <1>10 DEF ReleaseFails, TypeOK, LockInv, FenceInv, HolderId
  <2>2. CriticalInv'
    BY <1>10 DEF ReleaseFails, TypeOK, CriticalInv, HolderId, sameFence
  <2>3. (HolderInv /\ UnpersistedInv /\ PersistedInv /\ IssuedInv /\ SnapshotInv
         /\ EpochIdentifiesFence)'
    BY <1>10 DEF ReleaseFails, HolderInv, UnpersistedInv, PersistedInv, IssuedInv,
       SnapshotInv, EpochIdentifiesFence, HolderId
  <2>4. QED
    BY <2>1, <2>2, <2>3
<1>11. CASE UNCHANGED vars
  BY <1>11 DEF vars, TypeOK, LockInv, CriticalInv, HolderInv, UnpersistedInv,
     PersistedInv, FenceInv, IssuedInv, SnapshotInv, EpochIdentifiesFence,
     HolderId, sameFence
<1>12. QED
  BY <1>1, <1>2, <1>3, <1>4, <1>5, <1>6, <1>7, <1>8, <1>9, <1>10, <1>11 DEF Next

\* Only save() writes the snapshot, and it writes the epoch of the lease on disk.
LEMMA StepSnapshot ==
  ASSUME IInv, [Next]_vars
  PROVE  [snapshot' >= snapshot]_vars
<1>1. ASSUME NEW p \in Proc, SaveWriteSnapshot(p) PROVE snapshot' >= snapshot
  <2>1. /\ lease \in Lease /\ lease # NoLease /\ fence[p] \in Fence
        /\ fence[p].epoch = lease.epoch
    BY <1>1 DEF IInv, SaveWriteSnapshot, CriticalInv, TypeOK, sameFence, toFence
  <2>2. QED
    BY <1>1, <2>1 DEF SaveWriteSnapshot, IInv, SnapshotInv, TypeOK, Lease
<1>2. CASE snapshot' = snapshot
  BY <1>2 DEF IInv, TypeOK
<1>3. CASE UNCHANGED vars
  BY <1>3
<1>4. QED
  BY <1>1, <1>2, <1>3 DEF Next, Tick, AcquireWriteLease, AcquirePersistEpoch, AcquireAgain,
     Renew, Release, ReleaseFails, SaveCheckFence, Crash

-----------------------------------------------------------------------------
\* The invariant above holds in every state of FileRunStateStore.
LEMMA Invariance ==
  ASSUME FreshHolders
  PROVE  Spec => []IInv
<1>1. IInv /\ [Next]_vars => IInv'
  BY NextIInv
<1>2. QED
  BY InitIInv, <1>1, PTL DEF Spec

\* acquire() never returns two different fences with the same epoch, however
\* often processes crash between writing the lease file and the epoch file.
THEOREM EpochsUnique ==
  ASSUME FreshHolders
  PROVE  Spec => []EpochIdentifiesFence
<1>1. IInv => EpochIdentifiesFence
  BY DEF IInv
<1>2. QED
  BY <1>1, Invariance, PTL

\* save() never replaces a snapshot by one of an older lease, although it may
\* write after its own lease has expired.
THEOREM SnapshotOrder ==
  ASSUME FreshHolders
  PROVE  Spec => SnapshotEpochsIncrease
<1>1. IInv /\ [Next]_vars => [snapshot' >= snapshot]_vars
  BY StepSnapshot
<1>2. QED
  BY <1>1, Invariance, PTL DEF Spec, SnapshotEpochsIncrease
-----------------------------------------------------------------------------
(***************************************************************************)
(* What holds whether or not a restarted process keeps its holderId.       *)
(***************************************************************************)
\* The lock is held by who is in a critical section; the lease that is being persisted
\* is there and its holder's, and so is the fence that is being saved under.
SectionInv ==
  \A p \in Proc :
    /\ pc[p] = "persistEpoch" => lease # NoLease /\ lease.holder = HolderId(p)
    /\ pc[p] = "writeSnapshot" => fence[p] # NoFence

\* The fence of a process is one of its own.
OwnFence == \A p \in Proc : fence[p] # NoFence => fence[p].holder = HolderId(p)

CoreInv == TypeOK /\ LockInv /\ SectionInv /\ OwnFence

\* The types, whoever restarts under which holderId.
LEMMA NextTypeOK ==
  ASSUME CoreInv, [Next]_vars
  PROVE  TypeOK'
<1> USE TtlAssumption, ProcAssumption, NoneAssumption
<1>1. TypeOK /\ LockInv /\ SectionInv
  BY DEF CoreInv
<1>2. CASE Tick \/ UNCHANGED vars
  BY <1>1, <1>2 DEF Tick, vars, TypeOK
<1>3. ASSUME NEW p \in Proc, AcquireWriteLease(p) PROVE TypeOK'
  <2>1. [holder |-> HolderId(p), epoch |-> NextEpoch, token |-> granted, expiresAt |-> now + Ttl] \in Lease
    BY <1>1, NextEpochIsFresh DEF TypeOK, HolderId, Lease, Holder
  <2>2. QED
    BY <1>1, <1>3, <2>1 DEF AcquireWriteLease, TypeOK
<1>4. ASSUME NEW p \in Proc, AcquirePersistEpoch(p) PROVE TypeOK'
  <2>1. lease \in Lease /\ toFence(lease) \in Fence /\ lease.epoch \in Nat
    BY <1>1, <1>4, ToFenceType DEF AcquirePersistEpoch, SectionInv, TypeOK, Lease
  <2>2. QED
    BY <1>1, <1>4, <2>1 DEF AcquirePersistEpoch, Return, TypeOK
<1>5. ASSUME NEW p \in Proc, AcquireAgain(p) PROVE TypeOK'
  <2>1. toFence(lease) \in Fence
    BY <1>1, <1>5, ToFenceType DEF AcquireAgain, Unexpired, TypeOK
  <2>2. QED
    BY <1>1, <1>5, <2>1 DEF AcquireAgain, Return, TypeOK
<1>6. ASSUME NEW p \in Proc, Renew(p) PROVE TypeOK'
  <2>1. lease \in Lease /\ [lease EXCEPT !.expiresAt = now + Ttl] \in Lease
    BY <1>1, <1>6 DEF Renew, FenceIsValid, Unexpired, TypeOK, Lease
  <2>2. QED
    BY <1>1, <1>6, <2>1 DEF Renew, TypeOK
<1>7. ASSUME NEW p \in Proc, Release(p) \/ ReleaseFails(p) \/ SaveCheckFence(p) PROVE TypeOK'
  BY <1>1, <1>7 DEF Release, ReleaseFails, SaveCheckFence, TypeOK
<1>8. ASSUME NEW p \in Proc, SaveWriteSnapshot(p) PROVE TypeOK'
  <2>1. fence[p] \in Fence /\ fence[p].epoch \in Nat
    BY <1>1, <1>8 DEF SaveWriteSnapshot, SectionInv, TypeOK, Fence
  <2>2. QED
    BY <1>1, <1>8, <2>1 DEF SaveWriteSnapshot, TypeOK
<1>9. ASSUME NEW p \in Proc, Crash(p) PROVE TypeOK'
  BY <1>1, <1>9 DEF Crash, TypeOK
<1>10. QED
  BY <1>2, <1>3, <1>4, <1>5, <1>6, <1>7, <1>8, <1>9 DEF Next

\* The lock and what its owner relies on.
LEMMA NextCoreInv ==
  ASSUME CoreInv, [Next]_vars
  PROVE  CoreInv'
<1> USE ProcAssumption, NoneAssumption
<1> USE DEF CoreInv
<1>1. TypeOK'
  BY NextTypeOK
<1>2. CASE Tick \/ UNCHANGED vars
  BY <1>1, <1>2 DEF Tick, vars, LockInv, SectionInv, OwnFence, HolderId
<1>3. ASSUME NEW p \in Proc, AcquireWriteLease(p) PROVE CoreInv'
  <2>1. lease' # NoLease /\ lease'.holder = HolderId(p)
    <3>1. NextEpoch \in Nat /\ granted \in Nat /\ now + Ttl \in Nat /\ HolderId(p) \in Holder
      BY NextEpochIsFresh, TtlAssumption DEF TypeOK, HolderId, Holder
    <3>2. lease' \in Lease
      BY <1>3, <3>1 DEF AcquireWriteLease, Lease
    <3>3. lease'.holder = HolderId(p)
      BY <1>3 DEF AcquireWriteLease
    <3>4. QED
      BY <3>2, <3>3
  <2>2. LockInv' /\ OwnFence'
    BY <1>3 DEF AcquireWriteLease, LockIsFree, TypeOK, LockInv, OwnFence, HolderId
  <2>3. SectionInv'
    BY <1>3, <2>1 DEF AcquireWriteLease, LockIsFree, TypeOK, LockInv, SectionInv, HolderId
  <2>4. QED
    BY <1>1, <2>2, <2>3
<1>4. ASSUME NEW p \in Proc, AcquirePersistEpoch(p) PROVE CoreInv'
  <2>1. lock = p /\ toFence(lease).holder = HolderId(p) /\ toFence(lease) \in Fence
    BY <1>4, ToFenceType DEF AcquirePersistEpoch, LockInv, SectionInv, toFence, TypeOK
  <2>2. LockInv' /\ SectionInv'
    BY <1>4, <2>1 DEF AcquirePersistEpoch, Return, TypeOK, LockInv, SectionInv, HolderId
  <2>3. OwnFence'
    BY <1>4, <2>1 DEF AcquirePersistEpoch, Return, TypeOK, OwnFence, HolderId
  <2>4. QED
    BY <1>1, <2>2, <2>3
<1>5. ASSUME NEW p \in Proc, AcquireAgain(p) PROVE CoreInv'
  <2>1. toFence(lease).holder = HolderId(p) /\ toFence(lease) \in Fence
    BY <1>5, ToFenceType DEF AcquireAgain, Unexpired, toFence, TypeOK
  <2>2. LockInv' /\ SectionInv'
    BY <1>5, <2>1 DEF AcquireAgain, LockIsFree, Return, TypeOK, LockInv, SectionInv, HolderId
  <2>3. OwnFence'
    BY <1>5, <2>1 DEF AcquireAgain, Return, TypeOK, OwnFence, HolderId
  <2>4. QED
    BY <1>1, <2>2, <2>3
<1>6. ASSUME NEW p \in Proc, Renew(p) PROVE CoreInv'
  BY <1>1, <1>6 DEF Renew, LockIsFree, TypeOK, LockInv, SectionInv, OwnFence, HolderId
<1>7. ASSUME NEW p \in Proc, Release(p) PROVE CoreInv'
  BY <1>1, <1>7 DEF Release, LockIsFree, TypeOK, LockInv, SectionInv, OwnFence, HolderId
<1>8. ASSUME NEW p \in Proc, ReleaseFails(p) PROVE CoreInv'
  BY <1>1, <1>8 DEF ReleaseFails, TypeOK, LockInv, SectionInv, OwnFence, HolderId
<1>9. ASSUME NEW p \in Proc, SaveCheckFence(p) PROVE CoreInv'
  BY <1>1, <1>9
     DEF SaveCheckFence, LockIsFree, FenceIsValid, TypeOK, LockInv, SectionInv, OwnFence, HolderId
<1>10. ASSUME NEW p \in Proc, SaveWriteSnapshot(p) PROVE CoreInv'
  BY <1>1, <1>10 DEF SaveWriteSnapshot, TypeOK, LockInv, SectionInv, OwnFence, HolderId
<1>11. ASSUME NEW p \in Proc, Crash(p) PROVE CoreInv'
  <2>1. LockInv'
    BY <1>11 DEF Crash, TypeOK, LockInv
  <2>2. \A q \in Proc \ {p} :
          pc'[q] = pc[q] /\ fence'[q] = fence[q] /\ HolderId(q)' = HolderId(q)
    BY <1>11 DEF Crash, TypeOK, HolderId
  <2>3. pc'[p] = "idle" /\ fence'[p] = NoFence /\ lease' = lease
    BY <1>11 DEF Crash, TypeOK
  <2>4. SectionInv' /\ OwnFence'
    BY <2>2, <2>3 DEF SectionInv, OwnFence
  <2>5. QED
    BY <1>1, <2>1, <2>4
<1>12. QED
  BY <1>2, <1>3, <1>4, <1>5, <1>6, <1>7, <1>8, <1>9, <1>10, <1>11 DEF Next

\* CoreInv holds in every state, whatever holderId a restarted process has.
LEMMA CoreInvariance == Spec => []CoreInv
<1>1. Init => CoreInv
  BY ProcAssumption, NoneAssumption DEF Init, CoreInv, TypeOK, LockInv, SectionInv, OwnFence
<1>2. CoreInv /\ [Next]_vars => CoreInv'
  BY NextCoreInv
<1>3. QED
  BY <1>1, <1>2, PTL DEF Spec

\* No two leases are valid at once: both would be the lease on disk, which names
\* one holder.
LEMMA CoreInvExclusive == CoreInv => OneValidFence
<1> SUFFICES ASSUME CoreInv, NEW p \in Proc, NEW q \in Proc,
                    FenceIsValid(fence[p]), FenceIsValid(fence[q])
             PROVE  p = q
  BY DEF OneValidFence
<1>1. fence[p] = fence[q]
  BY DEF FenceIsValid, sameFence
<1>2. fence[p].holder = HolderId(p) /\ fence[q].holder = HolderId(q)
  BY DEF FenceIsValid, CoreInv, OwnFence
<1>3. QED
  BY <1>1, <1>2 DEF HolderId

\* The lease, epoch and snapshot files and the fences handed out keep their types
\* through every acquire, renew, release, save and crash, also of a process that
\* restarts under the holderId it died with.
THEOREM TypeCorrect == Spec => []TypeOK
<1>1. CoreInv => TypeOK
  BY DEF CoreInv
<1>2. QED
  BY <1>1, CoreInvariance, PTL

\* assertFence accepts at most one process at any time, whatever holderId a process
\* restarts under: the fence it accepts names its process.
THEOREM FenceExclusive == Spec => []OneValidFence
BY CoreInvExclusive, CoreInvariance, PTL
=============================================================================
