--------------------------- MODULE StreamLockProofs ---------------------------
(***************************************************************************)
(* Proofs about StreamLock for any writers, any number of calls, polls and *)
(* failing file-system calls.                                              *)
(***************************************************************************)
EXTENDS StreamLock, TLAPS

\* Every state has the shape of TypeOK: recoverers never leave the removal.
THEOREM TypeCorrect == LockSpec => []TypeOK
<1> USE LockConstants, NoFileIsNoOwner DEF TypeOK, Files, Owners, Actors, Steps, ClaimSteps
<1>1. LockInit => TypeOK
  BY DEF LockInit
<1>2. TypeOK /\ [LockNext]_vars => TypeOK'
  <2> SUFFICES ASSUME TypeOK, [LockNext]_vars PROVE TypeOK'
    OBVIOUS
  <2>1. ASSUME NEW w \in Writers, Call(w) PROVE TypeOK'
    BY <2>1 DEF Call, Goto
  <2>2. ASSUME NEW w \in Writers, Acquire(w) PROVE TypeOK'
    <3>1. CASE CreateLock(w) BY <3>1 DEF CreateLock, Goto, Id
    <3>2. CASE LockExists(w) BY <3>2 DEF LockExists, Goto
    <3>3. CASE Look(w) BY <3>3 DEF Look, Goto
    <3>4. CASE Retry(w) BY <3>4 DEF Retry, Goto
    <3>5. CASE Timeout(w) BY <3>5 DEF Timeout, Goto
    <3>6. CASE WriteMetadata(w) BY <3>6 DEF WriteMetadata, Goto, Id
    <3>7. CASE SyncDirectory(w) BY <3>7 DEF SyncDirectory, Goto
    <3>8. CASE Finish(w) BY <3>8 DEF Finish, Goto
    <3> QED BY <2>2, <3>1, <3>2, <3>3, <3>4, <3>5, <3>6, <3>7, <3>8 DEF Acquire
  <2>3. ASSUME NEW w \in Writers, AcquireFails(w) PROVE TypeOK'
    BY <2>3 DEF AcquireFails, Fault, Goto
  <2>4. ASSUME NEW r \in Recoverers, Inspect(r) \/ Recover(r) PROVE TypeOK'
    BY <2>4 DEF Inspect, Recover, Goto
  <2>5. ASSUME NEW a \in Actors, Remove(a) PROVE TypeOK'
    <3>1. CASE Stat(a) BY <3>1 DEF Stat, Goto
    <3>2. CASE Read(a) BY <3>2 DEF Read, Goto
    <3>3. CASE Claim(a) BY <3>3 DEF Claim, Goto
    <3>4. CASE ClaimMissing(a) BY <3>4 DEF ClaimMissing, Goto
    <3>5. CASE Verify(a) BY <3>5 DEF Verify, Goto
    <3>6. CASE Delete(a) BY <3>6 DEF Delete, Goto
    <3>7. CASE Restore(a) BY <3>7 DEF Restore, Goto
    <3>8. CASE RestoreRefused(a) BY <3>8 DEF RestoreRefused, Goto
    <3>9. CASE Unlink(a) BY <3>9 DEF Unlink, Goto
    <3> QED BY <2>5, <3>1, <3>2, <3>3, <3>4, <3>5, <3>6, <3>7, <3>8, <3>9 DEF Remove
  <2>6. ASSUME NEW a \in Actors, RemoveFault(a) PROVE TypeOK'
    BY <2>6 DEF RemoveFault, ClaimFails, ClaimInterrupted, DeleteFails, RestoreFails, Fault, Goto
  <2>7. ASSUME NEW a \in Actors, Crash(a) PROVE TypeOK'
    BY <2>7 DEF Crash
  <2>8. CASE UNCHANGED vars
    BY <2>8 DEF vars
  <2> QED BY <2>1, <2>2, <2>3, <2>4, <2>5, <2>6, <2>7, <2>8 DEF LockNext
<1> QED BY <1>1, <1>2, PTL DEF LockSpec

-----------------------------------------------------------------------------
(* Mutual exclusion with one recovery at a time.  The file at lockPath     *)
(* changes hands only by its owner, or by the recoverer that found its     *)
(* owner dead: between that recoverer's check and its rename nobody else   *)
(* may touch the file.                                                     *)

\* Two owners differ as soon as their writers do.
LEMMA IdInjective ==
    ASSUME TypeOK, NEW v \in Writers, NEW w \in Writers, Id(v) = Id(w)
    PROVE  v = w
  BY DEF Id

\* The lock of a call is a file.
LEMMA IdIsNoNoFile ==
    ASSUME TypeOK, NEW w \in Writers
    PROVE  Id(w) \in Owners /\ Id(w) # NoFile
  BY NoFileIsNoOwner DEF Id, TypeOK, Owners

\* LockInv is inductive.
LEMMA LockInvInit == LockInit => LockInv
  BY LockConstants, NoFileIsNoOwner
     DEF LockInit, LockInv, TypeOK, HolderKeepsLock, HoldingSteps, Files, Owners,
         Actors, Steps, ClaimSteps

\* No file-system call breaks LockInv while one recovery runs.
LEMMA LockInvStep ==
    ASSUME OneRecoverer, LockInv, TypeOK', [LockNext]_vars
    PROVE  LockInv'
<1> USE LockConstants, NoFileIsNoOwner
    DEF LockInv, HolderKeepsLock, HoldingSteps, Dead, Id, Goto, Actors
<1>1. ASSUME NEW w \in Writers, Call(w) PROVE LockInv'
  BY <1>1 DEF Call, TypeOK
<1>2. ASSUME NEW w \in Writers, CreateLock(w) PROVE LockInv'
  BY <1>2, IdIsNoNoFile DEF CreateLock, TypeOK
<1>3. ASSUME NEW w \in Writers,
             LockExists(w) \/ Look(w) \/ Retry(w) \/ Timeout(w) \/ WriteMetadata(w)
               \/ SyncDirectory(w) \/ Finish(w) \/ AcquireFails(w)
      PROVE  LockInv'
  BY <1>3 DEF LockExists, Look, Retry, Timeout, WriteMetadata, SyncDirectory, Finish,
              AcquireFails, TypeOK
<1>4. ASSUME NEW r \in Recoverers, Inspect(r) PROVE LockInv'
  BY <1>4 DEF Inspect, Readable, TypeOK
<1>5. ASSUME NEW r \in Recoverers, Recover(r) PROVE LockInv'
  BY <1>5 DEF Recover, TypeOK
<1>6. ASSUME NEW a \in Actors, Stat(a) \/ Read(a) \/ ClaimMissing(a) \/ ClaimFails(a)
      PROVE  LockInv'
  BY <1>6 DEF Stat, Read, Target, ClaimMissing, ClaimFails, TypeOK
<1>7. ASSUME NEW a \in Actors, Claim(a) PROVE LockInv'
  <2>1. CASE a \in Writers
    BY <2>1, <1>7, IdInjective, IdIsNoNoFile DEF Claim, TypeOK
  <2>2. CASE a \in Recoverers
    BY <2>2, <1>7, IdIsNoNoFile DEF Claim, TypeOK, OneRecoverer
  <2> QED BY <2>1, <2>2
<1>8. ASSUME NEW a \in Actors,
             Verify(a) \/ Delete(a) \/ RestoreRefused(a) \/ Unlink(a)
               \/ ClaimInterrupted(a) \/ DeleteFails(a) \/ RestoreFails(a)
      PROVE  LockInv'
  BY <1>8 DEF Verify, Delete, RestoreRefused, Unlink, ClaimInterrupted, DeleteFails,
              RestoreFails, TypeOK
<1>9. ASSUME NEW a \in Actors, Restore(a) PROVE LockInv'
  BY <1>9, IdIsNoNoFile DEF Restore, TypeOK
<1>10. ASSUME NEW a \in Actors, Crash(a) PROVE LockInv'
  <2>1. CASE a \in Writers
    <3>1. /\ deadThrough' = [deadThrough EXCEPT ![a] = calls[a]]
          /\ pc' = [pc EXCEPT ![a] = "idle"]
          /\ UNCHANGED <<lock, calls, target>>
      BY <2>1, <1>10 DEF Crash
    <3>2. \A o \in Owners : Dead(o) => Dead(o)'
      BY <3>1, <2>1 DEF TypeOK, Owners
    <3> QED BY <3>1, <3>2, <2>1 DEF TypeOK, Files
  <2>2. CASE a \in Recoverers
    BY <2>2, <1>10 DEF Crash, TypeOK
  <2> QED BY <2>1, <2>2
<1>11. CASE UNCHANGED vars
  BY <1>11 DEF vars, TypeOK
<1> QED
  BY <1>1, <1>2, <1>3, <1>4, <1>5, <1>6, <1>7, <1>8, <1>9, <1>10, <1>11
     DEF LockNext, Acquire, Remove, RemoveFault

\* LockInv holds in every reachable state.
THEOREM Inductive == ASSUME OneRecoverer PROVE LockSpec => []LockInv
<1>1. LockInv /\ [LockNext]_vars /\ TypeOK' => LockInv'
  BY LockInvStep
<1> QED BY <1>1, LockInvInit, TypeCorrect, PTL DEF LockSpec

\* While at most one recovery runs, a lock file stays at its path until its
\* owner retires it.
THEOREM HolderKeeps == ASSUME OneRecoverer PROVE LockSpec => []HolderKeepsLock
<1>1. LockInv => HolderKeepsLock
  BY DEF LockInv
<1> QED BY <1>1, Inductive, PTL

\* Both processes inside would hold the one file at the path.
LEMMA LockInvExcludes == LockInv => MutualExclusion
<1> SUFFICES ASSUME LockInv, NEW v \in Writers, NEW w \in Writers,
                    pc[v] = "critical", pc[w] = "critical"
             PROVE  v = w
  BY DEF MutualExclusion
<1>1. Id(v) = Id(w)
  BY DEF LockInv, HolderKeepsLock, HoldingSteps
<1> QED BY <1>1, IdInjective DEF LockInv

\* While at most one recovery runs, one process at a time is inside the
\* operation of the stream.
THEOREM Exclusion == ASSUME OneRecoverer PROVE LockSpec => []MutualExclusion
<1> QED BY LockInvExcludes, Inductive, PTL

-----------------------------------------------------------------------------
(* The lock implements StreamMutex: an operation that starts enters, one   *)
(* that ends or dies leaves, and every other file-system call stutters.    *)

Critical == {w \in Writers : pc[w] = "critical"}

\* Every step enters, leaves or stutters in StreamMutex.
LEMMA MutexStep ==
    ASSUME LockInv, LockInv', [LockNext]_vars
    PROVE  [Mutex!MutexNext]_Critical
<1> USE DEF Goto, Actors
<1>0. TypeOK /\ MutualExclusion'
  BY LockInvExcludes, PTL DEF LockInv
<1>1. ASSUME NEW w \in Writers, SyncDirectory(w) PROVE Mutex!Enter(w)
  <2>1. pc[w] = "sync" /\ pc' = [pc EXCEPT ![w] = "critical"]
    BY <1>1 DEF SyncDirectory
  <2>2. \A v \in Writers : pc[v] # "critical"
    BY <2>1, <1>0 DEF MutualExclusion, TypeOK
  <2> QED BY <2>1, <2>2, <1>0 DEF Mutex!Enter, TypeOK
<1>2. ASSUME NEW w \in Writers, Finish(w) PROVE Mutex!Leave(w)
  BY <1>2, <1>0 DEF Finish, Mutex!Leave, TypeOK
<1>3. ASSUME NEW a \in Actors, Crash(a) PROVE Mutex!MutexNext \/ Critical' = Critical
  <2>1. CASE a \in Critical
    BY <2>1, <1>3, <1>0 DEF Crash, Critical, Mutex!MutexNext, Mutex!Leave, TypeOK
  <2>2. CASE a \notin Critical
    BY <2>2, <1>3, <1>0 DEF Crash, Critical, TypeOK
  <2> QED BY <2>1, <2>2
<1>4. ASSUME NEW w \in Writers,
             Call(w) \/ CreateLock(w) \/ LockExists(w) \/ Look(w) \/ Retry(w) \/ Timeout(w)
               \/ WriteMetadata(w) \/ AcquireFails(w)
      PROVE  Critical' = Critical
  BY <1>4, <1>0 DEF Call, CreateLock, LockExists, Look, Retry, Timeout, WriteMetadata,
                    AcquireFails, Critical, TypeOK
<1>5. ASSUME NEW r \in Recoverers, Inspect(r) \/ Recover(r) PROVE Critical' = Critical
  BY <1>5, <1>0, LockConstants DEF Inspect, Recover, Critical, TypeOK
<1>6. ASSUME NEW a \in Actors, Remove(a) PROVE Critical' = Critical
  BY <1>6, <1>0 DEF Remove, Stat, Read, Claim, ClaimMissing, Verify, Delete, Restore,
                    RestoreRefused, Unlink, Critical, TypeOK
<1>7. ASSUME NEW a \in Actors, RemoveFault(a) PROVE Critical' = Critical
  BY <1>7, <1>0 DEF RemoveFault, ClaimFails, ClaimInterrupted, DeleteFails, RestoreFails,
                    Critical, TypeOK
<1>8. CASE UNCHANGED vars
  BY <1>8 DEF vars, Critical
<1> QED
  BY <1>1, <1>2, <1>3, <1>4, <1>5, <1>6, <1>7, <1>8
     DEF LockNext, Acquire, Mutex!MutexNext, Critical

\* While at most one recovery runs, the lock file protocol is a mutex for the
\* operations of the stream.
THEOREM Refinement == ASSUME OneRecoverer PROVE LockSpec => ImplementsMutex
<1>1. LockInit => Mutex!MutexInit
  BY DEF LockInit, Mutex!MutexInit, Actors
<1>2. LockInv /\ LockInv' /\ [LockNext]_vars => [Mutex!MutexNext]_Critical
  BY MutexStep
<1> QED BY <1>1, <1>2, Inductive, PTL DEF LockSpec, ImplementsMutex, Mutex!MutexSpec, Critical

-----------------------------------------------------------------------------
(* No lock is left behind a call that has returned                         *)

\* Who is past the writing of its lock has written it.
WrittenInv ==
    \A w \in Writers :
        pc[w] \in {"sync", "critical", "stat", "read", "rename", "verify"} => Id(w) \in written

\* A recovery claims the lock of a dead call.
RecoveryInv == \A r \in Recoverers : pc[r] \in ClaimSteps => Dead(claimed[r])

\* While no call fails, a call removes its own lock and never has to restore it.
RemovalInv ==
    faults = 0 => \A w \in Writers : /\ pc[w] \in {"verify", "delete"} => claimed[w] = Id(w)
                                    /\ pc[w] \notin {"restore", "unlink"}

\* While no call fails, the lock at the path is that of a call on its way
\* through the operation, or of a dead one.
HeldInv ==
    faults = 0 /\ lock # NoFile =>
        Dead(lock) \/ (lock = Id(lock[1]) /\ pc[lock[1]] \in HoldingSteps)

LeakInv == WrittenInv /\ RecoveryInv /\ RemovalInv /\ HeldInv

\* A dead call stays dead.
LEMMA DeadStays ==
    ASSUME TypeOK, \A w \in Writers : deadThrough[w] <= calls[w], [LockNext]_vars,
           NEW o \in Owners, Dead(o)
    PROVE  Dead(o)'
<1> DEFINE w == o[1]
<1>1. /\ w \in Writers /\ o[2] \in Nat
      /\ deadThrough[w] \in Nat /\ calls[w] \in Nat /\ deadThrough[w] <= calls[w]
  BY DEF Owners, TypeOK
<1>2. CASE deadThrough' = deadThrough
  BY <1>2 DEF Dead
<1>3. ASSUME NEW a \in Actors, Crash(a) PROVE Dead(o)'
  <2>1. deadThrough'[w] \in {deadThrough[w], calls[w]}
    BY <1>1, <1>3 DEF Crash, TypeOK
  <2> QED BY <1>1, <2>1 DEF Dead
<1> QED BY <1>2, <1>3
        DEF LockNext, vars, Call, Acquire, CreateLock, LockExists, Look, Retry, Timeout,
            WriteMetadata, SyncDirectory, Finish, AcquireFails, Inspect, Recover, Remove, Stat,
            Read, Claim, ClaimMissing, Verify, Delete, Restore, RestoreRefused, Unlink,
            RemoveFault, ClaimFails, ClaimInterrupted, DeleteFails, RestoreFails

\* The lock at the path stays, and so does its owner.
LEMMA HeldStays ==
    ASSUME TypeOK, HeldInv, UNCHANGED <<lock, calls, deadThrough>>,
           faults' = 0 => faults = 0,
           \A w \in Writers : pc[w] \in HoldingSteps => pc'[w] \in HoldingSteps
    PROVE  HeldInv'
BY NoFileIsNoOwner DEF HeldInv, TypeOK, Files, Owners, Dead, Id

\* No file-system call breaks LeakInv while one recovery runs.
LEMMA LeakInvStep ==
    ASSUME OneRecoverer, LockInv, LeakInv, [LockNext]_vars
    PROVE  LeakInv'
<1> USE LockConstants, NoFileIsNoOwner DEF Goto, Actors, ClaimSteps
<1>0. /\ TypeOK /\ \A o \in Owners : Dead(o) => Dead(o)'
      /\ WrittenInv /\ RecoveryInv /\ RemovalInv /\ HeldInv
      /\ \A w \in Writers : pc[w] \in HoldingSteps => lock = Id(w)
  BY DeadStays DEF LockInv, LeakInv, HolderKeepsLock
<1>1. ASSUME NEW w \in Writers, Call(w) PROVE LeakInv'
  <2>1. WrittenInv' /\ RecoveryInv' /\ RemovalInv'
    BY <1>0, <1>1 DEF Call, TypeOK, Id, Dead, WrittenInv, RecoveryInv, RemovalInv
  <2>2. HeldInv'
    BY <1>0, <1>1 DEF Call, TypeOK, Id, Dead, HeldInv, HoldingSteps
  <2> QED BY <2>1, <2>2 DEF LeakInv
<1>2. ASSUME NEW w \in Writers, CreateLock(w) PROVE LeakInv'
  <2>1. WrittenInv' /\ RecoveryInv' /\ RemovalInv'
    BY <1>0, <1>2 DEF CreateLock, TypeOK, Id, Dead, WrittenInv, RecoveryInv, RemovalInv
  <2>2. HeldInv'
    BY <1>0, <1>2 DEF CreateLock, TypeOK, Id, Dead, HeldInv, HoldingSteps
  <2> QED BY <2>1, <2>2 DEF LeakInv
<1>3. ASSUME NEW w \in Writers, \/ LockExists(w) \/ Look(w) \/ Retry(w) \/ Timeout(w)
                                \/ WriteMetadata(w) \/ SyncDirectory(w) \/ Finish(w)
      PROVE  LeakInv'
  <2> USE DEF LockExists, Look, Retry, Timeout, WriteMetadata, SyncDirectory, Finish
  <2>1. WrittenInv' /\ RecoveryInv' /\ RemovalInv'
    BY <1>0, <1>3 DEF TypeOK, Id, Dead, WrittenInv, RecoveryInv, RemovalInv
  <2>2. /\ UNCHANGED <<lock, calls, deadThrough, faults>>
        /\ \A v \in Writers : pc[v] \in HoldingSteps => pc'[v] \in HoldingSteps
    BY <1>0, <1>3 DEF TypeOK, HoldingSteps
  <2> QED BY <1>0, <2>1, <2>2, HeldStays DEF LeakInv
<1>4. ASSUME NEW w \in Writers, AcquireFails(w) PROVE LeakInv'
  <2>1. WrittenInv' /\ RecoveryInv'
    BY <1>0, <1>4 DEF AcquireFails, TypeOK, Id, Dead, WrittenInv, RecoveryInv
  <2>2. faults' # 0
    BY <1>0, <1>4 DEF AcquireFails, Fault, TypeOK
  <2> QED BY <2>1, <2>2 DEF LeakInv, RemovalInv, HeldInv
<1>5. ASSUME NEW r \in Recoverers, Inspect(r) \/ Recover(r) PROVE LeakInv'
  <2>1. /\ UNCHANGED <<lock, written, claimed, calls, deadThrough, faults>>
        /\ pc'[r] \notin ClaimSteps /\ \A a \in Actors : a # r => pc'[a] = pc[a]
        /\ \A w \in Writers : w # r
    BY <1>0, <1>5 DEF Inspect, Recover, TypeOK
  <2>2. WrittenInv' /\ RecoveryInv' /\ RemovalInv'
    BY <1>0, <2>1 DEF Id, Dead, WrittenInv, RecoveryInv, RemovalInv
  <2> QED BY <1>0, <2>1, <2>2, HeldStays DEF LeakInv
<1>6. ASSUME NEW a \in Actors, Stat(a) \/ Read(a) \/ ClaimMissing(a) PROVE LeakInv'
  <2> USE DEF Stat, Read, ClaimMissing
  <2>1. /\ UNCHANGED <<lock, written, claimed, calls, deadThrough, faults>>
        /\ pc'[a] \in {"idle", "stat", "read", "rename"}
        /\ pc[a] \in {"stat", "read", "rename"}
        /\ \A b \in Actors : b # a => pc'[b] = pc[b]
    BY <1>0, <1>6 DEF TypeOK
  <2>2. WrittenInv' /\ RecoveryInv' /\ RemovalInv'
    BY <1>0, <2>1 DEF Id, Dead, WrittenInv, RecoveryInv, RemovalInv
  <2>3. ASSUME a \in Writers PROVE pc'[a] # "idle"
    <3>1. lock = Id(a) /\ Id(a) \in written /\ lock # NoFile
      BY <1>0, <2>1, <2>3, IdIsNoNoFile DEF WrittenInv, HoldingSteps
    <3> QED BY <1>0, <1>6, <2>3, <3>1 DEF Target, Readable, TypeOK
  <2>4. \A w \in Writers : pc[w] \in HoldingSteps => pc'[w] \in HoldingSteps
    BY <2>1, <2>3 DEF HoldingSteps
  <2> QED BY <1>0, <2>1, <2>2, <2>4, HeldStays DEF LeakInv
<1>7. ASSUME NEW a \in Actors, Claim(a) PROVE LeakInv'
  <2>1. /\ lock # NoFile /\ lock' = NoFile /\ pc[a] = "rename" /\ pc'[a] = "verify"
        /\ claimed'[a] = lock /\ UNCHANGED <<written, calls, deadThrough, faults>>
        /\ \A b \in Actors : b # a => pc'[b] = pc[b] /\ claimed'[b] = claimed[b]
    BY <1>0, <1>7 DEF Claim, TypeOK
  <2>2. a \in Recoverers => Dead(lock)
    BY <2>1 DEF LockInv
  <2>3. a \in Writers => lock = Id(a)
    BY <1>0, <2>1 DEF HoldingSteps
  <2>4. WrittenInv' /\ RecoveryInv' /\ RemovalInv'
    BY <1>0, <2>1, <2>2, <2>3 DEF Id, Dead, WrittenInv, RecoveryInv, RemovalInv
  <2> QED BY <2>1, <2>4 DEF LeakInv, HeldInv
<1>8. ASSUME NEW a \in Actors, Verify(a) \/ Delete(a) \/ RestoreRefused(a) \/ Unlink(a)
      PROVE  LeakInv'
  <2> USE DEF Verify, Delete, RestoreRefused, Unlink
  <2>1. /\ UNCHANGED <<lock, written, calls, deadThrough, faults>>
        /\ pc[a] \in ClaimSteps /\ pc'[a] \in {"idle", "delete", "restore"}
        /\ pc'[a] # "idle" => claimed' = claimed /\ pc[a] = "verify"
        /\ \A b \in Actors : b # a => pc'[b] = pc[b] /\ claimed'[b] = claimed[b]
    BY <1>0, <1>8 DEF TypeOK
  <2>2. WrittenInv' /\ RecoveryInv'
    BY <1>0, <2>1 DEF Id, Dead, WrittenInv, RecoveryInv
  <2>3. ASSUME a \in Writers, faults = 0 PROVE pc'[a] # "restore"
    <3>1. pc[a] = "verify" => claimed[a] = Id(a) /\ Id(a) \in written /\ Id(a) # NoFile
      BY <1>0, <2>3, IdIsNoNoFile DEF WrittenInv, RemovalInv
    <3> QED BY <1>0, <1>8, <2>3, <3>1 DEF Target, Readable, TypeOK
  <2>4. RemovalInv'
    BY <1>0, <2>1, <2>3 DEF Id, RemovalInv
  <2>5. \A w \in Writers : pc[w] \in HoldingSteps => pc'[w] \in HoldingSteps
    BY <2>1 DEF HoldingSteps
  <2> QED BY <1>0, <2>1, <2>2, <2>4, <2>5, HeldStays DEF LeakInv
<1>9. ASSUME NEW a \in Actors, Restore(a) PROVE LeakInv'
  <2>1. /\ lock' = claimed[a] /\ pc[a] = "restore" /\ pc'[a] = "unlink"
        /\ UNCHANGED <<written, claimed, calls, deadThrough, faults>>
        /\ \A b \in Actors : b # a => pc'[b] = pc[b]
    BY <1>0, <1>9 DEF Restore, TypeOK
  <2>2. faults = 0 => a \in Recoverers /\ Dead(claimed[a])
    BY <1>0, <2>1 DEF RecoveryInv, RemovalInv
  <2>3. WrittenInv' /\ RecoveryInv' /\ RemovalInv'
    BY <1>0, <2>1, <2>2 DEF Id, Dead, WrittenInv, RecoveryInv, RemovalInv
  <2>4. HeldInv'
    BY <2>1, <2>2 DEF HeldInv, Dead
  <2> QED BY <2>3, <2>4 DEF LeakInv
<1>10. ASSUME NEW a \in Actors, RemoveFault(a) PROVE LeakInv'
  <2> USE DEF RemoveFault, ClaimFails, ClaimInterrupted, DeleteFails, RestoreFails
  <2>1. /\ UNCHANGED <<written, calls, deadThrough>>
        /\ pc'[a] \in {"idle", "stat", "restore"}
        /\ pc'[a] = "stat" => pc[a] = "rename"
        /\ pc'[a] = "restore" => pc[a] \in ClaimSteps /\ claimed' = claimed
        /\ \A b \in Actors : b # a => pc'[b] = pc[b] /\ claimed'[b] = claimed[b]
    BY <1>0, <1>10 DEF TypeOK
  <2>2. WrittenInv' /\ RecoveryInv'
    BY <1>0, <2>1 DEF Id, Dead, WrittenInv, RecoveryInv
  <2>3. faults' # 0
    BY <1>0, <1>10 DEF Fault, TypeOK
  <2> QED BY <2>2, <2>3 DEF LeakInv, RemovalInv, HeldInv
<1>11. ASSUME NEW a \in Actors, Crash(a) PROVE LeakInv'
  <2>1. /\ UNCHANGED <<lock, written, calls, faults>> /\ pc'[a] = "idle"
        /\ \A b \in Actors : b # a => pc'[b] = pc[b] /\ claimed'[b] = claimed[b]
        /\ a \in Writers => deadThrough'[a] = calls[a]
    BY <1>0, <1>11 DEF Crash, TypeOK
  <2>2. ASSUME NEW r \in Recoverers, pc'[r] \in ClaimSteps PROVE Dead(claimed[r])'
    <3>1. r # a /\ pc'[r] = pc[r] /\ claimed'[r] = claimed[r] /\ Dead(claimed[r])
      BY <1>0, <2>1, <2>2 DEF RecoveryInv
    <3>2. claimed[r] \in Owners
      BY <1>0, <2>2, <3>1 DEF TypeOK, Files
    <3> QED BY <1>0, <3>1, <3>2 DEF Dead
  <2>3. WrittenInv' /\ RecoveryInv' /\ RemovalInv'
    BY <1>0, <2>1, <2>2 DEF Id, WrittenInv, RecoveryInv, RemovalInv
  <2>4. HeldInv'
    <3> SUFFICES ASSUME faults' = 0, lock' # NoFile
                 PROVE  (Dead(lock) \/ (lock = Id(lock[1]) /\ pc[lock[1]] \in HoldingSteps))'
      BY DEF HeldInv
    <3>1. lock' = lock /\ lock \in Owners /\ lock[1] \in Writers /\ faults = 0
      BY <1>0, <2>1 DEF TypeOK, Files, Owners
    <3>2. CASE Dead(lock)
      <4>1. Dead(lock)'
        BY <1>0, <3>1, <3>2 DEF Dead
      <4> QED BY <4>1
    <3>3. CASE ~Dead(lock) /\ a # lock[1]
      <4>1. lock = Id(lock[1]) /\ pc[lock[1]] \in HoldingSteps
        BY <1>0, <3>1, <3>3 DEF HeldInv
      <4> QED BY <2>1, <3>1, <3>3, <4>1 DEF Id
    <3>4. CASE ~Dead(lock) /\ a = lock[1]
      <4>1. lock = Id(a)
        BY <1>0, <3>1, <3>4 DEF HeldInv
      <4>2. lock'[2] = calls[a] /\ lock'[1] = a /\ deadThrough'[a] = calls[a] /\ calls[a] \in Nat
        BY <1>0, <2>1, <3>1, <3>4, <4>1 DEF Id, TypeOK
      <4>3. Dead(lock)'
        BY <4>2 DEF Dead
      <4> QED BY <4>3
    <3> QED BY <3>2, <3>3, <3>4
  <2> QED BY <2>3, <2>4 DEF LeakInv
<1>12. CASE UNCHANGED vars
  BY <1>0, <1>12 DEF vars, LeakInv, WrittenInv, RecoveryInv, RemovalInv, HeldInv, Id, Dead
<1> QED
  BY <1>1, <1>2, <1>3, <1>4, <1>5, <1>6, <1>7, <1>8, <1>9, <1>10, <1>11, <1>12
     DEF LockNext, Acquire, Remove

\* While no file-system call fails and at most one recovery runs, a stream is
\* never left locked behind a call that has returned.
THEOREM NoLeak == ASSUME OneRecoverer PROVE LockSpec => []NoLeakWithoutFault
<1>1. LockInit => LeakInv
  BY DEF LockInit, LeakInv, WrittenInv, RecoveryInv, RemovalInv, HeldInv, ClaimSteps, Actors
<1>2. LeakInv /\ LockInv /\ [LockNext]_vars => LeakInv'
  BY LeakInvStep
<1>3. LeakInv => NoLeakWithoutFault
  BY DEF LeakInv, HeldInv, NoLeakWithoutFault, HoldingSteps
<1> QED BY <1>1, <1>2, <1>3, Inductive, PTL DEF LockSpec


-----------------------------------------------------------------------------
(* What is deleted, however many recoveries run                            *)

WaitingSteps == {"create", "look", "wait"}

\* The owner of a file is dead or done with it.
Retired(f) == Dead(f) \/ f # Id(f[1]) \/ pc[f[1]] \notin HoldingSteps

\* A file whose owner still holds it is at the lock path, or claimed by a
\* removal that is not about to delete it, or preserved.
InPlace(f) ==
    \/ f = lock \/ f \in stranded
    \/ \E a \in Actors : claimed[a] = f /\ pc[a] \in {"verify", "restore"}

\* A file on the disk was created by a call its owner has begun, and not by one
\* that still waits.
Known(f) == f[2] <= calls[f[1]] /\ (f = Id(f[1]) => pc[f[1]] \notin WaitingSteps)

DiskInv == \A f \in OnDisk : Known(f) /\ (Retired(f) \/ InPlace(f))

\* A removal works on one file, of a dead owner if it is a recovery, and deletes
\* the file it is for.
ClaimInv ==
    /\ \A w \in Writers : deadThrough[w] <= calls[w]
    /\ \A a \in Actors : /\ claimed[a] # NoFile => pc[a] \in ClaimSteps
                         /\ pc[a] = "delete" => claimed[a] = Target(a)
    /\ \A r \in Recoverers : /\ pc[r] # "idle" => target[r] # NoFile
                             /\ pc[r] \notin {"idle", "inspect"} => Dead(target[r])

\* What one step does to a writer.
LEMMA WriterStep ==
    ASSUME TypeOK, [LockNext]_vars, NEW w \in Writers
    PROVE  \/ /\ calls'[w] = calls[w] /\ deadThrough'[w] \in {deadThrough[w], calls[w]}
              /\ pc[w] \notin WaitingSteps
                   => /\ pc'[w] \notin WaitingSteps
                      /\ pc'[w] \in HoldingSteps => pc[w] \in HoldingSteps
           \/ calls'[w] = calls[w] + 1 /\ deadThrough' = deadThrough
<1> USE LockConstants DEF TypeOK, Actors, Goto, WaitingSteps, HoldingSteps
<1>1. ASSUME NEW v \in Writers, Call(v) \/ Acquire(v) \/ AcquireFails(v)
      PROVE  \/ /\ calls'[w] = calls[w] /\ deadThrough'[w] \in {deadThrough[w], calls[w]}
                /\ pc[w] \notin WaitingSteps
                     => /\ pc'[w] \notin WaitingSteps
                        /\ pc'[w] \in HoldingSteps => pc[w] \in HoldingSteps
             \/ calls'[w] = calls[w] + 1 /\ deadThrough' = deadThrough
  BY <1>1 DEF Call, Acquire, CreateLock, LockExists, Look, Retry, Timeout, WriteMetadata,
              SyncDirectory, Finish, AcquireFails
<1>2. ASSUME NEW r \in Recoverers, Inspect(r) \/ Recover(r)
      PROVE  UNCHANGED <<calls, deadThrough>> /\ pc'[w] = pc[w]
  BY <1>2 DEF Inspect, Recover
<1>3. ASSUME NEW a \in Actors, Remove(a) \/ RemoveFault(a)
      PROVE  /\ UNCHANGED <<calls, deadThrough>>
             /\ pc[w] \notin WaitingSteps
                  => /\ pc'[w] \notin WaitingSteps
                     /\ pc'[w] \in HoldingSteps => pc[w] \in HoldingSteps
  BY <1>3 DEF Remove, Stat, Read, Claim, ClaimMissing, Verify, Delete, Restore, RestoreRefused,
              Unlink, RemoveFault, ClaimFails, ClaimInterrupted, DeleteFails, RestoreFails
<1>4. ASSUME NEW a \in Actors, Crash(a)
      PROVE  /\ calls' = calls /\ deadThrough'[w] \in {deadThrough[w], calls[w]}
             /\ pc'[w] \in {pc[w], "idle"}
  BY <1>4 DEF Crash
<1>5. CASE UNCHANGED vars
  BY <1>5 DEF vars
<1> QED BY <1>1, <1>2, <1>3, <1>4, <1>5 DEF LockNext

\* Known files stay known, and retired ones retired.
LEMMA RetiredStays ==
    ASSUME TypeOK, ClaimInv, [LockNext]_vars, NEW f \in Owners, Known(f)
    PROVE  Known(f)' /\ (Retired(f) => Retired(f)')
<1> DEFINE w == f[1]
<1>1. /\ w \in Writers /\ f[2] \in Nat /\ calls[w] \in Nat
      /\ deadThrough[w] \in Nat /\ deadThrough[w] <= calls[w]
      /\ f = Id(w) <=> f[2] = calls[w]
      /\ f = Id(w)' <=> f[2] = calls'[w]
  BY DEF Owners, TypeOK, ClaimInv, Id
<1>2. CASE calls'[w] = calls[w] /\ deadThrough'[w] \in {deadThrough[w], calls[w]}
           /\ (pc[w] \notin WaitingSteps
                => pc'[w] \notin WaitingSteps
                   /\ (pc'[w] \in HoldingSteps => pc[w] \in HoldingSteps))
  BY <1>1, <1>2 DEF Known, Retired, Dead
<1>3. CASE calls'[w] = calls[w] + 1 /\ deadThrough' = deadThrough
  BY <1>1, <1>3 DEF Known, Retired, Dead
<1> QED BY <1>1, <1>2, <1>3, WriterStep

\* A removal goes on as its ClaimInv says.
LEMMA ClaimInvStep ==
    ASSUME TypeOK, ClaimInv, [LockNext]_vars
    PROVE  ClaimInv'
<1> USE LockConstants, NoFileIsNoOwner DEF ClaimInv, TypeOK, Actors, Goto, ClaimSteps, Files
<1>0. \A o \in Owners : Dead(o) => Dead(o)'
  BY DeadStays
<1>1. ASSUME NEW w \in Writers, Call(w) \/ Acquire(w) \/ AcquireFails(w) PROVE ClaimInv'
  <2>1. /\ UNCHANGED <<claimed, deadThrough, target>>
        /\ calls' = calls \/ (pc[w] = "idle" /\ calls' = [calls EXCEPT ![w] = @ + 1])
        /\ pc[w] \notin ClaimSteps /\ pc'[w] \notin ClaimSteps
        /\ \A b \in Actors : b # w => pc'[b] = pc[b]
    BY <1>1 DEF Call, Acquire, CreateLock, LockExists, Look, Retry, Timeout, WriteMetadata,
                SyncDirectory, Finish, AcquireFails
  <2>2. /\ \A v \in Writers : deadThrough'[v] <= calls'[v]
        /\ \A v \in Writers : v # w => calls'[v] = calls[v]
    BY <2>1
  <2>3. ASSUME NEW a \in Actors
        PROVE  /\ claimed'[a] # NoFile => pc'[a] \in ClaimSteps
               /\ pc'[a] = "delete" => claimed'[a] = Target(a)'
    <3>1. CASE a = w
      BY <2>1, <3>1
    <3>2. CASE a # w
      BY <2>1, <2>2, <3>2 DEF Target, Id
    <3> QED BY <3>1, <3>2
  <2>4. \A r \in Recoverers : /\ pc'[r] # "idle" => target'[r] # NoFile
                              /\ pc'[r] \notin {"idle", "inspect"} => Dead(target[r])'
    BY <2>1 DEF Dead
  <2> QED BY <2>2, <2>3, <2>4 DEF Dead, Target, Id
<1>2. ASSUME NEW r \in Recoverers, Inspect(r) \/ Recover(r) PROVE ClaimInv'
  BY <1>2 DEF Inspect, Recover, Readable, Target, Id, Dead
<1>3. ASSUME NEW a \in Actors, Remove(a) \/ RemoveFault(a) PROVE ClaimInv'
  <2> USE DEF Remove, Stat, Read, Claim, ClaimMissing, Verify, Delete, Restore, RestoreRefused,
              Unlink, RemoveFault, ClaimFails, ClaimInterrupted, DeleteFails, RestoreFails
  <2>1. /\ UNCHANGED <<calls, deadThrough, target>> /\ pc[a] \notin {"idle", "inspect"}
        /\ \A b \in Actors : b # a => pc'[b] = pc[b] /\ claimed'[b] = claimed[b]
    BY <1>3
  <2>2. claimed'[a] # NoFile => pc'[a] \in ClaimSteps
    BY <1>3
  <2>3. pc'[a] = "delete" => claimed'[a] = Target(a)
    BY <1>3
  <2> HIDE DEF Remove, RemoveFault
  <2> QED BY <2>1, <2>2, <2>3 DEF Target, Id, Dead
<1>4. ASSUME NEW a \in Actors, Crash(a) PROVE ClaimInv'
  <2>1. /\ UNCHANGED <<calls, target>> /\ pc'[a] = "idle" /\ claimed'[a] = NoFile
        /\ \A b \in Actors : b # a => pc'[b] = pc[b] /\ claimed'[b] = claimed[b]
        /\ \A w \in Writers : deadThrough'[w] \in {deadThrough[w], calls[w]}
    BY <1>4 DEF Crash
  <2>2. \A r \in Recoverers : pc'[r] \notin {"idle", "inspect"} => Dead(target[r])'
    BY <1>0, <2>1 DEF Dead
  <2> QED BY <2>1, <2>2 DEF Target, Id
<1>5. CASE UNCHANGED vars
  BY <1>5 DEF vars, Target, Id, Dead
<1> QED BY <1>1, <1>2, <1>3, <1>4, <1>5 DEF LockNext

\* A file of a live holder stays on the disk, and not only where it is about to
\* be deleted.
LEMMA FileStays ==
    ASSUME TypeOK, ClaimInv, [LockNext]_vars, NEW f \in Owners, InPlace(f), ~Retired(f)
    PROVE  InPlace(f)'
<1> USE LockConstants, NoFileIsNoOwner DEF InPlace, TypeOK, Actors, Goto, Files
<1>1. ASSUME NEW w \in Writers, Call(w) \/ Acquire(w) \/ AcquireFails(w) PROVE InPlace(f)'
  <2>1. /\ UNCHANGED <<claimed, stranded>>
        /\ lock' = lock \/ lock = NoFile
        /\ pc[w] \notin {"verify", "restore"}
        /\ \A b \in Actors : b # w => pc'[b] = pc[b]
    BY <1>1 DEF Call, Acquire, CreateLock, LockExists, Look, Retry, Timeout, WriteMetadata,
                SyncDirectory, Finish, AcquireFails
  <2> QED BY <2>1
<1>2. ASSUME NEW r \in Recoverers, Inspect(r) \/ Recover(r) PROVE InPlace(f)'
  BY <1>2 DEF Inspect, Recover
<1>3. ASSUME NEW a \in Actors, Remove(a) \/ RemoveFault(a) \/ Crash(a) PROVE InPlace(f)'
  <2>1. /\ f \in stranded => f \in stranded'
        /\ \A b \in Actors : b # a => pc'[b] = pc[b] /\ claimed'[b] = claimed[b]
    BY <1>3 DEF Remove, Stat, Read, Claim, ClaimMissing, Verify, Delete, Restore, RestoreRefused,
                Unlink, RemoveFault, ClaimFails, ClaimInterrupted, DeleteFails, RestoreFails, Crash
  <2>2. ASSUME f = lock PROVE InPlace(f)'
    <3>1. CASE Claim(a)
      BY <2>2, <3>1 DEF Claim
    <3>2. CASE ~Claim(a)
      <4>1. lock' = lock
        BY <1>3, <2>2, <3>2 DEF Remove, Stat, Read, ClaimMissing, Verify, Delete, Restore,
              RestoreRefused, Unlink, RemoveFault, ClaimFails, ClaimInterrupted, DeleteFails,
              RestoreFails, Crash
      <4> QED BY <2>2, <4>1
    <3> QED BY <3>1, <3>2
  <2>3. ASSUME f = claimed[a], pc[a] \in {"verify", "restore"} PROVE InPlace(f)'
    <3>1. CASE Verify(a) \/ ClaimInterrupted(a)
      <4>1. claimed[a] # Target(a)
        <5>1. a \in Writers => f # Id(a)
          BY <2>3, <3>1 DEF Retired, HoldingSteps, Id, Verify, ClaimInterrupted
        <5>2. a \in Recoverers => f # target[a]
          BY <2>3, <3>1 DEF Retired, ClaimInv
        <5> QED BY <2>3, <5>1, <5>2 DEF Target
      <4> QED BY <2>3, <3>1, <4>1 DEF Verify, ClaimInterrupted
    <3>2. CASE Restore(a) \/ RestoreRefused(a) \/ RestoreFails(a) \/ Crash(a)
      BY <2>3, <3>2 DEF Restore, RestoreRefused, RestoreFails, Crash
    <3> QED BY <1>3, <2>3, <3>1, <3>2 DEF Remove, Stat, Read, Claim, ClaimMissing, Delete, Unlink,
                RemoveFault, ClaimFails, DeleteFails
  <2> QED BY <2>1, <2>2, <2>3
<1>4. CASE UNCHANGED vars
  BY <1>4 DEF vars
<1> QED BY <1>1, <1>2, <1>3, <1>4 DEF LockNext

\* What is on the disk was there before, or has just been created.
LEMMA OnDiskStep ==
    ASSUME TypeOK, ClaimInv, [LockNext]_vars, NEW f \in OnDisk', f \notin OnDisk
    PROVE  \E w \in Writers : CreateLock(w) /\ f = Id(w)
<1> USE LockConstants, NoFileIsNoOwner DEF OnDisk, TypeOK, Actors, Goto, ClaimSteps, Files
<1>1. ASSUME NEW w \in Writers, Call(w) \/ Acquire(w) \/ AcquireFails(w)
      PROVE  CreateLock(w) /\ f = Id(w)
  <2>1. claimed' = claimed /\ stranded' = stranded
    BY <1>1 DEF Call, Acquire, CreateLock, LockExists, Look, Retry, Timeout, WriteMetadata,
                SyncDirectory, Finish, AcquireFails
  <2>2. lock' # lock
    BY <2>1
  <2> QED BY <1>1, <2>1, <2>2 DEF Call, Acquire, CreateLock, LockExists, Look, Retry, Timeout,
              WriteMetadata, SyncDirectory, Finish, AcquireFails
<1>2. ASSUME NEW r \in Recoverers, Inspect(r) \/ Recover(r) PROVE FALSE
  BY <1>2 DEF Inspect, Recover
<1>3. ASSUME NEW a \in Actors, Remove(a) \/ RemoveFault(a) \/ Crash(a) PROVE FALSE
  <2> USE DEF Remove, Stat, Read, Claim, ClaimMissing, Verify, Delete, Restore, RestoreRefused,
              Unlink, RemoveFault, ClaimFails, ClaimInterrupted, DeleteFails, RestoreFails, Crash
  <2>1. lock' \in {lock, claimed[a], NoFile} /\ claimed'[a] \in {claimed[a], lock, NoFile}
    BY <1>3
  <2>2. stranded' \subseteq stranded \cup {claimed[a]}
    BY <1>3
  <2>3. \A b \in Actors : b # a => claimed'[b] = claimed[b]
    BY <1>3
  <2> HIDE DEF Remove, RemoveFault, Crash
  <2> QED BY <2>1, <2>2, <2>3
<1>4. CASE UNCHANGED vars
  BY <1>4 DEF vars
<1> QED BY <1>1, <1>2, <1>3, <1>4 DEF LockNext

\* Files of owners only.
LEMMA OnDiskOwners == TypeOK => OnDisk \subseteq Owners
BY DEF TypeOK, OnDisk, Files

LEMMA DiskInvStep ==
    ASSUME TypeOK, TypeOK', ClaimInv, DiskInv, [LockNext]_vars
    PROVE  DiskInv'
<1> SUFFICES ASSUME NEW f \in OnDisk' PROVE (Known(f) /\ (Retired(f) \/ InPlace(f)))'
  BY DEF DiskInv
<1>1. f \in Owners
  BY DEF TypeOK, OnDisk, Files
<1>2. CASE f \in OnDisk
  <2>1. Known(f) /\ (Retired(f) \/ InPlace(f))
    BY <1>2 DEF DiskInv
  <2> QED BY <1>1, <2>1, RetiredStays, FileStays
<1>3. CASE f \notin OnDisk
  <2>1. PICK w \in Writers : CreateLock(w) /\ f = Id(w)
    BY <1>3, OnDiskStep
  <2>2. /\ lock' = f /\ pc'[w] = "write" /\ calls' = calls /\ calls[w] \in Nat
        /\ f = <<w, calls[w]>>
    BY <2>1 DEF CreateLock, Goto, TypeOK, Actors, Id
  <2>3. Known(f)' /\ InPlace(f)'
    BY <2>2 DEF Known, InPlace, WaitingSteps, Id
  <2> QED BY <2>3
<1> QED BY <1>2, <1>3

\* However many recoveries run beside each other, crash or fail, a lock file
\* leaves the disk only when its owner is dead or has retired it.
THEOREM DeletesRetired == LockSpec => DeletesOnlyRetiredLocks
<1>1. LockInit => ClaimInv /\ DiskInv
  BY LockConstants DEF LockInit, ClaimInv, DiskInv, OnDisk, Actors
<1>2. ClaimInv /\ TypeOK /\ [LockNext]_vars => ClaimInv'
  BY ClaimInvStep
<1>3. DiskInv /\ ClaimInv /\ TypeOK /\ TypeOK' /\ [LockNext]_vars => DiskInv'
  BY DiskInvStep
<1>4. ASSUME TypeOK, TypeOK', ClaimInv, DiskInv, [LockNext]_vars, NEW f \in OnDisk \ OnDisk'
      PROVE  Retired(f)
  <2>1. f \in Owners
    BY <1>4, OnDiskOwners
  <2>2. ~InPlace(f)'
    BY <1>4, <2>1, NoFileIsNoOwner DEF InPlace, OnDisk
  <2> QED BY <1>4, <2>1, <2>2, FileStays DEF DiskInv
<1>5. TypeOK /\ TypeOK' /\ ClaimInv /\ DiskInv /\ [LockNext]_vars
        => \A f \in OnDisk \ OnDisk' : Retired(f)
  BY <1>4
<1> QED BY <1>1, <1>2, <1>3, <1>5, TypeCorrect, PTL DEF LockSpec, DeletesOnlyRetiredLocks, Retired
=============================================================================
