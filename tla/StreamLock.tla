----------------------------- MODULE StreamLock -----------------------------
(***************************************************************************)
(* The lock file of one stream: withStreamLock, removeOwnedLockAtomically  *)
(* and recoverOrphanedLock of FileEventJournal, one action per file-system *)
(* call.  A writer is a process that runs a stream operation, a recoverer  *)
(* one that runs `recover-lock`.                                           *)
(*                                                                         *)
(* A lock file is named by the owner that created it: open(O_EXCL) makes a *)
(* new inode and ownerId is a fresh UUID per call, so the pair of a writer *)
(* and the number of its call stands for both.  The file follows renames.  *)
(***************************************************************************)
EXTENDS Naturals

CONSTANTS
    Writers,        \* processes that call append or recoverTrailingCorruption
    Recoverers,     \* processes that call recoverOrphanedLock
    NoFile,         \* nothing at a path
    MaxCalls,       \* bound: calls of withStreamLock per writer
    MaxWaits,       \* bound: polls before lockTimeoutMs has passed
    MaxFaults       \* bound: failing file-system calls

ASSUME LockConstants ==
    /\ Writers \cap Recoverers = {}
    /\ MaxCalls \in Nat /\ MaxWaits \in Nat /\ MaxFaults \in Nat

VARIABLES
    lock,           \* the file at lockPath, or NoFile
    written,        \* the lock files whose metadata has been written
    claimed,        \* per actor: the file at its unique claimedPath, or NoFile
    stranded,       \* claimed files nobody will touch again
    calls,          \* per writer: how many calls it has begun
    deadThrough,    \* per writer: calls up to this one ran in a dead process
    pc,             \* per actor: the next file-system call
    target,         \* per recoverer: the ownerId it has found and removes
    waits,          \* per writer: polls of the current call
    faults          \* file-system calls that have failed so far

vars == <<lock, written, claimed, stranded, calls, deadThrough, pc, target,
          waits, faults>>

Actors == Writers \cup Recoverers
Owners == Writers \X Nat
Files  == Owners \cup {NoFile}

ASSUME NoFileIsNoOwner == NoFile \notin Owners

\* The ownerId of the call writer w is in.
Id(w) == <<w, calls[w]>>

\* process.kill(pid, 0) fails with ESRCH.
Dead(o) == o[2] <= deadThrough[o[1]]

\* readFile and isLockMetadata succeed: inspectLock has metadata to compare.
Readable(f) == f # NoFile /\ f \in written

LockInit ==
    /\ lock = NoFile
    /\ written = {}
    /\ claimed = [a \in Actors |-> NoFile]
    /\ stranded = {}
    /\ calls = [w \in Writers |-> 0]
    /\ deadThrough = [w \in Writers |-> 0]
    /\ pc = [a \in Actors |-> "idle"]
    /\ target = [r \in Recoverers |-> NoFile]
    /\ waits = [w \in Writers |-> 0]
    /\ faults = 0

Goto(a, from, to) == pc[a] = from /\ pc' = [pc EXCEPT ![a] = to]

Fault == faults < MaxFaults /\ faults' = faults + 1

-----------------------------------------------------------------------------
(* withStreamLock: acquiring                                               *)

Call(w) ==
    /\ calls[w] < MaxCalls
    /\ Goto(w, "idle", "create")
    /\ calls' = [calls EXCEPT ![w] = @ + 1]
    /\ waits' = [waits EXCEPT ![w] = 0]
    /\ UNCHANGED <<lock, written, claimed, stranded, deadThrough, target, faults>>

\* Mutant: without O_EXCL.
CreateOverLock(w) ==
    /\ Goto(w, "create", "write")
    /\ lock' = Id(w)
    /\ waits' = [waits EXCEPT ![w] = 0]
    /\ UNCHANGED <<written, claimed, stranded, calls, deadThrough, target, faults>>

\* open(path, O_CREAT | O_EXCL | O_WRONLY): an empty file, not yet readable.
CreateLock(w) ==
    /\ lock = NoFile
    /\ Goto(w, "create", "write")
    /\ lock' = Id(w)
    /\ waits' = [waits EXCEPT ![w] = 0]
    /\ UNCHANGED <<written, claimed, stranded, calls, deadThrough, target, faults>>

\* EEXIST: go and look who has it.
LockExists(w) ==
    /\ lock # NoFile
    /\ Goto(w, "create", "look")
    /\ UNCHANGED <<lock, written, claimed, stranded, calls, deadThrough, target, waits, faults>>

\* inspectLock: an absent lock is retried at once, without a look at the
\* clock; any other status only words the timeout error.
Look(w) ==
    /\ Goto(w, "look", IF lock = NoFile THEN "create" ELSE "wait")
    /\ UNCHANGED <<lock, written, claimed, stranded, calls, deadThrough, target, waits, faults>>

\* Mutant: the deadline is taken anew at every poll.
RetryForever(w) ==
    /\ Goto(w, "wait", "create")
    /\ UNCHANGED <<lock, written, claimed, stranded, calls, deadThrough, target, waits, faults>>

Retry(w) ==
    /\ waits[w] < MaxWaits
    /\ Goto(w, "wait", "create")
    /\ waits' = [waits EXCEPT ![w] = @ + 1]
    /\ UNCHANGED <<lock, written, claimed, stranded, calls, deadThrough, target, faults>>

Timeout(w) ==
    /\ Goto(w, "wait", "idle")
    /\ UNCHANGED <<lock, written, claimed, stranded, calls, deadThrough, target, waits, faults>>

\* writeFile(metadata) and sync() go through the handle, wherever the file is.
WriteMetadata(w) ==
    /\ Goto(w, "write", "sync")
    /\ written' = written \cup {Id(w)}
    /\ UNCHANGED <<lock, claimed, stranded, calls, deadThrough, target, waits, faults>>

\* syncDirectory, then the after_lock trigger, then operation() starts.
SyncDirectory(w) ==
    /\ Goto(w, "sync", "critical")
    /\ UNCHANGED <<lock, written, claimed, stranded, calls, deadThrough, target, waits, faults>>

\* open, inspectLock, writeFile, sync, syncDirectory or the trigger throws
\* something that is not EEXIST: the call fails and nothing removes a lock file
\* it has created.
AcquireFails(w) ==
    /\ Fault
    /\ \E step \in {"create", "look", "write", "sync"} : Goto(w, step, "idle")
    /\ UNCHANGED <<lock, written, claimed, stranded, calls, deadThrough, target, waits>>

\* Mutant: no release.
FinishUnreleased(w) ==
    /\ Goto(w, "critical", "idle")
    /\ UNCHANGED <<lock, written, claimed, stranded, calls, deadThrough, target, waits, faults>>

\* operation() ends; its error, if any, is kept and the lock released anyway.
Finish(w) ==
    /\ Goto(w, "critical", "stat")
    /\ UNCHANGED <<lock, written, claimed, stranded, calls, deadThrough, target, waits, faults>>

-----------------------------------------------------------------------------
(* recoverOrphanedLock                                                     *)

\* inspectLock reads a lock and its ownerId; absent and invalid end the call.
Inspect(r) ==
    /\ Readable(lock)
    /\ Goto(r, "idle", "inspect")
    /\ target' = [target EXCEPT ![r] = lock]
    /\ UNCHANGED <<lock, written, claimed, stranded, calls, deadThrough, waits, faults>>

\* Mutant: an active lock is recovered too.
RecoverActive(r) ==
    /\ Goto(r, "inspect", "stat")
    /\ UNCHANGED <<lock, written, claimed, stranded, calls, deadThrough, target, waits, faults>>

\* processLiveness comes after the read: an active lock is refused, the owner
\* of an orphaned one is the one to remove.
Recover(r) ==
    /\ Goto(r, "inspect", IF Dead(target[r]) THEN "stat" ELSE "idle")
    /\ UNCHANGED <<lock, written, claimed, stranded, calls, deadThrough, target, waits, faults>>

-----------------------------------------------------------------------------
(* removeOwnedLockAtomically, by the owner or by a recoverer               *)

\* The ownerId a removal is for.
Target(a) == IF a \in Writers THEN Id(a) ELSE target[a]

\* inspectLock's lstat.  An absent lock ends the removal with `false`.
Stat(a) ==
    /\ Goto(a, "stat", IF lock = NoFile THEN "idle" ELSE "read")
    /\ UNCHANGED <<lock, written, claimed, stranded, calls, deadThrough, target, waits, faults>>

\* inspectLock's readFile, and the check of the ownerId it read.  A lock that
\* vanished or has no metadata is somebody else's too.
Read(a) ==
    /\ Goto(a, "read", IF Readable(lock) /\ lock = Target(a) THEN "rename" ELSE "idle")
    /\ UNCHANGED <<lock, written, claimed, stranded, calls, deadThrough, target, waits, faults>>

\* rename(lockPath, claimedPath) takes whatever file is at the path by now.
Claim(a) ==
    /\ lock # NoFile
    /\ Goto(a, "rename", "verify")
    /\ claimed' = [claimed EXCEPT ![a] = lock]
    /\ lock' = NoFile
    /\ UNCHANGED <<written, stranded, calls, deadThrough, target, waits, faults>>

\* ENOENT: inspect again.
ClaimMissing(a) ==
    /\ lock = NoFile
    /\ Goto(a, "rename", "stat")
    /\ UNCHANGED <<lock, written, claimed, stranded, calls, deadThrough, target, waits, faults>>

\* EACCES, EBUSY or EPERM is retried until the attempts run out; any other
\* error, of the inspection too, ends the removal with the lock in place.
ClaimFails(a) ==
    /\ Fault
    /\ \/ Goto(a, "rename", "stat")
       \/ \E step \in {"stat", "read", "rename"} : Goto(a, step, "idle")
    /\ UNCHANGED <<lock, written, claimed, stranded, calls, deadThrough, target, waits>>

\* The claimed file is read and its owner compared once more.
Verify(a) ==
    /\ Goto(a, "verify",
            IF Readable(claimed[a]) /\ claimed[a] = Target(a) THEN "delete" ELSE "restore")
    /\ UNCHANGED <<lock, written, claimed, stranded, calls, deadThrough, target, waits, faults>>

\* The after_lock_claim trigger throws: the file goes back unverified.
ClaimInterrupted(a) ==
    /\ Fault
    /\ Goto(a, "verify", "restore")
    /\ UNCHANGED <<lock, written, claimed, stranded, calls, deadThrough, target, waits>>

\* Mutant: the removal runs on into the branch that restores.
DeleteThenRestore(a) ==
    /\ Goto(a, "delete", "restore")
    /\ claimed' = [claimed EXCEPT ![a] = NoFile]
    /\ UNCHANGED <<lock, written, stranded, calls, deadThrough, target, waits, faults>>

\* unlink(claimedPath); a syncDirectory that fails after it changes nothing.
Delete(a) ==
    /\ Goto(a, "delete", "idle")
    /\ claimed' = [claimed EXCEPT ![a] = NoFile]
    /\ UNCHANGED <<lock, written, stranded, calls, deadThrough, target, waits, faults>>

\* unlink fails for good, and the file goes back.
DeleteFails(a) ==
    /\ Fault
    /\ Goto(a, "delete", "restore")
    /\ UNCHANGED <<lock, written, claimed, stranded, calls, deadThrough, target, waits>>

\* link(claimedPath, lockPath): never over another file.
Restore(a) ==
    /\ lock = NoFile
    /\ Goto(a, "restore", "unlink")
    /\ lock' = claimed[a]
    /\ UNCHANGED <<written, claimed, stranded, calls, deadThrough, target, waits, faults>>

\* Mutant: the claimed file is deleted.
RestoreRefusedDeletes(a) ==
    /\ lock # NoFile
    /\ Goto(a, "restore", "idle")
    /\ claimed' = [claimed EXCEPT ![a] = NoFile]
    /\ UNCHANGED <<lock, written, stranded, calls, deadThrough, target, waits, faults>>

\* EEXIST: the claimed file is left where it is.
RestoreRefused(a) ==
    /\ lock # NoFile
    /\ Goto(a, "restore", "idle")
    /\ stranded' = stranded \cup {claimed[a]}
    /\ claimed' = [claimed EXCEPT ![a] = NoFile]
    /\ UNCHANGED <<lock, written, calls, deadThrough, target, waits, faults>>

\* The second name of the restored file goes away.
Unlink(a) ==
    /\ Goto(a, "unlink", "idle")
    /\ claimed' = [claimed EXCEPT ![a] = NoFile]
    /\ UNCHANGED <<lock, written, stranded, calls, deadThrough, target, waits, faults>>

\* link or unlink fails: the claimed name stays, of a restored file too.
RestoreFails(a) ==
    /\ Fault
    /\ \E step \in {"restore", "unlink"} : Goto(a, step, "idle")
    /\ stranded' = stranded \cup {claimed[a]}
    /\ claimed' = [claimed EXCEPT ![a] = NoFile]
    /\ UNCHANGED <<lock, written, calls, deadThrough, target, waits>>

-----------------------------------------------------------------------------

\* The actor's process dies anywhere; a later call runs in a new process.
Crash(a) ==
    /\ pc' = [pc EXCEPT ![a] = "idle"]
    /\ stranded' = stranded \cup ({claimed[a]} \ {NoFile})
    /\ claimed' = [claimed EXCEPT ![a] = NoFile]
    /\ deadThrough' = IF a \in Writers
                      THEN [deadThrough EXCEPT ![a] = calls[a]]
                      ELSE deadThrough
    /\ UNCHANGED <<lock, written, calls, target, waits, faults>>

Acquire(w) ==
    \/ CreateLock(w) \/ LockExists(w) \/ Look(w) \/ Retry(w) \/ Timeout(w)
    \/ WriteMetadata(w) \/ SyncDirectory(w) \/ Finish(w)

Remove(a) ==
    \/ Stat(a) \/ Read(a) \/ Claim(a) \/ ClaimMissing(a) \/ Verify(a)
    \/ Delete(a) \/ Restore(a) \/ RestoreRefused(a) \/ Unlink(a)

RemoveFault(a) ==
    ClaimFails(a) \/ ClaimInterrupted(a) \/ DeleteFails(a) \/ RestoreFails(a)

LockNext ==
    \/ \E w \in Writers : Call(w) \/ Acquire(w) \/ AcquireFails(w)
    \/ \E r \in Recoverers : Inspect(r) \/ Recover(r)
    \/ \E a \in Actors : Remove(a) \/ RemoveFault(a) \/ Crash(a)

LockSpec == LockInit /\ [][LockNext]_vars

\* A live process keeps running: what it has begun it goes on with.
LockFairness ==
    /\ \A w \in Writers : WF_vars(Acquire(w))
    /\ \A r \in Recoverers : WF_vars(Recover(r))
    /\ \A a \in Actors : WF_vars(Remove(a))

FairLockSpec == LockSpec /\ LockFairness

-----------------------------------------------------------------------------
(* Properties                                                              *)

Steps == {"idle", "create", "look", "wait", "write", "sync", "critical",
          "inspect", "stat", "read", "rename", "verify", "delete", "restore", "unlink"}

\* The steps between the rename that claims a file and the end of the removal.
ClaimSteps == {"verify", "delete", "restore", "unlink"}

\* The shape of the state: recoverers only ever run a removal, and there is a
\* file at claimedPath for as long as the removal works on it.
TypeOK ==
    /\ lock \in Files
    /\ written \subseteq Owners
    /\ claimed \in [Actors -> Files]
    /\ stranded \subseteq Owners
    /\ calls \in [Writers -> Nat]
    /\ deadThrough \in [Writers -> Nat]
    /\ pc \in [Actors -> Steps]
    /\ target \in [Recoverers -> Files]
    /\ waits \in [Writers -> Nat]
    /\ faults \in Nat
    /\ \A r \in Recoverers :
        pc[r] \in {"idle", "inspect", "stat", "read", "rename"} \cup ClaimSteps
    /\ \A a \in Actors : pc[a] \in ClaimSteps => claimed[a] # NoFile

\* Two processes are never inside the operation of the same stream: the
\* single-writer promise on which the journal's sequence numbers rest.
MutualExclusion ==
    \A v, w \in Writers : pc[v] = "critical" /\ pc[w] = "critical" => v = w

\* The calls between the creation of their lock and the rename that retires it.
HoldingSteps == {"write", "sync", "critical", "stat", "read", "rename"}

\* From the open(O_EXCL) that creates it until its owner retires it, a lock
\* file stays at lockPath: no removal by another process displaces it, so
\* none can let a second writer in.
HolderKeepsLock ==
    \A w \in Writers : pc[w] \in HoldingSteps => lock = Id(w)

\* As long as no file-system call has failed, a lock file whose owner process
\* is alive belongs to the call that process is in: the stream is not left
\* locked behind a call that has returned, which no recovery would undo.
NoLeakWithoutFault ==
    faults = 0 /\ lock # NoFile =>
        Dead(lock) \/ (lock = Id(lock[1]) /\ pc[lock[1]] # "idle")

\* The operator runs one recovery of a stream at a time.  Nothing in the code
\* ensures it.
OneRecoverer == \A r, s \in Recoverers : r = s

\* Why the lock excludes: the file of a live owner is displaced by that owner
\* alone, and a recoverer about to rename still has before it the file whose
\* owner it has found dead.
LockInv ==
    /\ TypeOK
    /\ HolderKeepsLock
    /\ \A w \in Writers : deadThrough[w] <= calls[w]
    /\ \A w \in Writers : pc[w] # "idle" => ~Dead(Id(w))
    /\ \A r \in Recoverers : target[r] # NoFile \/ pc[r] = "idle"
    /\ \A r \in Recoverers : pc[r] \in {"stat", "read", "rename"} => Dead(target[r])
    /\ \A r \in Recoverers : pc[r] = "rename" => lock = target[r]

OnDisk == ({lock} \cup {claimed[a] : a \in Actors} \cup stranded) \ {NoFile}

\* A lock file leaves the disk only when its owner is dead or has retired it:
\* the lock of a live call that a race has moved aside is restored or
\* preserved, never deleted, however many recoveries run.
DeletesOnlyRetiredLocks ==
    [][\A f \in OnDisk \ OnDisk' :
           Dead(f) \/ f # Id(f[1]) \/ pc[f[1]] \notin HoldingSteps]_vars

\* The lock does what StreamMutex asks of it.
Mutex == INSTANCE StreamMutex
    WITH holders <- {w \in Writers : pc[w] = "critical"}
ImplementsMutex == Mutex!MutexSpec

\* Every call returns: a waiter gets the lock or its timeout, a removal ends,
\* however the others crash, fail or leave a lock behind.
CallsReturn == \A a \in Actors : pc[a] # "idle" ~> pc[a] = "idle"
=============================================================================
