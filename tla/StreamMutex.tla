---------------------------- MODULE StreamMutex ----------------------------
(***************************************************************************)
(* What the per-stream lock of FileEventJournal promises its callers: at   *)
(* most one of them runs a stream operation at a time.  Who runs one is    *)
(* all there is to see; files, retries and recovery are details of         *)
(* StreamLock, which implements this module.                               *)
(***************************************************************************)
CONSTANT Writers        \* the processes that call withStreamLock

VARIABLE holders        \* the writers inside `await operation()`

MutexInit == holders = {}

\* withStreamLock reaches `result = await operation()`.
Enter(w) ==
    /\ holders = {}
    /\ holders' = {w}

\* The operation ends, with a result or an error, or its process dies.
Leave(w) ==
    /\ w \in holders
    /\ holders' = holders \ {w}

MutexNext == \E w \in Writers : Enter(w) \/ Leave(w)

MutexSpec == MutexInit /\ [][MutexNext]_holders
=============================================================================
