------------------------- MODULE AdaptivePersistence -------------------------
(***************************************************************************)
(* PersistentAdaptiveMemory: hydrate, append and checkpoint of several     *)
(* processes on one stream, over the journal and the snapshot store.  Only *)
(* journal.append runs under the stream lock; hydrate and the snapshot     *)
(* calls take none, and read the journal and the snapshots at different    *)
(* moments.                                                                *)
(*                                                                         *)
(* The journal is what EventJournal shows it to be: a log of which a       *)
(* prefix is flushed, with perhaps a part of a record behind it.  Every    *)
(* event is written by one process and bears its name.                     *)
(***************************************************************************)
EXTENDS SnapshotStore

CONSTANTS
    SnapshotEveryEvents,    \* policy.snapshotEveryEvents
    MaxTroubles             \* bound: processes dying, snapshots damaged and
                            \* machines failing, together

ASSUME PersistenceConstants ==
    /\ SnapshotEveryEvents \in Nat \ {0}
    /\ MaxTroubles \in Nat

VARIABLES
    log,        \* the events an inspection of the journal returns
    partial,    \* a part of a record follows them
    flushed,    \* this many events survive a failure of the machine
    acked,      \* events up to this sequence have been returned by append
    holders,    \* the process inside journal.append
    phase,      \* per process: which call, and which part of it, it is in
    seen,       \* per process: the events of its last journal.read
    state,      \* per process: the state its last hydrate has computed
    crashes, damages, losses    \* how often a process, a file, the machine failed

journalVars == <<log, partial, flushed, acked, holders>>
replayVars  == <<seen, state>>
envVars     == <<crashes, damages, losses>>
vars == <<storeVars, journalVars, replayVars, phase, envVars>>

Mutex == INSTANCE StreamMutex WITH Writers <- Procs

Init ==
    /\ StoreInit /\ Mutex!MutexInit
    /\ log = << >> /\ partial = FALSE /\ flushed = 0 /\ acked = 0
    /\ phase = [p \in Procs |-> "none"]
    /\ seen = [p \in Procs |-> << >>]
    /\ state = [p \in Procs |-> << >>]
    /\ crashes = 0 /\ damages = 0 /\ losses = 0

ForgetReplay(p) ==
    /\ phase' = [phase EXCEPT ![p] = "none"]
    /\ seen' = [seen EXCEPT ![p] = << >>]
    /\ state' = [state EXCEPT ![p] = << >>]

\* The call is over, and what it knew is gone.
Over(p) == Forget(p) /\ ForgetReplay(p)

Fail(p) == Over(p) /\ UNCHANGED <<diskVars, journalVars, envVars>>

-----------------------------------------------------------------------------
(* The calls                                                               *)

Start(p, part) ==
    /\ Goto(p, "idle", "read")
    /\ phase' = [phase EXCEPT ![p] = part]
    /\ UNCHANGED <<diskVars, localVars, journalVars, replayVars, envVars>>

\* append(events): hydrates first.
Submit(p) == Len(log) < MaxSequence /\ Start(p, "before")

\* checkpoint().
Checkpoint(p) == Start(p, "checkpoint")

-----------------------------------------------------------------------------
(* hydrate: replayMemoryStream                                             *)

\* journal.read, which throws on any issue of the journal.
ReadJournal(p) ==
    /\ ~partial
    /\ Goto(p, "read", "list")
    /\ seen' = [seen EXCEPT ![p] = log]
    /\ UNCHANGED <<diskVars, localVars, journalVars, state, phase, envVars>>

ReadFails(p) == pc[p] = "read" /\ partial /\ Fail(p)

\* The snapshot loaded after it must not be ahead of the events read, and must
\* carry the hash of the event it stands at.
Anchored(s, events) ==
    /\ SequenceOf(s) <= Len(events)
    /\ s.hash = SubSeq(events, 1, SequenceOf(s))

\* Mutant: the first of the events after the snapshot is skipped.
ReplayTooLate(p) ==
    /\ phase[p] # "maybe"
    /\ Anchored(latest[p], seen[p])
    /\ Goto(p, "loaded", "hydrated")
    /\ state' = [state EXCEPT ![p] =
           latest[p].state \o SubSeq(seen[p], SequenceOf(latest[p]) + 2, Len(seen[p]))]
    /\ latest' = [latest EXCEPT ![p] = None]
    /\ UNCHANGED <<diskVars, intent, names, journalVars, seen, phase, envVars>>

\* The events after the snapshot are reduced into its state.
Replay(p) ==
    /\ phase[p] # "maybe"
    /\ Anchored(latest[p], seen[p])
    /\ Goto(p, "loaded", "hydrated")
    /\ state' = [state EXCEPT ![p] =
           latest[p].state \o SubSeq(seen[p], SequenceOf(latest[p]) + 1, Len(seen[p]))]
    /\ latest' = [latest EXCEPT ![p] = None]
    /\ UNCHANGED <<diskVars, intent, names, journalVars, seen, phase, envVars>>

\* "is ahead of journal sequence", "does not match the journal hash chain".
ReplayFails(p) ==
    /\ pc[p] = "loaded" /\ phase[p] # "maybe"
    /\ ~Anchored(latest[p], seen[p])
    /\ Fail(p)

-----------------------------------------------------------------------------
(* append, once hydrated                                                   *)

\* A stale expectedSequence, or an event the reducer rejects.
Reject(p) == pc[p] = "hydrated" /\ phase[p] = "before" /\ Fail(p)

\* Neither, and journal.append(events, {expectedSequence: before.sequence})
\* gets the lock.
Lock(p) ==
    /\ phase[p] = "before"
    /\ Goto(p, "hydrated", "inspect")
    /\ Mutex!Enter(p)
    /\ UNCHANGED <<diskVars, localVars, log, partial, flushed, acked, replayVars, phase, envVars>>

\* Mutant: append passes no expectedSequence.
BeginWriteUnexpected(p) ==
    /\ ~partial /\ Len(log) < MaxSequence
    /\ Goto(p, "inspect", "end")
    /\ partial' = TRUE
    /\ UNCHANGED <<diskVars, localVars, log, flushed, acked, holders, replayVars, phase, envVars>>

\* The sequence is still the one hydrated, and the record begins to reach the
\* file: a part of it first, then the whole, then the disk.
BeginWrite(p) ==
    /\ ~partial /\ Len(log) = Len(seen[p]) /\ Len(log) < MaxSequence
    /\ Goto(p, "inspect", "end")
    /\ partial' = TRUE
    /\ UNCHANGED <<diskVars, localVars, log, flushed, acked, holders, replayVars, phase, envVars>>

\* A damaged stream or an optimistic concurrency conflict.
Conflict(p) ==
    /\ pc[p] = "inspect"
    /\ partial \/ Len(log) # Len(seen[p])
    /\ Mutex!Leave(p)
    /\ Over(p)
    /\ UNCHANGED <<diskVars, log, partial, flushed, acked, envVars>>

EndWrite(p) ==
    /\ Goto(p, "end", "sync")
    /\ partial' = FALSE
    /\ log' = Append(log, p)
    /\ UNCHANGED <<diskVars, intent, names, latest, flushed, acked, holders,
                   replayVars, phase, envVars>>

\* Mutant: nothing is flushed.
CommitUnflushed(p) ==
    /\ Goto(p, "sync", "read")
    /\ acked' = Len(log)
    /\ Mutex!Leave(p)
    /\ phase' = [phase EXCEPT ![p] = "after"]
    /\ seen' = [seen EXCEPT ![p] = << >>] /\ state' = [state EXCEPT ![p] = << >>]
    /\ UNCHANGED <<diskVars, localVars, log, partial, flushed, envVars>>

\* The lock is released and append hydrates again.
Commit(p) ==
    /\ Goto(p, "sync", "read")
    /\ flushed' = Len(log)
    /\ acked' = Len(log)
    /\ Mutex!Leave(p)
    /\ phase' = [phase EXCEPT ![p] = "after"]
    /\ seen' = [seen EXCEPT ![p] = << >>] /\ state' = [state EXCEPT ![p] = << >>]
    /\ UNCHANGED <<diskVars, localVars, log, partial, envVars>>

-----------------------------------------------------------------------------
(* maybeCheckpoint and saveSnapshot                                        *)

Maybe(p) ==
    /\ phase[p] = "after"
    /\ Goto(p, "hydrated", "list")
    /\ phase' = [phase EXCEPT ![p] = "maybe"]
    /\ UNCHANGED <<diskVars, localVars, journalVars, replayVars, envVars>>

\* Too few events since the latest snapshot: append returns.
NotYet(p) ==
    /\ pc[p] = "loaded" /\ phase[p] = "maybe"
    /\ Len(seen[p]) < SequenceOf(latest[p]) + SnapshotEveryEvents
    /\ Fail(p)

\* Mutant: the state the latest snapshot had goes into the new one.
SaveLatest(p) ==
    /\ phase[p] = "maybe"
    /\ Goto(p, "loaded", "save")
    /\ Len(seen[p]) >= SequenceOf(latest[p]) + SnapshotEveryEvents
    /\ intent' = [intent EXCEPT ![p] = [hash |-> seen[p], state |-> latest[p].state]]
    /\ latest' = [latest EXCEPT ![p] = None]
    /\ ForgetReplay(p)
    /\ UNCHANGED <<diskVars, names, journalVars, envVars>>

Save(p) ==
    /\ \/ Goto(p, "loaded", "save") /\ phase[p] = "maybe"
            /\ Len(seen[p]) >= SequenceOf(latest[p]) + SnapshotEveryEvents
       \/ Goto(p, "hydrated", "save") /\ phase[p] = "checkpoint"
    /\ intent' = [intent EXCEPT ![p] = [hash |-> seen[p], state |-> state[p]]]
    /\ latest' = [latest EXCEPT ![p] = None]
    /\ ForgetReplay(p)
    /\ UNCHANGED <<diskVars, names, journalVars, envVars>>

-----------------------------------------------------------------------------
(* Recovery and the environment                                            *)

\* recoverTrailingCorruption, under the lock.
RecoverTrailing ==
    /\ partial /\ holders = {}
    /\ partial' = FALSE
    /\ UNCHANGED <<storeVars, log, flushed, acked, holders, replayVars, phase, envVars>>

\* A system call fails and the call with it.
CallFails(p) ==
    \/ /\ StoreFails(p)
       /\ ForgetReplay(p)
       /\ UNCHANGED <<journalVars, envVars>>
    \/ /\ pc[p] \in {"inspect", "end", "sync"}
       /\ Mutex!Leave(p)
       /\ Over(p)
       /\ UNCHANGED <<diskVars, log, partial, flushed, acked, envVars>>

TroubleLeft == crashes + damages + losses < MaxTroubles

\* The process dies.
Crash(p) ==
    /\ TroubleLeft /\ pc[p] # "idle"
    /\ crashes' = crashes + 1
    /\ StoreCrash(p)
    /\ holders' = holders \ {p}
    /\ ForgetReplay(p)
    /\ UNCHANGED <<log, partial, flushed, acked, damages, losses>>

\* The machine fails: every process with it, and what was not flushed.
PowerLoss ==
    /\ TroubleLeft
    /\ losses' = losses + 1
    /\ \E n \in flushed .. Len(log) : log' = SubSeq(log, 1, n)
    /\ partial' \in BOOLEAN
    /\ holders' = {}
    /\ pc' = [p \in Procs |-> "idle"]
    /\ phase' = [p \in Procs |-> "none"]
    /\ intent' = [p \in Procs |-> None]
    /\ names' = [p \in Procs |-> {}]
    /\ latest' = [p \in Procs |-> None]
    /\ seen' = [p \in Procs |-> << >>]
    /\ state' = [p \in Procs |-> << >>]
    /\ life' = [p \in Procs |-> life[p] + 1]
    /\ UNCHANGED <<files, temps, flushed, acked, crashes, damages>>

\* The medium damages a snapshot file.
Damage ==
    /\ TroubleLeft
    /\ damages' = damages + 1
    /\ \E n \in Verified : files' = [files EXCEPT ![n] = Corrupt]
    /\ UNCHANGED <<temps, life, pc, localVars, journalVars, replayVars, phase, crashes, losses>>

\* The steps of the store leave everything else alone, except that a call that
\* is over forgets what it knew.
Store(p) ==
    /\ StoreStep(p)
    /\ IF pc'[p] = "idle"
       THEN ForgetReplay(p)
       ELSE UNCHANGED <<phase, seen, state>>
    /\ UNCHANGED <<journalVars, envVars>>

Operate(p) ==
    \/ Submit(p) \/ Checkpoint(p)
    \/ ReadJournal(p) \/ ReadFails(p) \/ Replay(p) \/ ReplayFails(p)
    \/ Reject(p) \/ Lock(p) \/ Conflict(p) \/ BeginWrite(p) \/ EndWrite(p) \/ Commit(p)
    \/ Maybe(p) \/ NotYet(p) \/ Save(p)

Next ==
    \/ \E p \in Procs : Operate(p) \/ Store(p) \/ CallFails(p) \/ Crash(p)
    \/ RecoverTrailing
    \/ PowerLoss
    \/ Damage
    \/ Cleanup /\ UNCHANGED <<journalVars, replayVars, phase, envVars>>

Spec == Init /\ [][Next]_vars

-----------------------------------------------------------------------------
(* Properties                                                              *)

\* Every snapshot that verifies stands at its place in the journal, carries
\* the hash of the event there and the state the events up to it reduce to.
SnapshotsMatchJournal ==
    \A n \in Verified :
        /\ SequenceOf(files[n]) = n
        /\ Anchored(files[n], log)
        /\ files[n].state = files[n].hash

\* While the machine does not fail, no order of saves, prunes, crashes and
\* appends of several processes publishes a snapshot of anything else.
SnapshotsAnchored == losses = 0 => SnapshotsMatchJournal

\* Whatever snapshot a hydrate started from, the state it returns is that of
\* the events it read; the snapshot saves time and changes nothing.
HydrateIsReplay ==
    \A p \in Procs : pc[p] \in {"hydrated", "inspect", "end", "sync"} =>
        state[p] = seen[p]

\* The event an append commits follows the very state against which the
\* reducer has accepted it, although the check runs before the lock is taken.
CommitsWhatItChecked ==
    \A p \in Procs : pc[p] = "sync" => log = Append(state[p], p)

\* The newest snapshot that verifies survives the pruning of every process:
\* loading never falls back to an older one unless the medium fails.
NewestSnapshotKept ==
    [][damages' = 0 =>
         \A n \in Verified : \E m \in Sequences : m >= n /\ files'[m] \notin {NoFile, Corrupt}]_vars

\* The cleanup of one process leaves the temporary file of a running save of
\* another alone.
RunningSaveKeepsTemp == \A p \in Procs : pc[p] \in {"publish", "tidy"} => Temp(p) \in temps

\* The journal under PersistentAdaptiveMemory is the log EventLog promises.
Log == INSTANCE EventLog WITH Events <- Procs
CommitsAreDurable == Log!LogSpec

\* src/persistence/replay.ts reports a snapshot as ahead of the journal, or
\* off its hash chain: of a stream whose snapshots all match its journal it
\* should not.
HealthyStreamHydrates ==
    \A p \in Procs :
        pc[p] = "loaded" /\ phase[p] # "maybe" /\ SnapshotsMatchJournal
          => Anchored(latest[p], seen[p])
=============================================================================
