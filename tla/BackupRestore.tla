---------------------------- MODULE BackupRestore ----------------------------
(***************************************************************************)
(* createPersistenceBackup and restorePersistenceBackup for one stream.    *)
(* A backup copies the files of a runtime that goes on appending, saving   *)
(* and pruning, without its lock; it is published by renames, over an      *)
(* earlier one if need be.  A restore copies a backup, which another       *)
(* backup may replace meanwhile, to a runtime directory by the same        *)
(* renames.  Restoring over the directory that backups read is not         *)
(* modelled.                                                               *)
(*                                                                         *)
(* The journal of a stream only grows, so that its length stands for its   *)
(* bytes and its last hash, and a snapshot's sequence for the snapshot.    *)
(***************************************************************************)
EXTENDS Naturals, FiniteSets, FiniteSetsExt

CONSTANTS
    Backups, Restores,      \* callers of the two functions
    Missing,                \* no such directory
    MaximumSnapshots,       \* policy.maximumSnapshots of the runtime
    MaxEvents,              \* bound: events of the stream
    MaxCalls,               \* bound: calls of the two functions
    MaxTroubles             \* bound: failing calls, crashes and damaged files

ASSUME BackupConstants ==
    /\ Backups \cap Restores = {}
    /\ MaximumSnapshots \in Nat \ {0}
    /\ MaxEvents \in Nat /\ MaxCalls \in Nat /\ MaxTroubles \in Nat

VARIABLES
    events, torn,           \* the runtime's journal; a record is half written
    snapshots, saving,      \* its snapshot files; the one in its temporary file
    at,                     \* the directory at each place
    left,                   \* per place: moved aside and no longer worked on
    aside,                  \* per caller: the directory it has moved aside
    staged,                 \* per caller: its temporary directory
    existed,                \* per caller: destinationExists, targetExists
    todo,                   \* per caller: snapshots still to copy
    pc, calls,
    faults, crashes, damages    \* how often a call, a process, a file failed

runtimeVars == <<events, torn, snapshots, saving>>
copyVars    == <<staged, todo>>
placeVars   == <<at, left, aside>>
envVars     == <<faults, crashes, damages>>
vars == <<runtimeVars, placeVars, copyVars, existed, pc, calls, envVars>>

Callers == Backups \cup Restores
Places == {"backup", "target"}
Place(c) == IF c \in Backups THEN "backup" ELSE "target"

NoSnapshot == MaxEvents + 1
Sequences == 0 .. MaxEvents

\* A directory with its files, and the manifest they belong to: that of the
\* backup, or of the backup a runtime has been restored from.
Manifest == [journal : Sequences, snapshots : SUBSET Sequences]
Directory == [journal : Sequences, intact : BOOLEAN, snapshots : SUBSET Sequences,
              manifest : Manifest]
Empty == [journal |-> 0, intact |-> TRUE, snapshots |-> {},
          manifest |-> [journal |-> 0, snapshots |-> {}]]

ASSUME DirectoryConstants == Missing \notin Directory

\* verifyPersistenceBackup: the files are those of the manifest, the journal
\* passes its inspection and every snapshot is anchored to it.
Verifies(d) ==
    /\ d # Missing
    /\ d.intact
    /\ d.journal = d.manifest.journal
    /\ d.snapshots = d.manifest.snapshots
    /\ \A n \in d.snapshots : n <= d.journal

\* There may be a runtime at the target already.
Init ==
    /\ events = 0 /\ torn = FALSE
    /\ snapshots = {} /\ saving = NoSnapshot
    /\ \E d \in {Missing, Empty} : at = [p \in Places |-> IF p = "target" THEN d ELSE Missing]
    /\ left = [p \in Places |-> {}]
    /\ aside = [c \in Callers |-> Missing] /\ staged = [c \in Callers |-> Missing]
    /\ existed = [c \in Callers |-> FALSE]
    /\ todo = [c \in Callers |-> {}]
    /\ pc = [c \in Callers |-> "idle"]
    /\ calls = 0 /\ faults = 0 /\ crashes = 0 /\ damages = 0

Goto(c, from, to) == pc[c] = from /\ pc' = [pc EXCEPT ![c] = to]

\* The call is over.  What it has moved aside stays where it is.
Leave(c) ==
    /\ pc' = [pc EXCEPT ![c] = "idle"]
    /\ aside' = [aside EXCEPT ![c] = Missing]
    /\ left' = [left EXCEPT ![Place(c)] = @ \cup ({aside[c]} \ {Missing})]
    /\ staged' = [staged EXCEPT ![c] = Missing]
    /\ todo' = [todo EXCEPT ![c] = {}]
    /\ existed' = [existed EXCEPT ![c] = FALSE]

\* It throws: the outer catch removes the temporary directory and no more.
Fail(c) == Leave(c) /\ UNCHANGED <<runtimeVars, at, calls, envVars>>

-----------------------------------------------------------------------------
(* The runtime, under its own locks                                        *)

BeginAppend ==
    /\ ~torn /\ events < MaxEvents
    /\ torn' = TRUE
    /\ UNCHANGED <<events, snapshots, saving, placeVars, copyVars, existed, pc, calls, envVars>>

EndAppend ==
    /\ torn
    /\ torn' = FALSE
    /\ events' = events + 1
    /\ UNCHANGED <<snapshots, saving, placeVars, copyVars, existed, pc, calls, envVars>>

BeginSave ==
    /\ saving = NoSnapshot /\ events \notin snapshots /\ events > 0
    /\ saving' = events
    /\ UNCHANGED <<events, torn, snapshots, placeVars, copyVars, existed, pc, calls, envVars>>

EndSave ==
    /\ saving # NoSnapshot
    /\ snapshots' = snapshots \cup {saving}
    /\ saving' = NoSnapshot
    /\ UNCHANGED <<events, torn, placeVars, copyVars, existed, pc, calls, envVars>>

Prune ==
    /\ Cardinality(snapshots) > MaximumSnapshots
    /\ snapshots' = snapshots \ {Min(snapshots)}
    /\ UNCHANGED <<events, torn, saving, placeVars, copyVars, existed, pc, calls, envVars>>

Runtime == BeginAppend \/ EndAppend \/ BeginSave \/ EndSave \/ Prune

-----------------------------------------------------------------------------
(* createPersistenceBackup: the copy                                       *)

\* Whether there is a backup to replace is decided here, once.
StartBackup(c) ==
    /\ calls < MaxCalls
    /\ Goto(c, "idle", "inspect")
    /\ calls' = calls + 1
    /\ existed' = [existed EXCEPT ![c] = at["backup"] # Missing]
    /\ staged' = [staged EXCEPT ![c] = Empty]
    /\ UNCHANGED <<runtimeVars, placeVars, todo, envVars>>

\* journal.inspect: the manifest will speak of the events found now.
InspectJournal(c) ==
    /\ ~torn
    /\ Goto(c, "inspect", "look")
    /\ staged' = [staged EXCEPT ![c].manifest.journal = events]
    /\ UNCHANGED <<runtimeVars, placeVars, todo, existed, calls, envVars>>

\* snapshots.inspect reports temporary files of a running save, too.
InspectSnapshots(c) ==
    /\ saving = NoSnapshot
    /\ Goto(c, "look", "record")
    /\ UNCHANGED <<runtimeVars, placeVars, copyVars, existed, calls, envVars>>

\* fileRecord reads the journal, copyRecordedFile reads it once more and has to
\* find the same bytes.
RecordJournal(c) ==
    /\ Goto(c, "record", "copy")
    /\ staged' = [staged EXCEPT ![c].journal = events, ![c].intact = ~torn]
    /\ UNCHANGED <<runtimeVars, placeVars, todo, existed, calls, envVars>>

SameJournal(c) == staged[c].journal = events /\ staged[c].intact = ~torn

CopyJournal(c) ==
    /\ Goto(c, "copy", "list")
    /\ SameJournal(c)
    /\ UNCHANGED <<runtimeVars, placeVars, copyVars, existed, calls, envVars>>

ListSnapshots(c) ==
    /\ Goto(c, "list", "snapshots")
    /\ todo' = [todo EXCEPT ![c] = snapshots]
    /\ UNCHANGED <<runtimeVars, placeVars, staged, existed, calls, envVars>>

\* A snapshot file does not change; it is copied unless it has been pruned, and
\* has to be anchored to the events inspected.
CopySnapshot(c) ==
    LET n == Max(todo[c]) IN
    /\ pc[c] = "snapshots" /\ todo[c] # {}
    /\ n \in snapshots /\ n <= staged[c].manifest.journal
    /\ staged' = [staged EXCEPT ![c].snapshots = @ \cup {n},
                                ![c].manifest.snapshots = @ \cup {n}]
    /\ todo' = [todo EXCEPT ![c] = @ \ {n}]
    /\ UNCHANGED <<runtimeVars, placeVars, existed, pc, calls, envVars>>

\* Mutant: without self-verification.
CheckNothing(c) ==
    /\ pc[c] = "snapshots" /\ todo[c] = {}
    /\ pc' = [pc EXCEPT ![c] = IF existed[c] THEN "move" ELSE "publish"]
    /\ UNCHANGED <<runtimeVars, placeVars, copyVars, existed, calls, envVars>>

\* The manifest is written and the temporary directory verified: in a restore,
\* the staged runtime is.
Check(c) ==
    /\ pc[c] = "snapshots" /\ todo[c] = {}
    /\ Verifies(staged[c])
    /\ pc' = [pc EXCEPT ![c] = IF existed[c] THEN "move" ELSE "publish"]
    /\ UNCHANGED <<runtimeVars, placeVars, copyVars, existed, calls, envVars>>

\* A torn journal, a temporary snapshot, a source that changes under the copy,
\* a snapshot without anchor or a copy that does not verify end the backup.
BackupRefused(c) ==
    /\ \/ pc[c] = "inspect" /\ torn
       \/ pc[c] = "look" /\ saving # NoSnapshot
       \/ pc[c] = "copy" /\ ~SameJournal(c)
       \/ /\ pc[c] = "snapshots" /\ todo[c] # {}
          /\ Max(todo[c]) \notin snapshots \/ Max(todo[c]) > staged[c].manifest.journal
       \/ pc[c] = "snapshots" /\ todo[c] = {} /\ ~Verifies(staged[c])
    /\ Fail(c)

-----------------------------------------------------------------------------
(* restorePersistenceBackup: the copy                                      *)

\* The backup that is there verifies; its manifest is kept.
StartRestore(c) ==
    /\ calls < MaxCalls
    /\ Verifies(at["backup"])
    /\ Goto(c, "idle", "exists")
    /\ calls' = calls + 1
    /\ staged' = [staged EXCEPT ![c] = [Empty EXCEPT !.manifest = at["backup"].manifest]]
    /\ UNCHANGED <<runtimeVars, placeVars, todo, existed, envVars>>

TargetExists(c) ==
    /\ Goto(c, "exists", "restore")
    /\ existed' = [existed EXCEPT ![c] = at["target"] # Missing]
    /\ UNCHANGED <<runtimeVars, placeVars, copyVars, calls, envVars>>

\* copyRecordedFile takes from the backup that is there by now only what the
\* manifest says.
BackupHasJournal(c) ==
    /\ at["backup"] # Missing
    /\ at["backup"].intact
    /\ at["backup"].journal = staged[c].manifest.journal

BackupHasSnapshot(n) == at["backup"] # Missing /\ n \in at["backup"].snapshots

RestoreJournal(c) ==
    /\ Goto(c, "restore", "files")
    /\ BackupHasJournal(c)
    /\ staged' = [staged EXCEPT ![c].journal = at["backup"].journal]
    /\ todo' = [todo EXCEPT ![c] = staged[c].manifest.snapshots]
    /\ UNCHANGED <<runtimeVars, placeVars, existed, calls, envVars>>

RestoreSnapshot(c) ==
    LET n == Min(todo[c]) IN
    /\ pc[c] = "files" /\ todo[c] # {}
    /\ BackupHasSnapshot(n)
    /\ staged' = [staged EXCEPT ![c].snapshots = @ \cup {n}]
    /\ todo' = [todo EXCEPT ![c] = @ \ {n}]
    /\ UNCHANGED <<runtimeVars, placeVars, existed, pc, calls, envVars>>

\* The staged journal is inspected against the manifest, the staged snapshots by
\* themselves.
CheckRestored(c) ==
    /\ pc[c] = "files" /\ todo[c] = {}
    /\ staged[c].intact /\ staged[c].journal = staged[c].manifest.journal
    /\ pc' = [pc EXCEPT ![c] = IF existed[c] THEN "move" ELSE "publish"]
    /\ UNCHANGED <<runtimeVars, placeVars, copyVars, existed, calls, envVars>>

RestoreRefused(c) ==
    /\ \/ pc[c] = "restore" /\ ~BackupHasJournal(c)
       \/ pc[c] = "files" /\ todo[c] # {} /\ ~BackupHasSnapshot(Min(todo[c]))
    /\ Fail(c)

-----------------------------------------------------------------------------
(* The renames, the same in both                                           *)

\* Mutant: the destination is removed to make room.
RemoveFirst(c) ==
    /\ at[Place(c)] # Missing
    /\ Goto(c, "move", "moved")
    /\ at' = [at EXCEPT ![Place(c)] = Missing]
    /\ UNCHANGED <<runtimeVars, left, aside, copyVars, existed, calls, envVars>>

\* rename(destinationDirectory, previousDirectory)
MoveAside(c) ==
    /\ at[Place(c)] # Missing
    /\ Goto(c, "move", "moved")
    /\ aside' = [aside EXCEPT ![c] = at[Place(c)]]
    /\ at' = [at EXCEPT ![Place(c)] = Missing]
    /\ UNCHANGED <<runtimeVars, left, copyVars, existed, calls, envVars>>

\* ENOENT: somebody else has moved it.
MoveMissing(c) ==
    /\ pc[c] = "move" /\ at[Place(c)] = Missing
    /\ Fail(c)

\* syncDirectory(destinationParent)
SyncMoved(c) ==
    /\ Goto(c, "moved", "publish")
    /\ UNCHANGED <<runtimeVars, placeVars, copyVars, existed, calls, envVars>>

\* rename(temporaryDirectory, destinationDirectory)
Publish(c) ==
    /\ at[Place(c)] = Missing
    /\ Goto(c, "publish", "published")
    /\ at' = [at EXCEPT ![Place(c)] = staged[c]]
    /\ staged' = [staged EXCEPT ![c] = Missing]
    /\ UNCHANGED <<runtimeVars, left, aside, todo, existed, calls, envVars>>

\* ENOTEMPTY: somebody else's directory is there.
PublishRefused(c) ==
    /\ at[Place(c)] # Missing
    /\ IF aside[c] = Missing
       THEN pc[c] = "publish" /\ Fail(c)
       ELSE /\ Goto(c, "publish", "rollback")
            /\ UNCHANGED <<runtimeVars, placeVars, copyVars, existed, calls, envVars>>

\* rename(previousDirectory, destinationDirectory), and the error is thrown on.
Rollback(c) ==
    /\ at[Place(c)] = Missing
    /\ Goto(c, "rollback", "idle")
    /\ at' = [at EXCEPT ![Place(c)] = aside[c]]
    /\ aside' = [aside EXCEPT ![c] = Missing]
    /\ staged' = [staged EXCEPT ![c] = Missing]
    /\ existed' = [existed EXCEPT ![c] = FALSE]
    /\ UNCHANGED <<runtimeVars, left, todo, calls, envVars>>

RollbackRefused(c) ==
    /\ pc[c] = "rollback" /\ at[Place(c)] # Missing
    /\ Fail(c)

\* Mutant: the previous runtime is removed like a previous backup.
DoneRemoving(c) ==
    /\ pc[c] = "published"
    /\ pc' = [pc EXCEPT ![c] = "idle"]
    /\ aside' = [aside EXCEPT ![c] = Missing]
    /\ existed' = [existed EXCEPT ![c] = FALSE]
    /\ UNCHANGED <<runtimeVars, at, left, copyVars, calls, envVars>>

\* A previous backup is removed; a previous runtime is returned to the caller.
Done(c) ==
    /\ pc[c] = "published"
    /\ pc' = [pc EXCEPT ![c] = "idle"]
    /\ aside' = [aside EXCEPT ![c] = Missing]
    /\ left' = IF c \in Backups \/ aside[c] = Missing THEN left
               ELSE [left EXCEPT !["target"] = @ \cup {aside[c]}]
    /\ existed' = [existed EXCEPT ![c] = FALSE]
    /\ UNCHANGED <<runtimeVars, at, copyVars, calls, envVars>>

-----------------------------------------------------------------------------

TroubleLeft == faults + crashes + damages < MaxTroubles
Fault == TroubleLeft /\ faults' = faults + 1

\* A system call or a trigger throws.  Between the two renames nothing is
\* rolled back: only the second rename stands inside the try block.
CallFails(c) ==
    /\ pc[c] \notin {"idle", "publish"}
    /\ Fault
    /\ Leave(c)
    /\ UNCHANGED <<runtimeVars, at, calls, crashes, damages>>

PublishFails(c) ==
    /\ Fault
    /\ IF aside[c] = Missing
       THEN pc[c] = "publish" /\ Leave(c)
       ELSE Goto(c, "publish", "rollback") /\ UNCHANGED <<left, aside, copyVars, existed>>
    /\ UNCHANGED <<runtimeVars, at, calls, crashes, damages>>

\* The process dies.  Its temporary directory is left behind, under a name
\* nobody looks at.
Crash(c) ==
    /\ TroubleLeft /\ pc[c] # "idle"
    /\ crashes' = crashes + 1
    /\ Leave(c)
    /\ UNCHANGED <<runtimeVars, at, calls, faults, damages>>

\* The medium damages the published backup.
Damage ==
    /\ TroubleLeft /\ at["backup"] # Missing
    /\ damages' = damages + 1
    /\ \/ at' = [at EXCEPT !["backup"].intact = FALSE]
       \/ \E n \in at["backup"].snapshots : at' = [at EXCEPT !["backup"].snapshots = @ \ {n}]
    /\ UNCHANGED <<runtimeVars, left, aside, copyVars, existed, pc, calls, faults, crashes>>

Backup(c) ==
    \/ StartBackup(c) \/ InspectJournal(c) \/ InspectSnapshots(c)
    \/ RecordJournal(c) \/ CopyJournal(c) \/ ListSnapshots(c) \/ CopySnapshot(c)
    \/ Check(c) \/ BackupRefused(c)

Restore(c) ==
    \/ StartRestore(c) \/ TargetExists(c) \/ RestoreJournal(c) \/ RestoreSnapshot(c)
    \/ CheckRestored(c) \/ RestoreRefused(c)

Replace(c) ==
    \/ MoveAside(c) \/ MoveMissing(c) \/ SyncMoved(c) \/ Publish(c) \/ PublishRefused(c)
    \/ Rollback(c) \/ RollbackRefused(c) \/ Done(c)

Next ==
    \/ Runtime
    \/ \E c \in Backups : Backup(c)
    \/ \E c \in Restores : Restore(c)
    \/ \E c \in Callers : Replace(c) \/ CallFails(c) \/ PublishFails(c) \/ Crash(c)
    \/ Damage

Spec == Init /\ [][Next]_vars

-----------------------------------------------------------------------------
(* Properties                                                              *)

\* Whatever the runtime does while it is copied, whatever happens to the backup
\* while it is restored, and whoever replaces what meanwhile: what appears at
\* the destination or at the target verifies, or was there before.
PublishesOnlyVerified ==
    [][\A p \in Places :
           damages' = damages /\ at'[p] \notin {at[p], Missing}
             => Verifies(at'[p]) \/ \E c \in Callers : aside[c] = at'[p]]_vars

\* Everything that is or was at a place and has not been removed.
Kept(p) == ({at[p]} \cup {aside[c] : c \in {d \in Callers : Place(d) = p}} \cup left[p]) \ {Missing}

\* Failures, crashes and other backups between the renames never take the last
\* backup: one published remains at the destination or beside it.
BackupSurvives == [][Kept("backup") # {} => Kept("backup")' # {}]_vars

\* A restore deletes no runtime, its own predecessor least of all.
RestoresDeleteNothing == [][Kept("target") \subseteq Kept("target")']_vars
=============================================================================
