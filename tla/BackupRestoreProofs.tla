------------------------- MODULE BackupRestoreProofs -------------------------
(***************************************************************************)
(* Proofs about BackupRestore for any callers, any number of events,       *)
(* snapshots and calls, and any number of failures between any two steps.  *)
(***************************************************************************)
EXTENDS BackupRestore, WellFoundedInduction, TLAPS

-----------------------------------------------------------------------------
(* The shape of the state                                                  *)

\* The parts of a call: those that copy, and those that rename.
Copying == {"inspect", "look", "record", "copy", "list", "snapshots", "exists", "restore", "files"}
Renaming == {"move", "moved", "publish", "rollback"}
Parts == {"idle", "published"} \cup Copying \cup Renaming

RuntimeShape ==
    /\ events \in Sequences /\ torn \in BOOLEAN /\ (torn => events < MaxEvents)
    /\ snapshots \in SUBSET Sequences
    /\ saving \in Sequences \cup {NoSnapshot}

PlaceShape ==
    /\ at \in [Places -> Directory \cup {Missing}]
    /\ left \in [Places -> SUBSET Directory]
    /\ aside \in [Callers -> Directory \cup {Missing}]

\* A call that copies or renames has its temporary directory.
CallShape ==
    /\ staged \in [Callers -> Directory \cup {Missing}]
    /\ existed \in [Callers -> BOOLEAN]
    /\ todo \in [Callers -> SUBSET Sequences]
    /\ pc \in [Callers -> Parts]
    /\ \A c \in Callers : pc[c] \in Copying \cup Renaming => staged[c] # Missing

CountShape == calls \in Nat /\ faults \in Nat /\ crashes \in Nat /\ damages \in Nat

TypeOK == RuntimeShape /\ PlaceShape /\ CallShape /\ CountShape

LEMMA PlaceOfCaller ==
    ASSUME NEW c \in Callers
    PROVE  Place(c) \in Places /\ (Place(c) = "backup" <=> c \in Backups)
<1>1. CASE c \in Backups BY <1>1 DEF Place, Places
<1>2. CASE c \notin Backups BY <1>2 DEF Place, Places
<1> QED BY <1>1, <1>2

LEMMA EmptyIsDirectory == Empty \in Directory
BY BackupConstants DEF Empty, Directory, Manifest, Sequences

\* Changing a part of a directory leaves it one.
LEMMA DirectoryEdits ==
    ASSUME NEW d \in Directory, NEW n \in Sequences, NEW intact \in BOOLEAN
    PROVE  /\ [d EXCEPT !.manifest.journal = n] \in Directory
           /\ [d EXCEPT !.journal = n] \in Directory
           /\ [d EXCEPT !.journal = n, !.intact = intact] \in Directory
           /\ [d EXCEPT !.intact = intact] \in Directory
           /\ [d EXCEPT !.snapshots = @ \cup {n}] \in Directory
           /\ [d EXCEPT !.snapshots = @ \ {n}] \in Directory
           /\ [d EXCEPT !.snapshots = @ \cup {n}, !.manifest.snapshots = @ \cup {n}] \in Directory
<1> USE DEF Directory, Manifest
<1>1. [d EXCEPT !.manifest.journal = n] \in Directory
  OBVIOUS
<1>2. [d EXCEPT !.journal = n] \in Directory /\ [d EXCEPT !.intact = intact] \in Directory
  OBVIOUS
<1>3. [d EXCEPT !.journal = n, !.intact = intact] \in Directory
  OBVIOUS
<1>4. [d EXCEPT !.snapshots = @ \cup {n}] \in Directory /\ [d EXCEPT !.snapshots = @ \ {n}] \in Directory
  OBVIOUS
<1>5. [d EXCEPT !.snapshots = @ \cup {n}, !.manifest.snapshots = @ \cup {n}] \in Directory
  OBVIOUS
<1> HIDE DEF Directory, Manifest
<1> QED BY <1>1, <1>2, <1>3, <1>4, <1>5

\* The least of some sequences is one of them.
LEMMA OldestIn ==
    ASSUME NEW S \in SUBSET Sequences, S # {}
    PROVE  Min(S) \in S
<1> DEFINE less == {q \in Nat \X Nat : q[1] < q[2]}
<1>1. IsWellFoundedOn(less, Nat)
  BY NatLessThanWellFounded DEF OpToRel
<1>2. S \subseteq Nat
  BY BackupConstants DEF Sequences
<1>3. \A i \in Nat, m \in Nat : i < m => <<i, m>> \in less
  OBVIOUS
<1> HIDE DEF less
<1>4. PICK m \in S : \A i \in S : ~(<<i, m>> \in less)
  BY <1>1, <1>2, WFMin
<1>5. ASSUME NEW i \in S PROVE m <= i
  <2>1. i \in Nat /\ m \in Nat /\ ~(i < m)
    BY <1>2, <1>3, <1>4
  <2> QED BY <2>1
<1> QED BY <1>5 DEF Min

\* So is the newest.
LEMMA NewestIn ==
    ASSUME NEW S \in SUBSET Sequences, S # {}
    PROVE  Max(S) \in S
<1> DEFINE less == {q \in Nat \X Nat : q[1] < q[2]}
           below == {MaxEvents - n : n \in S}
<1>1. IsWellFoundedOn(less, Nat)
  BY NatLessThanWellFounded DEF OpToRel
<1>2. below \subseteq Nat /\ below # {}
  <2>1. \A n \in S : n \in Nat /\ MaxEvents - n \in Nat
    BY BackupConstants DEF Sequences
  <2> QED BY <2>1
<1>3. \A i \in Nat, m \in Nat : i < m => <<i, m>> \in less
  OBVIOUS
<1>4. PICK m \in below : \A i \in below : ~(i < m)
  <2> HIDE DEF less, below
  <2>1. PICK m \in below : \A i \in below : ~(<<i, m>> \in less)
    BY <1>1, <1>2, WFMin
  <2> QED BY <1>2, <1>3, <2>1
<1>5. PICK x \in S : m = MaxEvents - x
  BY <1>4
<1>6. \A y \in S : x >= y
  BY <1>4, <1>5, BackupConstants DEF Sequences
<1> QED BY <1>6 DEF Max

\* The runtime.
LEMMA RuntimeStep ==
    ASSUME TypeOK, Runtime
    PROVE  TypeOK'
<1>1. /\ events \in Nat /\ events <= MaxEvents /\ MaxEvents \in Nat
      /\ torn \in BOOLEAN /\ (torn => events < MaxEvents)
  BY BackupConstants DEF TypeOK, RuntimeShape, Sequences
<1>2. RuntimeShape'
  <2>1. CASE BeginAppend
    <3>1. torn' \in BOOLEAN /\ events < MaxEvents
      BY <2>1 DEF BeginAppend
    <3> QED BY <2>1, <3>1 DEF BeginAppend, TypeOK, RuntimeShape
  <2>2. CASE EndAppend
    <3>1. torn /\ torn' = FALSE /\ events' = events + 1
      BY <2>2 DEF EndAppend
    <3>2. events < MaxEvents
      BY <1>1, <3>1
    <3>3. events' \in Sequences
      BY <1>1, <3>1, <3>2 DEF Sequences
    <3>4. torn' \in BOOLEAN /\ ~torn'
      BY <3>1
    <3> QED BY <2>2, <3>3, <3>4 DEF EndAppend, TypeOK, RuntimeShape
  <2>3. CASE BeginSave
    BY <2>3 DEF BeginSave, TypeOK, RuntimeShape
  <2>4. CASE EndSave
    BY <2>4 DEF EndSave, TypeOK, RuntimeShape
  <2>5. CASE Prune
    BY <2>5 DEF Prune, TypeOK, RuntimeShape
  <2> QED BY <2>1, <2>2, <2>3, <2>4, <2>5 DEF Runtime
<1>3. UNCHANGED <<placeVars, copyVars, existed, pc, calls, envVars>>
  BY DEF Runtime, BeginAppend, EndAppend, BeginSave, EndSave, Prune
<1> QED BY <1>2, <1>3 DEF TypeOK, PlaceShape, CallShape, CountShape, placeVars, copyVars, envVars

\* The end of a call, whichever way.
LEMMA LeaveShape ==
    ASSUME TypeOK, NEW c \in Callers, Leave(c), at' = at
    PROVE  PlaceShape' /\ CallShape'
<1>1. Place(c) \in Places
  BY PlaceOfCaller
<1>2. PlaceShape'
  BY <1>1 DEF Leave, TypeOK, PlaceShape
<1>3. CallShape'
  BY DEF Leave, TypeOK, CallShape, Parts, Copying, Renaming
<1> QED BY <1>2, <1>3

LEMMA FailShape ==
    ASSUME TypeOK, NEW c \in Callers, Fail(c)
    PROVE  TypeOK'
BY LeaveShape DEF Fail, TypeOK, RuntimeShape, CountShape, runtimeVars, envVars

\* A call goes on to another part, with another temporary directory or the same.
LEMMA GoOn ==
    ASSUME TypeOK, NEW c \in Callers, NEW part \in Parts, NEW d \in Directory \cup {Missing},
           part \in Copying \cup Renaming => d # Missing,
           pc' = [pc EXCEPT ![c] = part], staged' = [staged EXCEPT ![c] = d],
           existed' \in [Callers -> BOOLEAN], todo' \in [Callers -> SUBSET Sequences]
    PROVE  CallShape'
BY DEF TypeOK, CallShape

LEMMA MoveOn ==
    ASSUME TypeOK, NEW c \in Callers, NEW part \in Parts, pc[c] \in Copying \cup Renaming,
           pc' = [pc EXCEPT ![c] = part], staged' = staged,
           existed' \in [Callers -> BOOLEAN], todo' \in [Callers -> SUBSET Sequences]
    PROVE  CallShape'
BY DEF TypeOK, CallShape

LEMMA StagedDirectory ==
    ASSUME TypeOK, NEW c \in Callers, pc[c] \in Copying \cup Renaming
    PROVE  staged[c] \in Directory
BY DEF TypeOK, CallShape

\* The copy of a backup.
LEMMA BackupShape ==
    ASSUME TypeOK, NEW c \in Backups, Backup(c)
    PROVE  TypeOK'
<1> USE DEF Goto, Parts, Copying, Renaming
<1>1. c \in Callers
  BY DEF Callers
<1>2. /\ at \in [Places -> Directory \cup {Missing}]
      /\ staged \in [Callers -> Directory \cup {Missing}] /\ pc \in [Callers -> Parts]
      /\ existed \in [Callers -> BOOLEAN] /\ todo \in [Callers -> SUBSET Sequences]
      /\ events \in Sequences /\ snapshots \subseteq Sequences
  BY DEF TypeOK, RuntimeShape, PlaceShape, CallShape
<1>3. ASSUME UNCHANGED <<runtimeVars, placeVars, envVars>>, calls' \in {calls, calls + 1}, CallShape'
      PROVE  TypeOK'
  BY <1>3 DEF TypeOK, RuntimeShape, PlaceShape, CountShape, runtimeVars, placeVars, envVars
<1>4. CASE StartBackup(c)
  <2>1. existed' \in [Callers -> BOOLEAN] /\ todo' \in [Callers -> SUBSET Sequences]
    BY <1>2, <1>4 DEF StartBackup
  <2>2. CallShape'
    BY <1>1, <1>4, <2>1, GoOn, EmptyIsDirectory, DirectoryConstants DEF StartBackup
  <2> QED BY <1>3, <1>4, <2>2 DEF StartBackup
<1>5. CASE InspectJournal(c)
  <2> DEFINE d == [staged[c] EXCEPT !.manifest.journal = events]
  <2>1. d \in Directory
    BY <1>1, <1>2, <1>5, StagedDirectory, DirectoryEdits DEF InspectJournal
  <2>2. /\ pc' = [pc EXCEPT ![c] = "look"] /\ staged' = [staged EXCEPT ![c] = d]
        /\ existed' = existed /\ todo' = todo
    BY <1>5 DEF InspectJournal
  <2> HIDE DEF d
  <2>3. CallShape'
    BY <1>1, <1>2, <2>1, <2>2, GoOn, DirectoryConstants
  <2> QED BY <1>3, <1>5, <2>3 DEF InspectJournal
<1>6. CASE InspectSnapshots(c) \/ CopyJournal(c) \/ Check(c)
  <2>1. PICK part \in Parts :
            /\ pc' = [pc EXCEPT ![c] = part] /\ UNCHANGED <<staged, existed, todo>>
            /\ pc[c] \in Copying
    BY <1>6 DEF InspectSnapshots, CopyJournal, Check, copyVars
  <2>2. CallShape'
    BY <1>1, <1>2, <2>1, MoveOn
  <2> QED BY <1>3, <1>6, <2>2 DEF InspectSnapshots, CopyJournal, Check
<1>7. CASE RecordJournal(c)
  <2> DEFINE d == [staged[c] EXCEPT !.journal = events, !.intact = ~torn]
  <2>1. d \in Directory
    BY <1>1, <1>2, <1>7, StagedDirectory, DirectoryEdits DEF RecordJournal
  <2>2. /\ pc' = [pc EXCEPT ![c] = "copy"] /\ staged' = [staged EXCEPT ![c] = d]
        /\ existed' = existed /\ todo' = todo
    BY <1>7 DEF RecordJournal
  <2> HIDE DEF d
  <2>3. CallShape'
    BY <1>1, <1>2, <2>1, <2>2, GoOn, DirectoryConstants
  <2> QED BY <1>3, <1>7, <2>3 DEF RecordJournal
<1>8. CASE ListSnapshots(c)
  <2>1. todo' \in [Callers -> SUBSET Sequences]
    BY <1>2, <1>8 DEF ListSnapshots
  <2>2. pc' = [pc EXCEPT ![c] = "snapshots"] /\ UNCHANGED <<staged, existed>> /\ pc[c] \in Copying
    BY <1>8 DEF ListSnapshots
  <2>3. CallShape'
    BY <1>1, <1>2, <2>1, <2>2, MoveOn
  <2> QED BY <1>3, <1>8, <2>3 DEF ListSnapshots
<1>9. CASE CopySnapshot(c)
  <2> DEFINE n == Max(todo[c])
             d == [staged[c] EXCEPT !.snapshots = @ \cup {n}, !.manifest.snapshots = @ \cup {n}]
  <2>1. n \in Sequences /\ pc[c] = "snapshots"
    BY <1>2, <1>9 DEF CopySnapshot
  <2>2. d \in Directory
    BY <1>1, <2>1, StagedDirectory, DirectoryEdits
  <2>3. /\ staged' = [staged EXCEPT ![c] = d] /\ existed' = existed
        /\ todo' = [todo EXCEPT ![c] = @ \ {n}] /\ pc' = pc
    BY <1>9 DEF CopySnapshot
  <2>4. pc' = [pc EXCEPT ![c] = "snapshots"]
    BY <1>2, <2>1, <2>3
  <2> HIDE DEF d
  <2>5. CallShape'
    BY <1>1, <1>2, <2>2, <2>3, <2>4, GoOn, DirectoryConstants
  <2> QED BY <1>3, <1>9, <2>5 DEF CopySnapshot
<1>10. CASE Fail(c)
  BY <1>1, <1>10, FailShape
<1> QED BY <1>4, <1>5, <1>6, <1>7, <1>8, <1>9, <1>10 DEF Backup, BackupRefused

\* The copy of a restore.
LEMMA RestoreShape ==
    ASSUME TypeOK, NEW c \in Restores, Restore(c)
    PROVE  TypeOK'
<1> USE DEF Goto, Parts, Copying, Renaming
<1>1. c \in Callers
  BY DEF Callers
<1>2. /\ at \in [Places -> Directory \cup {Missing}] /\ "backup" \in Places
      /\ staged \in [Callers -> Directory \cup {Missing}] /\ pc \in [Callers -> Parts]
      /\ existed \in [Callers -> BOOLEAN] /\ todo \in [Callers -> SUBSET Sequences]
  BY DEF TypeOK, PlaceShape, CallShape, Places
<1>3. ASSUME UNCHANGED <<runtimeVars, placeVars, envVars>>, calls' \in {calls, calls + 1}, CallShape'
      PROVE  TypeOK'
  BY <1>3 DEF TypeOK, RuntimeShape, PlaceShape, CountShape, runtimeVars, placeVars, envVars
<1>4. CASE StartRestore(c)
  <2> DEFINE d == [Empty EXCEPT !.manifest = at["backup"].manifest]
  <2>1. at["backup"] \in Directory
    BY <1>2, <1>4 DEF StartRestore, Verifies
  <2>2. d \in Directory
    BY <2>1, EmptyIsDirectory DEF Directory
  <2>3. /\ pc' = [pc EXCEPT ![c] = "exists"] /\ staged' = [staged EXCEPT ![c] = d]
        /\ existed' = existed /\ todo' = todo
    BY <1>4 DEF StartRestore
  <2> HIDE DEF d
  <2>4. CallShape'
    BY <1>1, <1>2, <2>2, <2>3, GoOn, DirectoryConstants
  <2> QED BY <1>3, <1>4, <2>4 DEF StartRestore
<1>5. CASE TargetExists(c)
  <2>1. existed' \in [Callers -> BOOLEAN]
    BY <1>2, <1>5 DEF TargetExists
  <2>2. pc' = [pc EXCEPT ![c] = "restore"] /\ UNCHANGED <<staged, todo>> /\ pc[c] \in Copying
    BY <1>5 DEF TargetExists, copyVars
  <2>3. CallShape'
    BY <1>1, <1>2, <2>1, <2>2, MoveOn
  <2> QED BY <1>3, <1>5, <2>3 DEF TargetExists
<1>6. CASE RestoreJournal(c)
  <2> DEFINE d == [staged[c] EXCEPT !.journal = at["backup"].journal]
  <2>1. at["backup"] \in Directory /\ staged[c] \in Directory
    BY <1>1, <1>2, <1>6, StagedDirectory DEF RestoreJournal, BackupHasJournal
  <2>2. d \in Directory /\ staged[c].manifest.snapshots \subseteq Sequences
    BY <2>1 DEF Directory, Manifest
  <2>3. /\ pc' = [pc EXCEPT ![c] = "files"] /\ staged' = [staged EXCEPT ![c] = d]
        /\ existed' = existed /\ todo' = [todo EXCEPT ![c] = staged[c].manifest.snapshots]
    BY <1>6 DEF RestoreJournal
  <2> HIDE DEF d
  <2>4. CallShape'
    BY <1>1, <1>2, <2>2, <2>3, GoOn, DirectoryConstants
  <2> QED BY <1>3, <1>6, <2>4 DEF RestoreJournal
<1>7. CASE RestoreSnapshot(c)
  <2> DEFINE n == Min(todo[c])
             d == [staged[c] EXCEPT !.snapshots = @ \cup {n}]
  <2>1. n \in Sequences /\ pc[c] = "files"
    BY <1>1, <1>2, <1>7, OldestIn DEF RestoreSnapshot
  <2>2. d \in Directory
    BY <1>1, <2>1, StagedDirectory, DirectoryEdits
  <2>3. /\ staged' = [staged EXCEPT ![c] = d] /\ existed' = existed
        /\ todo' = [todo EXCEPT ![c] = @ \ {n}] /\ pc' = pc
    BY <1>7 DEF RestoreSnapshot
  <2>4. pc' = [pc EXCEPT ![c] = "files"]
    BY <1>2, <2>1, <2>3
  <2> HIDE DEF d
  <2>5. CallShape'
    BY <1>1, <1>2, <2>2, <2>3, <2>4, GoOn, DirectoryConstants
  <2> QED BY <1>3, <1>7, <2>5 DEF RestoreSnapshot
<1>8. CASE CheckRestored(c)
  <2>1. PICK part \in Parts :
            /\ pc' = [pc EXCEPT ![c] = part] /\ UNCHANGED <<staged, existed, todo>>
            /\ pc[c] \in Copying
    BY <1>8 DEF CheckRestored, copyVars
  <2>2. CallShape'
    BY <1>1, <1>2, <2>1, MoveOn
  <2> QED BY <1>3, <1>8, <2>2 DEF CheckRestored
<1>9. CASE Fail(c)
  BY <1>1, <1>9, FailShape
<1> QED BY <1>4, <1>5, <1>6, <1>7, <1>8, <1>9 DEF Restore, RestoreRefused

\* The renames.
LEMMA ReplaceShape ==
    ASSUME TypeOK, NEW c \in Callers, Replace(c)
    PROVE  TypeOK'
<1> USE DEF Goto, Parts, Copying, Renaming
<1>1. Place(c) \in Places
  BY PlaceOfCaller
<1>2. /\ at \in [Places -> Directory \cup {Missing}] /\ left \in [Places -> SUBSET Directory]
      /\ aside \in [Callers -> Directory \cup {Missing}]
      /\ staged \in [Callers -> Directory \cup {Missing}] /\ pc \in [Callers -> Parts]
      /\ existed \in [Callers -> BOOLEAN] /\ todo \in [Callers -> SUBSET Sequences]
  BY DEF TypeOK, PlaceShape, CallShape
<1>3. ASSUME UNCHANGED <<runtimeVars, envVars, calls>>, PlaceShape', CallShape'
      PROVE  TypeOK'
  BY <1>3 DEF TypeOK, RuntimeShape, CountShape, runtimeVars, envVars
<1>4. CASE MoveAside(c)
  <2>1. PlaceShape'
    BY <1>1, <1>2, <1>4 DEF MoveAside, PlaceShape
  <2>2. CallShape'
    BY <1>2, <1>4, MoveOn DEF MoveAside, copyVars
  <2> QED BY <1>3, <1>4, <2>1, <2>2 DEF MoveAside
<1>5. CASE SyncMoved(c)
  <2>1. PlaceShape'
    BY <1>5 DEF SyncMoved, TypeOK, PlaceShape, placeVars
  <2>2. CallShape'
    BY <1>2, <1>5, MoveOn DEF SyncMoved, copyVars
  <2> QED BY <1>3, <1>5, <2>1, <2>2 DEF SyncMoved
<1>6. CASE Publish(c)
  <2>1. PlaceShape'
    BY <1>1, <1>2, <1>6 DEF Publish, PlaceShape
  <2>2. CallShape'
    BY <1>2, <1>6, GoOn DEF Publish
  <2> QED BY <1>3, <1>6, <2>1, <2>2 DEF Publish
<1>7. CASE Fail(c)
  BY <1>7, FailShape
<1>8. CASE PublishRefused(c) /\ ~Fail(c)
  <2>1. PlaceShape'
    BY <1>8 DEF PublishRefused, TypeOK, PlaceShape, placeVars
  <2>2. CallShape'
    BY <1>2, <1>8, MoveOn DEF PublishRefused, copyVars
  <2> QED BY <1>3, <1>8, <2>1, <2>2 DEF PublishRefused
<1>9. CASE Rollback(c)
  <2>1. PlaceShape'
    BY <1>1, <1>2, <1>9 DEF Rollback, PlaceShape
  <2>2. existed' \in [Callers -> BOOLEAN]
    BY <1>2, <1>9 DEF Rollback
  <2>3. CallShape'
    BY <1>2, <1>9, <2>2, GoOn DEF Rollback
  <2> QED BY <1>3, <1>9, <2>1, <2>3 DEF Rollback
<1>10. CASE Done(c)
  <2>1. left' \in [Places -> SUBSET Directory]
    BY <1>2, <1>10 DEF Done, Places
  <2>2. PlaceShape'
    BY <1>2, <1>10, <2>1 DEF Done, PlaceShape
  <2>3. existed' \in [Callers -> BOOLEAN] /\ staged' = [staged EXCEPT ![c] = staged[c]]
    BY <1>2, <1>10 DEF Done, copyVars
  <2>4. pc' = [pc EXCEPT ![c] = "idle"] /\ todo' = todo
    BY <1>10 DEF Done, copyVars
  <2>5. CallShape'
    BY <1>2, <2>3, <2>4, GoOn
  <2> QED BY <1>3, <1>10, <2>2, <2>5 DEF Done
<1> QED BY <1>4, <1>5, <1>6, <1>7, <1>8, <1>9, <1>10
        DEF Replace, MoveMissing, PublishRefused, RollbackRefused

\* A damaged backup is still a directory.
LEMMA DamageShape ==
    ASSUME TypeOK, Damage
    PROVE  \E d \in Directory : at' = [at EXCEPT !["backup"] = d]
<1>1. at["backup"] \in Directory
  BY DEF Damage, TypeOK, PlaceShape, Places
<1>2. CASE at' = [at EXCEPT !["backup"].intact = FALSE]
  <2>1. [at["backup"] EXCEPT !.intact = FALSE] \in Directory
    BY <1>1 DEF Directory
  <2> QED BY <1>2, <2>1
<1>3. ASSUME NEW n \in at["backup"].snapshots, at' = [at EXCEPT !["backup"].snapshots = @ \ {n}]
      PROVE  \E d \in Directory : at' = [at EXCEPT !["backup"] = d]
  <2>1. [at["backup"] EXCEPT !.snapshots = @ \ {n}] \in Directory
    BY <1>1 DEF Directory
  <2> QED BY <1>3, <2>1
<1> QED BY <1>2, <1>3 DEF Damage

\* Every reachable state has this shape; in particular a call that copies or
\* renames always has its temporary directory.
THEOREM TypeCorrect == Spec => []TypeOK
<1>1. Init => TypeOK
  <2> SUFFICES ASSUME Init PROVE TypeOK
    OBVIOUS
  <2>1. RuntimeShape
    <3>1. torn \in BOOLEAN /\ ~torn
      BY DEF Init
    <3> QED BY <3>1, BackupConstants DEF Init, RuntimeShape, Sequences
  <2>2. PlaceShape
    BY EmptyIsDirectory DEF Init, PlaceShape
  <2>3. CallShape
    BY DEF Init, CallShape, Parts, Copying, Renaming
  <2>4. CountShape
    BY DEF Init, CountShape
  <2> QED BY <2>1, <2>2, <2>3, <2>4 DEF TypeOK
<1>2. TypeOK /\ [Next]_vars => TypeOK'
  <2> SUFFICES ASSUME TypeOK, [Next]_vars PROVE TypeOK'
    OBVIOUS
  <2>1. ASSUME NEW c \in Callers, Leave(c), UNCHANGED <<runtimeVars, at, calls>>, CountShape'
        PROVE  TypeOK'
    BY <2>1, LeaveShape DEF TypeOK, RuntimeShape, runtimeVars
  <2>2. ASSUME NEW c \in Callers, CallFails(c) \/ Crash(c) PROVE TypeOK'
    BY <2>1, <2>2 DEF CallFails, Crash, Fault, TypeOK, CountShape
  <2>3. ASSUME NEW c \in Callers, PublishFails(c) PROVE TypeOK'
    <3>1. CountShape'
      BY <2>3 DEF PublishFails, Fault, TypeOK, CountShape
    <3>2. CASE Leave(c)
      BY <2>1, <2>3, <3>1, <3>2 DEF PublishFails
    <3>3. CASE Goto(c, "publish", "rollback") /\ UNCHANGED <<left, aside, copyVars, existed>>
      <4>1. CallShape'
        BY <3>3, MoveOn DEF Goto, copyVars, TypeOK, CallShape, Parts, Renaming
      <4>2. PlaceShape' /\ RuntimeShape'
        BY <2>3, <3>3 DEF PublishFails, runtimeVars, TypeOK, PlaceShape, RuntimeShape
      <4> QED BY <3>1, <4>1, <4>2 DEF TypeOK
    <3> QED BY <2>3, <3>2, <3>3 DEF PublishFails
  <2>4. CASE Damage
    <3>1. PICK d \in Directory : at' = [at EXCEPT !["backup"] = d]
      BY <2>4, DamageShape
    <3>2. at' \in [Places -> Directory \cup {Missing}]
      BY <3>1 DEF TypeOK, PlaceShape
    <3>3. PlaceShape'
      BY <2>4, <3>2 DEF Damage, TypeOK, PlaceShape
    <3> QED BY <2>4, <3>3 DEF Damage, TypeOK, RuntimeShape, CallShape, CountShape, runtimeVars,
                              copyVars
  <2>5. CASE UNCHANGED vars
    BY <2>5 DEF vars, TypeOK, RuntimeShape, PlaceShape, CallShape, CountShape, runtimeVars,
                placeVars, copyVars, envVars
  <2> QED BY <2>2, <2>3, <2>4, <2>5, RuntimeStep, BackupShape, RestoreShape, ReplaceShape DEF Next
<1> QED BY <1>1, <1>2, PTL DEF Spec

-----------------------------------------------------------------------------
(* What a step does to the places                                          *)

\* The places stay as they are; at most one call goes on, from no part that ends.
Quiet ==
    /\ UNCHANGED placeVars
    /\ \/ UNCHANGED pc
       \/ \E c \in Callers : \E part \in Parts \ {"idle", "published"} :
              /\ pc' = [pc EXCEPT ![c] = part]
              /\ pc[c] \notin {"rollback", "published"}
              /\ pc[c] \in {"moved", "publish"} => part \in {"publish", "rollback"}
              /\ part = "rollback" => aside[c] # Missing

LeaveAll(c) == Leave(c) /\ UNCHANGED at

Renames(c) == MoveAside(c) \/ Publish(c) \/ Rollback(c) \/ Done(c)

\* The copies of both calls touch no place, unless they end.
LEMMA CopyKinds ==
    ASSUME TypeOK, NEW c \in Callers,
           \/ c \in Backups /\ Backup(c)
           \/ c \in Restores /\ Restore(c)
    PROVE  Quiet \/ LeaveAll(c)
<1> USE DEF Goto, Parts, Copying, Renaming, Quiet
<1>1. CASE \/ StartBackup(c) \/ InspectJournal(c) \/ InspectSnapshots(c)
           \/ RecordJournal(c) \/ CopyJournal(c) \/ ListSnapshots(c)
  BY <1>1 DEF StartBackup, InspectJournal, InspectSnapshots, RecordJournal, CopyJournal,
              ListSnapshots
<1>2. CASE CopySnapshot(c) \/ RestoreSnapshot(c)
  BY <1>2 DEF CopySnapshot, RestoreSnapshot
<1>3. CASE Check(c) \/ CheckRestored(c)
  <2>1. PICK part \in {"move", "publish"} : pc' = [pc EXCEPT ![c] = part]
    BY <1>3 DEF Check, CheckRestored
  <2> QED BY <1>3, <2>1 DEF Check, CheckRestored
<1>4. CASE StartRestore(c) \/ TargetExists(c) \/ RestoreJournal(c)
  BY <1>4 DEF StartRestore, TargetExists, RestoreJournal
<1>5. CASE BackupRefused(c) \/ RestoreRefused(c)
  BY <1>5 DEF BackupRefused, RestoreRefused, Fail, LeaveAll
<1> QED BY <1>1, <1>2, <1>3, <1>4, <1>5 DEF Backup, Restore

\* So does whatever else happens, apart from the renames, the end of a call and
\* the medium.
LEMMA Kinds ==
    ASSUME TypeOK, [Next]_vars
    PROVE  \/ Quiet
           \/ \E c \in Callers : LeaveAll(c) \/ Renames(c)
           \/ Damage
<1>1. CASE Runtime
  BY <1>1 DEF Runtime, BeginAppend, EndAppend, BeginSave, EndSave, Prune, Quiet
<1>2. CASE UNCHANGED vars
  BY <1>2 DEF vars, Quiet
<1>3. ASSUME NEW c \in Callers, Replace(c) \/ CallFails(c) \/ PublishFails(c) \/ Crash(c)
      PROVE  Quiet \/ LeaveAll(c) \/ Renames(c)
  <2> USE DEF LeaveAll, Fail
  <2>1. CASE SyncMoved(c)
    <3>1. "publish" \in Parts \ {"idle", "published"}
      BY DEF Parts, Renaming
    <3> QED BY <2>1, <3>1 DEF SyncMoved, Goto, Quiet
  <2>2. CASE PublishRefused(c) \/ PublishFails(c)
    <3>1. CASE aside[c] = Missing
      BY <2>2, <3>1 DEF PublishRefused, PublishFails
    <3>2. CASE aside[c] # Missing
      <4>1. Goto(c, "publish", "rollback") /\ UNCHANGED placeVars
        BY <2>2, <3>2 DEF PublishRefused, PublishFails, placeVars
      <4> QED BY <3>2, <4>1 DEF Goto, Quiet, Parts, Renaming
    <3> QED BY <3>1, <3>2
  <2>3. CASE MoveMissing(c) \/ RollbackRefused(c) \/ CallFails(c) \/ Crash(c)
    BY <2>3 DEF MoveMissing, RollbackRefused, CallFails, Crash
  <2> QED BY <1>3, <2>1, <2>2, <2>3 DEF Replace, Renames
<1> QED BY <1>1, <1>2, <1>3, CopyKinds DEF Next, Callers

-----------------------------------------------------------------------------
(* What is moved aside                                                     *)

\* A call has moved a directory aside only between the renames, and after a
\* refused or failed one it has one to put back.
AsideInv ==
    \A c \in Callers :
        /\ aside[c] # Missing => pc[c] \in {"moved", "publish", "rollback", "published"}
        /\ pc[c] = "rollback" => aside[c] # Missing

\* Leaving and coming to the part published.
LEMMA AsideStep ==
    ASSUME TypeOK, AsideInv, [Next]_vars
    PROVE  AsideInv'
<1> USE DEF AsideInv, TypeOK, CallShape, PlaceShape
<1>1. CASE Quiet
  BY <1>1 DEF Quiet, placeVars
<1>2. ASSUME NEW c \in Callers, LeaveAll(c) PROVE AsideInv'
  BY <1>2 DEF LeaveAll, Leave
<1>3. ASSUME NEW c \in Callers, Renames(c) PROVE AsideInv'
  BY <1>3 DEF Renames, MoveAside, Publish, Rollback, Done, Goto
<1>4. CASE Damage
  BY <1>4 DEF Damage
<1> QED BY <1>1, <1>2, <1>3, <1>4, Kinds

LEMMA AsideAlways == Spec => [](TypeOK /\ AsideInv)
<1>1. Init => AsideInv
  BY DEF Init, AsideInv
<1>2. AsideInv /\ TypeOK /\ [Next]_vars => AsideInv'
  BY AsideStep
<1> QED BY <1>1, <1>2, TypeCorrect, PTL DEF Spec

\* What is kept at the target is the directory there, those moved aside by
\* restores, and those left.
LEMMA KeptAt ==
    ASSUME NEW x, x # Missing
    PROVE  /\ x \in Kept("target") <=> \/ x = at["target"] \/ x \in left["target"]
                                       \/ \E c \in Restores : x = aside[c]
           /\ x \in Kept("target")' <=> \/ x = at'["target"] \/ x \in left'["target"]
                                        \/ \E c \in Restores : x = aside'[c]
<1>1. \A c \in Callers : Place(c) = "target" <=> c \in Restores
  BY BackupConstants DEF Place, Callers
<1>2. Restores \subseteq Callers
  BY DEF Callers
<1> QED BY <1>1, <1>2 DEF Kept

\* A restore deletes no runtime: whatever is or was at the target and still
\* exists is found at the target, beside it or with its caller after every step.
THEOREM NothingDeleted == Spec => RestoresDeleteNothing
<1>1. ASSUME TypeOK, AsideInv, [Next]_vars, NEW x \in Kept("target") PROVE x \in Kept("target")'
  <2>1. x # Missing
    BY DEF Kept
  <2>2. \/ x = at["target"] \/ x \in left["target"]
        \/ \E c \in Restores : x = aside[c]
    BY <1>1, <2>1, KeptAt
  <2>3. /\ \A c \in Callers : Place(c) = IF c \in Restores THEN "target" ELSE "backup"
        /\ Restores \subseteq Callers
    BY BackupConstants DEF Place, Callers
  <2>4. /\ at \in [Places -> Directory \cup {Missing}] /\ left \in [Places -> SUBSET Directory]
        /\ aside \in [Callers -> Directory \cup {Missing}]
        /\ "target" \in Places /\ "backup" \in Places
    BY <1>1 DEF TypeOK, PlaceShape, Places
  <2> DEFINE found == \/ x = at'["target"] \/ x \in left'["target"]
                      \/ \E c \in Restores : x = aside'[c]
  <2>5. ASSUME Quiet PROVE found
    BY <2>2, <2>5 DEF Quiet, placeVars
  <2>6. ASSUME NEW c \in Callers, LeaveAll(c) PROVE found
    <3>1. /\ at' = at
          /\ aside' = [aside EXCEPT ![c] = Missing]
          /\ left' = [left EXCEPT ![Place(c)] = @ \cup ({aside[c]} \ {Missing})]
      BY <2>6 DEF LeaveAll, Leave
    <3>2. CASE c \in Restores
      <4>1. Place(c) = "target"
        BY <2>3, <3>2
      <4>2. left'["target"] = left["target"] \cup ({aside[c]} \ {Missing})
        BY <2>4, <3>1, <4>1
      <4>3. \A d \in Restores : d # c => aside'[d] = aside[d]
        BY <2>3, <2>4, <3>1
      <4> QED BY <2>1, <2>2, <3>1, <4>2, <4>3
    <3>3. CASE c \notin Restores
      BY <2>1, <2>2, <2>3, <2>4, <3>1, <3>3
    <3> QED BY <3>2, <3>3
  <2>7. ASSUME NEW c \in Callers, MoveAside(c) PROVE found
    <3>1. /\ aside[c] = Missing /\ left' = left
          /\ aside' = [aside EXCEPT ![c] = at[Place(c)]]
          /\ at' = [at EXCEPT ![Place(c)] = Missing]
      BY <1>1, <2>7 DEF MoveAside, Goto, AsideInv
    <3>2. CASE c \in Restores
      <4>1. Place(c) = "target"
        BY <2>3, <3>2
      <4>2. aside'[c] = at["target"]
        BY <2>4, <3>1, <4>1
      <4>3. \A d \in Restores : d # c => aside'[d] = aside[d]
        BY <2>3, <2>4, <3>1
      <4> QED BY <2>1, <2>2, <3>1, <3>2, <4>2, <4>3
    <3>3. CASE c \notin Restores
      <4>1. Place(c) = "backup"
        BY <2>3, <3>3
      <4>2. at'["target"] = at["target"]
        BY <2>4, <3>1, <4>1
      <4>3. \A d \in Restores : aside'[d] = aside[d]
        BY <2>3, <2>4, <3>1, <3>3
      <4> QED BY <2>2, <3>1, <4>2, <4>3
    <3> QED BY <3>2, <3>3
  <2>8. ASSUME NEW c \in Callers, Publish(c) PROVE found
    <3>1. /\ at[Place(c)] = Missing /\ UNCHANGED <<left, aside>>
          /\ at' = [at EXCEPT ![Place(c)] = staged[c]]
      BY <2>8 DEF Publish
    <3> QED BY <2>1, <2>2, <2>3, <2>4, <3>1
  <2>9. ASSUME NEW c \in Callers, Rollback(c) PROVE found
    <3>1. /\ at[Place(c)] = Missing /\ left' = left
          /\ at' = [at EXCEPT ![Place(c)] = aside[c]]
          /\ aside' = [aside EXCEPT ![c] = Missing]
      BY <2>9 DEF Rollback
    <3>2. CASE c \in Restores
      <4>0. Place(c) = "target"
        BY <2>3, <3>2
      <4>1. at["target"] = Missing /\ at'["target"] = aside[c]
        BY <2>4, <3>1, <4>0
      <4>2. \A d \in Restores : d # c => aside'[d] = aside[d]
        BY <2>3, <2>4, <3>1
      <4> QED BY <2>1, <2>2, <3>1, <4>1, <4>2
    <3>3. CASE c \notin Restores
      BY <2>1, <2>2, <2>3, <2>4, <3>1, <3>3
    <3> QED BY <3>2, <3>3
  <2>10. ASSUME NEW c \in Callers, Done(c) PROVE found
    <3>1. /\ at' = at
          /\ aside' = [aside EXCEPT ![c] = Missing]
          /\ left' = IF c \in Backups \/ aside[c] = Missing THEN left
                     ELSE [left EXCEPT !["target"] = @ \cup {aside[c]}]
      BY <2>10 DEF Done
    <3>2. CASE c \in Backups
      <4>1. left' = left /\ \A d \in Restores : aside'[d] = aside[d]
        BY <2>3, <2>4, <3>1, <3>2, BackupConstants
      <4> QED BY <2>2, <3>1, <4>1
    <3>3. CASE c \notin Backups
      <4>1. /\ left["target"] \subseteq left'["target"]
            /\ aside[c] # Missing => aside[c] \in left'["target"]
        BY <2>4, <3>1, <3>3
      <4>2. \A d \in Restores : d # c => aside'[d] = aside[d]
        BY <2>3, <2>4, <3>1
      <4> QED BY <2>1, <2>2, <3>1, <4>1, <4>2
    <3> QED BY <3>2, <3>3
  <2>11. ASSUME Damage PROVE found
    <3>1. at'["target"] = at["target"] /\ UNCHANGED <<left, aside>>
      BY <2>4, <2>11 DEF Damage
    <3> QED BY <2>2, <3>1
  <2>12. found
    BY <1>1, <2>5, <2>6, <2>7, <2>8, <2>9, <2>10, <2>11, Kinds DEF Renames
  <2> QED BY <2>1, <2>12, KeptAt
<1>2. TypeOK /\ AsideInv /\ [Next]_vars => Kept("target") \subseteq Kept("target")'
  BY <1>1
<1> QED BY <1>2, AsideAlways, PTL DEF Spec, RestoresDeleteNothing

-----------------------------------------------------------------------------
(* The last backup                                                         *)

\* A backup that no call is about to remove.
Safe ==
    \/ at["backup"] # Missing
    \/ left["backup"] # {}
    \/ \E c \in Backups : aside[c] # Missing /\ pc[c] # "published"

\* Who is about to remove the backup it has replaced leaves another.
SafeInv == (\E c \in Backups : pc[c] = "published") => Safe

\* A rename of a restore leaves the backups alone.
LEMMA RestoreRenames ==
    ASSUME TypeOK, NEW c \in Restores, LeaveAll(c) \/ Renames(c)
    PROVE  /\ at'["backup"] = at["backup"] /\ left'["backup"] = left["backup"]
           /\ \A d \in Backups : aside'[d] = aside[d] /\ pc'[d] = pc[d]
<1>1. Place(c) = "target" /\ c \in Callers /\ \A d \in Backups : d # c /\ d \in Callers
  BY BackupConstants DEF Place, Callers
<1>2. /\ at \in [Places -> Directory \cup {Missing}] /\ left \in [Places -> SUBSET Directory]
      /\ aside \in [Callers -> Directory \cup {Missing}] /\ pc \in [Callers -> Parts]
      /\ "target" \in Places /\ "backup" \in Places
  BY DEF TypeOK, PlaceShape, CallShape, Places
<1>3. CASE LeaveAll(c)
  BY <1>1, <1>2, <1>3 DEF LeaveAll, Leave
<1>4. CASE MoveAside(c)
  BY <1>1, <1>2, <1>4 DEF MoveAside, Goto
<1>5. CASE Publish(c)
  BY <1>1, <1>2, <1>5 DEF Publish, Goto
<1>6. CASE Rollback(c)
  BY <1>1, <1>2, <1>6 DEF Rollback, Goto
<1>7. CASE Done(c)
  BY <1>1, <1>2, <1>7 DEF Done
<1> QED BY <1>3, <1>4, <1>5, <1>6, <1>7 DEF Renames

\* Once there is a backup that nobody is about to remove, there always is one.
LEMMA SafeStays ==
    ASSUME TypeOK, AsideInv, Safe, [Next]_vars
    PROVE  Safe'
<1>1. /\ at \in [Places -> Directory \cup {Missing}] /\ left \in [Places -> SUBSET Directory]
      /\ aside \in [Callers -> Directory \cup {Missing}] /\ pc \in [Callers -> Parts]
      /\ "target" \in Places /\ "backup" \in Places
  BY DEF TypeOK, PlaceShape, CallShape, Places
<1>2. \A c \in Backups : Place(c) = "backup" /\ c \in Callers
  BY DEF Place, Callers
<1>3. ASSUME Quiet PROVE Safe'
  BY <1>1, <1>2, <1>3 DEF Quiet, placeVars, Safe
<1>4. ASSUME NEW c \in Restores, LeaveAll(c) \/ Renames(c) PROVE Safe'
  BY <1>4, RestoreRenames DEF Safe
<1>5. ASSUME NEW c \in Backups, LeaveAll(c) PROVE Safe'
  <2>1. /\ at' = at /\ left'["backup"] = left["backup"] \cup ({aside[c]} \ {Missing})
        /\ \A d \in Backups : d # c => aside'[d] = aside[d] /\ pc'[d] = pc[d]
    BY <1>1, <1>2, <1>5 DEF LeaveAll, Leave
  <2> QED BY <2>1 DEF Safe
<1>6. ASSUME NEW c \in Backups, MoveAside(c) PROVE Safe'
  <2>1. aside'[c] = at["backup"] /\ at["backup"] # Missing /\ pc'[c] = "moved"
    BY <1>1, <1>2, <1>6 DEF MoveAside, Goto
  <2> QED BY <2>1 DEF Safe
<1>7. ASSUME NEW c \in Backups, Publish(c) PROVE Safe'
  <2>1. at'["backup"] = staged[c] /\ staged[c] # Missing
    BY <1>1, <1>2, <1>7 DEF Publish, Goto, TypeOK, CallShape, Renaming
  <2> QED BY <2>1 DEF Safe
<1>8. ASSUME NEW c \in Backups, Rollback(c) PROVE Safe'
  <2>1. at'["backup"] = aside[c] /\ aside[c] # Missing
    BY <1>1, <1>2, <1>8 DEF Rollback, Goto, AsideInv
  <2> QED BY <2>1 DEF Safe
<1>9. ASSUME NEW c \in Backups, Done(c) PROVE Safe'
  <2>1. /\ at' = at /\ left' = left /\ pc[c] = "published"
        /\ \A d \in Backups : d # c => aside'[d] = aside[d] /\ pc'[d] = pc[d]
    BY <1>1, <1>2, <1>9 DEF Done
  <2> QED BY <2>1 DEF Safe
<1>10. ASSUME Damage PROVE Safe'
  <2>1. PICK d \in Directory : at' = [at EXCEPT !["backup"] = d]
    BY <1>10, DamageShape
  <2>2. at'["backup"] # Missing
    BY <1>1, <2>1, DirectoryConstants
  <2> QED BY <2>2 DEF Safe
<1> QED BY <1>3, <1>4, <1>5, <1>6, <1>7, <1>8, <1>9, <1>10, Kinds DEF Renames, Callers

\* A backup comes to remove its predecessor only by publishing itself.
LEMMA SafeInvStep ==
    ASSUME TypeOK, AsideInv, SafeInv, [Next]_vars
    PROVE  SafeInv'
<1>1. CASE Safe
  BY <1>1, SafeStays DEF SafeInv
<1>2. CASE ~Safe
  <2>1. \A c \in Backups : pc[c] # "published"
    BY <1>2 DEF SafeInv
  <2>2. /\ at \in [Places -> Directory \cup {Missing}] /\ pc \in [Callers -> Parts]
        /\ "backup" \in Places
    BY DEF TypeOK, PlaceShape, CallShape, Places
  <2>3. \A c \in Backups : Place(c) = "backup" /\ c \in Callers
    BY DEF Place, Callers
  <2>4. ASSUME Quiet \/ Damage PROVE SafeInv'
    BY <2>1, <2>2, <2>3, <2>4 DEF Quiet, Damage, SafeInv
  <2>5. ASSUME NEW c \in Restores, LeaveAll(c) \/ Renames(c) PROVE SafeInv'
    BY <2>1, <2>5, RestoreRenames DEF SafeInv
  <2>6. ASSUME NEW c \in Backups, LeaveAll(c) \/ MoveAside(c) \/ Rollback(c) \/ Done(c)
        PROVE  SafeInv'
    <3>1. PICK part \in {"idle", "moved"} : pc' = [pc EXCEPT ![c] = part]
      BY <2>6 DEF LeaveAll, Leave, MoveAside, Rollback, Done, Goto
    <3> QED BY <2>1, <2>2, <2>3, <3>1 DEF SafeInv
  <2>7. ASSUME NEW c \in Backups, Publish(c) PROVE SafeInv'
    <3>1. at'["backup"] = staged[c] /\ staged[c] # Missing
      BY <2>2, <2>3, <2>7 DEF Publish, Goto, TypeOK, CallShape, Renaming
    <3> QED BY <3>1 DEF SafeInv, Safe
  <2> QED BY <2>4, <2>5, <2>6, <2>7, Kinds DEF Renames, Callers
<1> QED BY <1>1, <1>2

\* Failures, crashes and other backups between the renames never take the last
\* backup: as soon as one is published, one remains at the destination or
\* beside it.
THEOREM OneSurvives == Spec => BackupSurvives
<1>1. Init => SafeInv
  BY DEF Init, SafeInv, Callers
<1>2. SafeInv /\ TypeOK /\ AsideInv /\ [Next]_vars => SafeInv'
  BY SafeInvStep
<1>3. TypeOK /\ TypeOK' /\ AsideInv /\ SafeInv /\ [Next]_vars
        => (Kept("backup") # {} => Kept("backup")' # {})
  <2> SUFFICES ASSUME TypeOK, TypeOK', AsideInv, SafeInv, [Next]_vars, Kept("backup") # {}
               PROVE  Kept("backup")' # {}
    OBVIOUS
  <2>1. /\ \A c \in Callers : Place(c) = "backup" <=> c \in Backups
        /\ Backups \subseteq Callers
    BY DEF Place, Callers
  <2>2. Safe
    <3>1. CASE \E c \in Backups : aside[c] # Missing
      BY <3>1 DEF Safe, SafeInv
    <3>2. CASE at["backup"] # Missing \/ left["backup"] # {}
      BY <3>2 DEF Safe
    <3> QED BY <2>1, <3>1, <3>2 DEF Kept
  <2>3. Safe'
    BY <2>2, SafeStays
  <2>4. Missing \notin left'["backup"]
    BY DirectoryConstants DEF TypeOK, PlaceShape, Places
  <2> QED BY <2>1, <2>3, <2>4 DEF Safe, Kept
<1> QED BY <1>1, <1>2, <1>3, AsideAlways, PTL DEF Spec, BackupSurvives

-----------------------------------------------------------------------------
(* What is copied                                                          *)

\* The temporary directory of a call about to rename verifies.
Ready(c) == pc[c] \in Renaming => Verifies(staged[c])

\* A restore copies what the manifest of a verified backup says, and has copied
\* what it has not still to do.
Copied(c) ==
    pc[c] \in {"exists", "restore", "files"} =>
        /\ staged[c].intact
        /\ \A n \in staged[c].manifest.snapshots : n <= staged[c].manifest.journal
        /\ pc[c] = "files" => staged[c].snapshots \cup todo[c] = staged[c].manifest.snapshots
        /\ pc[c] # "files" => staged[c].snapshots = {}

CopyInv == \A c \in Callers : Ready(c) /\ Copied(c)

\* A step of one caller.
StepOf(c) ==
    \/ c \in Backups /\ Backup(c)
    \/ c \in Restores /\ Restore(c)
    \/ Replace(c) \/ CallFails(c) \/ PublishFails(c) \/ Crash(c)

\* It leaves the copies of the others alone.
LEMMA OthersWait ==
    ASSUME TypeOK, NEW c \in Callers, StepOf(c), NEW d \in Callers, d # c
    PROVE  staged'[d] = staged[d] /\ todo'[d] = todo[d] /\ pc'[d] = pc[d]
<1> DEFINE alone == staged'[d] = staged[d] /\ todo'[d] = todo[d] /\ pc'[d] = pc[d]
<1>1. /\ staged \in [Callers -> Directory \cup {Missing}] /\ pc \in [Callers -> Parts]
      /\ todo \in [Callers -> SUBSET Sequences]
  BY DEF TypeOK, CallShape
<1>2. ASSUME Leave(c) PROVE alone
  BY <1>1, <1>2 DEF Leave
<1>3. ASSUME Backup(c) PROVE alone
  BY <1>1, <1>2, <1>3 DEF Backup, StartBackup, InspectJournal, InspectSnapshots, RecordJournal,
        CopyJournal, ListSnapshots, CopySnapshot, Check, BackupRefused, Fail, Goto, copyVars
<1>4. ASSUME Restore(c) PROVE alone
  BY <1>1, <1>2, <1>4 DEF Restore, StartRestore, TargetExists, RestoreJournal, RestoreSnapshot,
        CheckRestored, RestoreRefused, Fail, Goto, copyVars
<1>5. ASSUME Replace(c) PROVE alone
  BY <1>1, <1>2, <1>5 DEF Replace, MoveAside, MoveMissing, SyncMoved, Publish, PublishRefused,
        Rollback, RollbackRefused, Done, Fail, Goto, copyVars
<1>6. ASSUME CallFails(c) \/ PublishFails(c) \/ Crash(c) PROVE alone
  BY <1>1, <1>2, <1>6 DEF CallFails, PublishFails, Crash, Goto, copyVars
<1> QED BY <1>3, <1>4, <1>5, <1>6 DEF StepOf

\* A backup gets to its renames by verifying what it has copied.
LEMMA BackupCopies ==
    ASSUME TypeOK, NEW c \in Backups, Backup(c)
    PROVE  Ready(c)' /\ Copied(c)'
<1> USE DEF Goto, Ready, Copied, Renaming
<1>1. c \in Callers /\ pc \in [Callers -> Parts] /\ staged \in [Callers -> Directory \cup {Missing}]
  BY DEF Callers, TypeOK, CallShape
<1>2. CASE \/ StartBackup(c) \/ InspectJournal(c) \/ InspectSnapshots(c) \/ RecordJournal(c)
           \/ CopyJournal(c) \/ ListSnapshots(c) \/ CopySnapshot(c)
  <2>1. pc'[c] \in {"inspect", "look", "record", "copy", "list", "snapshots"}
    BY <1>1, <1>2 DEF StartBackup, InspectJournal, InspectSnapshots, RecordJournal, CopyJournal,
                      ListSnapshots, CopySnapshot
  <2> QED BY <2>1
<1>3. CASE Check(c)
  <2>1. pc'[c] \in {"move", "publish"} /\ Verifies(staged[c]) /\ staged' = staged
    BY <1>1, <1>3 DEF Check, copyVars
  <2> QED BY <2>1
<1>4. CASE BackupRefused(c)
  <2>1. pc'[c] = "idle"
    BY <1>1, <1>4 DEF BackupRefused, Fail, Leave
  <2> QED BY <2>1
<1> QED BY <1>2, <1>3, <1>4 DEF Backup

\* A restore does by copying just what the manifest of a verified backup says.
LEMMA RestoreCopies ==
    ASSUME TypeOK, CopyInv, NEW c \in Restores, Restore(c)
    PROVE  Ready(c)' /\ Copied(c)'
<1> USE DEF Goto, Renaming
<1>1. /\ c \in Callers /\ pc \in [Callers -> Parts] /\ todo \in [Callers -> SUBSET Sequences]
      /\ staged \in [Callers -> Directory \cup {Missing}]
      /\ at \in [Places -> Directory \cup {Missing}] /\ "backup" \in Places
  BY DEF Callers, TypeOK, CallShape, PlaceShape, Places
<1>2. Copied(c)
  BY <1>1 DEF CopyInv
<1>3. CASE StartRestore(c)
  <2> DEFINE b == at["backup"]
             d == [Empty EXCEPT !.manifest = b.manifest]
  <2>1. pc'[c] = "exists" /\ staged'[c] = d /\ Verifies(b)
    BY <1>1, <1>3 DEF StartRestore
  <2>2. d.intact /\ d.snapshots = {} /\ d.manifest = b.manifest
    BY DEF Empty
  <2>3. \A n \in b.manifest.snapshots : n <= b.manifest.journal
    BY <2>1 DEF Verifies
  <2> HIDE DEF d, b
  <2> QED BY <2>1, <2>2, <2>3 DEF Ready, Copied
<1>4. CASE TargetExists(c)
  <2>1. pc[c] = "exists" /\ pc'[c] = "restore" /\ staged' = staged
    BY <1>1, <1>4 DEF TargetExists, copyVars
  <2> QED BY <1>2, <2>1 DEF Ready, Copied
<1>5. CASE RestoreJournal(c)
  <2> DEFINE d == [staged[c] EXCEPT !.journal = at["backup"].journal]
  <2>1. /\ pc[c] = "restore" /\ pc'[c] = "files" /\ staged'[c] = d
        /\ todo'[c] = staged[c].manifest.snapshots
    BY <1>1, <1>5 DEF RestoreJournal
  <2>2. staged[c] \in Directory
    BY <1>1, <2>1, StagedDirectory DEF Copying
  <2>3. /\ d.intact = staged[c].intact /\ d.snapshots = staged[c].snapshots
        /\ d.manifest = staged[c].manifest
    BY <2>2 DEF Directory
  <2> HIDE DEF d
  <2> QED BY <1>2, <2>1, <2>3 DEF Ready, Copied
<1>6. CASE RestoreSnapshot(c)
  <2> DEFINE n == Min(todo[c])
             d == [staged[c] EXCEPT !.snapshots = @ \cup {n}]
  <2>1. /\ pc[c] = "files" /\ pc'[c] = "files" /\ staged'[c] = d /\ todo'[c] = todo[c] \ {n}
        /\ n \in todo[c]
    BY <1>1, <1>6, OldestIn DEF RestoreSnapshot
  <2>2. staged[c] \in Directory
    BY <1>1, <2>1, StagedDirectory DEF Copying
  <2>3. /\ d.intact = staged[c].intact /\ d.snapshots = staged[c].snapshots \cup {n}
        /\ d.manifest = staged[c].manifest
    BY <2>2 DEF Directory
  <2> HIDE DEF d, n
  <2>4. d.snapshots \cup todo'[c] = staged[c].snapshots \cup todo[c]
    BY <2>1, <2>3
  <2> QED BY <1>2, <2>1, <2>3, <2>4 DEF Ready, Copied
<1>7. CASE CheckRestored(c)
  <2>1. /\ pc[c] = "files" /\ todo[c] = {} /\ staged' = staged
        /\ staged[c].intact /\ staged[c].journal = staged[c].manifest.journal
        /\ pc'[c] \in {"move", "publish"}
    BY <1>1, <1>7 DEF CheckRestored, copyVars
  <2>2. staged[c] # Missing
    BY <1>1, <2>1 DEF TypeOK, CallShape, Copying
  <2>3. staged[c].snapshots = staged[c].manifest.snapshots
    BY <1>2, <2>1 DEF Copied
  <2>4. Verifies(staged[c])
    BY <1>2, <2>1, <2>2, <2>3 DEF Verifies, Copied
  <2> QED BY <2>1, <2>4 DEF Ready, Copied
<1>8. CASE RestoreRefused(c)
  <2>1. pc'[c] = "idle"
    BY <1>1, <1>8 DEF RestoreRefused, Fail, Leave
  <2> QED BY <2>1 DEF Ready, Copied
<1> QED BY <1>3, <1>4, <1>5, <1>6, <1>7, <1>8 DEF Restore

\* The renames move what has been verified, or drop it.
LEMMA ReplaceCopies ==
    ASSUME TypeOK, CopyInv, NEW c \in Callers,
           Replace(c) \/ CallFails(c) \/ PublishFails(c) \/ Crash(c)
    PROVE  Ready(c)' /\ Copied(c)'
<1>1. pc \in [Callers -> Parts] /\ Ready(c)
  BY DEF TypeOK, CallShape, CopyInv
<1>2. CASE pc'[c] \in {"idle", "published"}
  BY <1>2 DEF Ready, Copied, Renaming
<1>3. CASE pc'[c] \notin {"idle", "published"}
  <2>1. pc[c] \in Renaming /\ pc'[c] \in Renaming /\ staged' = staged
    BY <1>1, <1>3 DEF Replace, MoveAside, MoveMissing, SyncMoved, Publish, PublishRefused,
        Rollback, RollbackRefused, Done, Fail, Leave, Goto, copyVars, CallFails, PublishFails,
        Crash, Renaming
  <2> QED BY <1>1, <2>1 DEF Ready, Copied, Renaming
<1> QED BY <1>2, <1>3

LEMMA CopyStep ==
    ASSUME TypeOK, CopyInv, [Next]_vars
    PROVE  CopyInv'
<1>1. ASSUME NEW c \in Callers, StepOf(c) PROVE CopyInv'
  <2>1. Ready(c)' /\ Copied(c)'
    BY <1>1, BackupCopies, RestoreCopies, ReplaceCopies DEF StepOf
  <2>2. ASSUME NEW d \in Callers, d # c PROVE Ready(d)' /\ Copied(d)'
    <3>1. Ready(d) /\ Copied(d)
      BY DEF CopyInv
    <3>2. staged'[d] = staged[d] /\ todo'[d] = todo[d] /\ pc'[d] = pc[d]
      BY <1>1, <2>2, OthersWait
    <3> QED BY <3>1, <3>2 DEF Ready, Copied
  <2> QED BY <2>1, <2>2 DEF CopyInv
<1>2. CASE Runtime \/ Damage \/ UNCHANGED vars
  <2>1. UNCHANGED <<staged, todo, pc>>
    BY <1>2 DEF Runtime, BeginAppend, EndAppend, BeginSave, EndSave, Prune, Damage, vars, copyVars
  <2> QED BY <2>1 DEF CopyInv, Ready, Copied
<1> QED BY <1>1, <1>2 DEF Next, StepOf, Callers

\* Whatever the runtime, other calls and failures do meanwhile: what appears at
\* the destination of a backup or at the target of a restore verifies, or was
\* there before and is put back.
THEOREM OnlyVerified == Spec => PublishesOnlyVerified
<1>1. Init => CopyInv
  BY DEF Init, CopyInv, Ready, Copied, Renaming
<1>2. CopyInv /\ TypeOK /\ [Next]_vars => CopyInv'
  BY CopyStep
<1>3. ASSUME TypeOK, CopyInv, [Next]_vars, NEW p \in Places, damages' = damages,
             at'[p] # at[p], at'[p] # Missing
      PROVE  Verifies(at'[p]) \/ \E c \in Callers : aside[c] = at'[p]
  <2>1. /\ at \in [Places -> Directory \cup {Missing}]
        /\ \A c \in Callers : Place(c) \in Places
    BY <1>3, PlaceOfCaller DEF TypeOK, PlaceShape
  <2>2. ~Quiet /\ \A c \in Callers : ~LeaveAll(c) /\ ~Done(c)
    BY <1>3 DEF Quiet, placeVars, LeaveAll, Done
  <2>3. ~Damage
    BY <1>3 DEF Damage, TypeOK, CountShape
  <2>4. PICK c \in Callers : MoveAside(c) \/ Publish(c) \/ Rollback(c)
    BY <1>3, <2>2, <2>3, Kinds DEF Renames
  <2>5. CASE Publish(c)
    <3>1. pc[c] = "publish" /\ at'[p] = staged[c]
      BY <1>3, <2>1, <2>5 DEF Publish, Goto
    <3>2. Verifies(staged[c])
      BY <1>3, <3>1 DEF CopyInv, Ready, Renaming
    <3> QED BY <3>1, <3>2
  <2>6. CASE MoveAside(c) \/ Rollback(c)
    BY <1>3, <2>1, <2>6 DEF MoveAside, Rollback
  <2> QED BY <2>4, <2>5, <2>6
<1>4. TypeOK /\ CopyInv /\ [Next]_vars
        => \A p \in Places : damages' = damages /\ at'[p] \notin {at[p], Missing}
              => Verifies(at'[p]) \/ \E c \in Callers : aside[c] = at'[p]
  BY <1>3
<1> QED BY <1>1, <1>2, <1>4, TypeCorrect, PTL DEF Spec, PublishesOnlyVerified
=============================================================================
