---------------------- MODULE AdaptivePersistenceProofs ----------------------
(***************************************************************************)
(* Proofs about AdaptivePersistence and the SnapshotStore under it, for    *)
(* any processes, events and snapshots kept, and any number of crashes,    *)
(* damaged files and power failures.                                       *)
(***************************************************************************)
EXTENDS AdaptivePersistence, SequenceTheorems, FiniteSetTheorems, WellFoundedInduction, TLAPS

-----------------------------------------------------------------------------
(* The shape of the state                                                  *)

\* The parts of a call, and those that run under the stream lock.
Appending == {"inspect", "end", "sync"}
Parts == {"idle", "read", "list", "load", "loaded", "hydrated", "save", "publish", "tidy",
          "prune", "unlink"} \cup Appending

StoreShape ==
    /\ files \in [Sequences -> Snapshot \cup {NoFile, Corrupt}]
    /\ temps \subseteq [owner : Procs, life : Nat]
    /\ life \in [Procs -> Nat]
    /\ pc \in [Procs -> Parts]
    /\ intent \in [Procs -> Snapshot] /\ latest \in [Procs -> Snapshot]
    /\ names \in [Procs -> SUBSET Sequences]

JournalShape ==
    /\ log \in Seq(Procs) /\ partial \in BOOLEAN
    /\ flushed \in Nat /\ acked \in Nat
    /\ acked <= flushed /\ flushed <= Len(log)
    /\ holders \subseteq Procs

CallShape ==
    /\ phase \in [Procs -> {"none", "before", "checkpoint", "after", "maybe"}]
    /\ seen \in [Procs -> Seq(Procs)] /\ state \in [Procs -> Seq(Procs)]
    /\ crashes \in Nat /\ damages \in Nat /\ losses \in Nat

TypeOK == StoreShape /\ JournalShape /\ CallShape

LEMMA NoneIsSnapshot == None \in Snapshot
BY DEF None, Snapshot

\* The newest of some sequences is one of them.
LEMMA NewestIn ==
    ASSUME NEW S \in SUBSET Sequences, S # {}
    PROVE  Max(S) \in S /\ \A n \in S : Max(S) >= n
<1> DEFINE less == {q \in Nat \X Nat : q[1] < q[2]}
           below == {MaxSequence - n : n \in S}
<1>1. IsWellFoundedOn(less, Nat)
  BY NatLessThanWellFounded DEF OpToRel
<1>2. below \subseteq Nat /\ below # {}
  <2>1. \A n \in S : n \in Nat /\ MaxSequence - n \in Nat
    BY SnapshotConstants DEF Sequences
  <2> QED BY <2>1
<1>3. \A i \in Nat, m \in Nat : i < m => <<i, m>> \in less
  OBVIOUS
<1>4. PICK m \in below : \A i \in below : ~(i < m)
  <2> HIDE DEF less, below
  <2>1. PICK m \in below : \A i \in below : ~(<<i, m>> \in less)
    BY <1>1, <1>2, WFMin
  <2> QED BY <1>2, <1>3, <2>1
<1>5. PICK x \in S : m = MaxSequence - x
  BY <1>4
<1>6. \A y \in S : x >= y
  BY <1>4, <1>5, SnapshotConstants DEF Sequences
<1> QED BY <1>6 DEF Max

\* The steps of the store keep its shape.
LEMMA StoreShapeStep ==
    ASSUME StoreShape, NEW p \in Procs, StoreStep(p)
    PROVE  StoreShape'
<1> USE NoneIsSnapshot DEF StoreShape, Parts, Goto, Forget, diskVars, localVars
<1>1. CASE SaveKnown(p) BY <1>1 DEF SaveKnown
<1>2. CASE SaveWrite(p) BY <1>2 DEF SaveWrite, Temp
<1>3. CASE SavePublish(p) BY <1>3 DEF SavePublish
<1>4. CASE SaveTidy(p) BY <1>4 DEF SaveTidy
<1>5. CASE SaveRefused(p) BY <1>5 DEF SaveRefused
<1>6. CASE PruneList(p) BY <1>6 DEF PruneList, Beyond, Listed
<1>7. CASE PruneUnlink(p) BY <1>7 DEF PruneUnlink
<1>8. CASE PruneMissing(p) BY <1>8 DEF PruneMissing
<1>9. CASE PruneDone(p) BY <1>9 DEF PruneDone
<1>10. CASE LoadList(p) BY <1>10 DEF LoadList, Listed
<1>11. CASE LoadSkip(p) BY <1>11 DEF LoadSkip
<1>12. CASE LoadFound(p)
  <2> DEFINE n == Max(names[p])
  <2>1. files[n] \in Snapshot
    BY <1>12, NewestIn DEF LoadFound
  <2> QED BY <1>12, <2>1 DEF LoadFound
<1>13. CASE LoadNothing(p) BY <1>13 DEF LoadNothing
<1> QED BY <1>1, <1>2, <1>3, <1>4, <1>5, <1>6, <1>7, <1>8, <1>9, <1>10, <1>11, <1>12, <1>13
        DEF StoreStep

\* So does a call that ends, fails or dies.
LEMMA StoreShapeOver ==
    ASSUME StoreShape, NEW p \in Procs, Forget(p),
           files' = files,
           temps' \in {temps, temps \ {Temp(p)}},
           life' \in {life, [life EXCEPT ![p] = @ + 1]}
    PROVE  StoreShape'
BY NoneIsSnapshot DEF StoreShape, Parts, Forget, Temp

LEMMA ForgetShape ==
    ASSUME CallShape, NEW p \in Procs, ForgetReplay(p), UNCHANGED envVars
    PROVE  CallShape'
BY DEF CallShape, ForgetReplay, envVars

LEMMA OverShape ==
    ASSUME StoreShape, CallShape, NEW p \in Procs, Over(p), UNCHANGED diskVars, UNCHANGED envVars
    PROVE  StoreShape' /\ CallShape'
BY StoreShapeOver, ForgetShape DEF Over, diskVars

\* The steps of a call that is not one of the store's.
LEMMA OperateShape ==
    ASSUME TypeOK, NEW p \in Procs, Operate(p)
    PROVE  TypeOK'
<1> USE DEF TypeOK, Goto, journalVars, replayVars, envVars, diskVars, localVars
<1>1. CASE Submit(p) \/ Checkpoint(p)
  BY <1>1 DEF Submit, Checkpoint, Start, StoreShape, Parts, JournalShape, CallShape
<1>2. CASE ReadJournal(p)
  BY <1>2 DEF ReadJournal, StoreShape, Parts, JournalShape, CallShape
<1>3. CASE Fail(p)
  <2>1. StoreShape' /\ CallShape'
    BY <1>3, OverShape DEF Fail
  <2> QED BY <1>3, <2>1 DEF Fail, JournalShape
<1>4. CASE Replay(p)
  <2> DEFINE rest == SubSeq(seen[p], SequenceOf(latest[p]) + 1, Len(seen[p]))
  <2>1. latest[p] \in Snapshot /\ seen[p] \in Seq(Procs)
    BY DEF StoreShape, CallShape
  <2>2. SequenceOf(latest[p]) + 1 \in Nat \ {0} /\ Len(seen[p]) \in Nat
    BY <2>1 DEF Snapshot, SequenceOf
  <2>3. \A i \in SequenceOf(latest[p]) + 1 .. Len(seen[p]) : seen[p][i] \in Procs
    BY <2>1, <2>2, ElementOfSeq
  <2>4. rest \in Seq(Procs)
    BY <2>2, <2>3, SubSeqProperties
  <2>5. latest[p].state \o rest \in Seq(Procs)
    BY <2>1, <2>4, ConcatProperties DEF Snapshot
  <2>6. CallShape'
    BY <1>4, <2>5 DEF Replay, CallShape
  <2>7. StoreShape'
    BY <1>4, NoneIsSnapshot DEF Replay, StoreShape, Parts
  <2> QED BY <1>4, <2>6, <2>7 DEF Replay, JournalShape
<1>5. CASE Lock(p)
  BY <1>5 DEF Lock, Mutex!Enter, StoreShape, Parts, Appending, JournalShape, CallShape
<1>6. CASE Conflict(p)
  <2>1. StoreShape' /\ CallShape'
    BY <1>6, OverShape DEF Conflict
  <2> QED BY <1>6, <2>1 DEF Conflict, Mutex!Leave, JournalShape
<1>7. CASE BeginWrite(p)
  BY <1>7 DEF BeginWrite, StoreShape, Parts, Appending, JournalShape, CallShape
<1>8. CASE EndWrite(p)
  <2>1. log' \in Seq(Procs) /\ Len(log') = Len(log) + 1 /\ Len(log) \in Nat
    BY <1>8, AppendProperties DEF EndWrite, JournalShape
  <2>2. partial' \in BOOLEAN /\ UNCHANGED <<flushed, acked, holders>>
    BY <1>8 DEF EndWrite
  <2>3. JournalShape'
    BY <2>1, <2>2 DEF JournalShape
  <2> QED BY <1>8, <2>3 DEF EndWrite, StoreShape, Parts, Appending, CallShape
<1>9. CASE Commit(p)
  <2>1. Len(log) \in Nat
    BY DEF JournalShape
  <2> QED BY <1>9, <2>1 DEF Commit, Mutex!Leave, StoreShape, Parts, JournalShape, CallShape
<1>10. CASE Maybe(p)
  BY <1>10 DEF Maybe, StoreShape, Parts, JournalShape, CallShape
<1>11. CASE Save(p)
  <2>1. [hash |-> seen[p], state |-> state[p]] \in Snapshot
    BY DEF CallShape, Snapshot
  <2>2. CallShape'
    BY <1>11, ForgetShape DEF Save
  <2>3. StoreShape'
    BY <1>11, <2>1, NoneIsSnapshot DEF Save, StoreShape, Parts
  <2> QED BY <1>11, <2>2, <2>3 DEF Save, JournalShape
<1> QED BY <1>1, <1>2, <1>3, <1>4, <1>5, <1>6, <1>7, <1>8, <1>9, <1>10, <1>11
        DEF Operate, ReadFails, ReplayFails, Reject, NotYet

\* What a failing machine leaves of the journal.
LEMMA LossShape ==
    ASSUME TypeOK, PowerLoss
    PROVE  TypeOK'
<1>1. PICK n \in flushed .. Len(log) : log' = SubSeq(log, 1, n)
  BY DEF PowerLoss
<1>2. log \in Seq(Procs) /\ Len(log) \in Nat /\ flushed \in Nat /\ n \in Nat /\ n <= Len(log)
  BY DEF TypeOK, JournalShape
<1>3. log' \in Seq(Procs) /\ Len(log') = n
  <2>1. \A i \in 1 .. n : log[i] \in Procs
    BY <1>2, ElementOfSeq
  <2>2. Len(SubSeq(log, 1, n)) = IF 1 <= n THEN n - 1 + 1 ELSE 0
    BY <1>2, <2>1, SubSeqProperties
  <2> QED BY <1>1, <1>2, <2>1, <2>2, SubSeqProperties
<1>4. JournalShape'
  BY <1>2, <1>3 DEF PowerLoss, TypeOK, JournalShape
<1>5. StoreShape' /\ CallShape'
  BY NoneIsSnapshot DEF PowerLoss, TypeOK, StoreShape, CallShape, Parts
<1> QED BY <1>4, <1>5 DEF TypeOK

\* Every reachable state has this shape; what is acknowledged has been flushed.
THEOREM TypeCorrect == Spec => []TypeOK
<1>1. Init => TypeOK
  <2> SUFFICES ASSUME Init PROVE TypeOK
    OBVIOUS
  <2>1. StoreShape
    BY NoneIsSnapshot DEF Init, StoreInit, StoreShape, Parts
  <2>2. JournalShape
    <3>1. partial \in BOOLEAN
      BY DEF Init
    <3> QED BY <3>1 DEF Init, Mutex!MutexInit, JournalShape
  <2>3. CallShape
    BY DEF Init, CallShape
  <2> QED BY <2>1, <2>2, <2>3 DEF TypeOK
<1>2. TypeOK /\ [Next]_vars => TypeOK'
  <2> SUFFICES ASSUME TypeOK, [Next]_vars PROVE TypeOK'
    OBVIOUS
  <2>1. ASSUME NEW p \in Procs, Store(p) PROVE TypeOK'
    <3>1. StoreShape'
      BY <2>1, StoreShapeStep DEF Store, TypeOK
    <3>2. CallShape'
      BY <2>1, ForgetShape DEF Store, TypeOK, CallShape, envVars
    <3> QED BY <2>1, <3>1, <3>2 DEF Store, TypeOK, JournalShape, journalVars
  <2>2. ASSUME NEW p \in Procs, CallFails(p) PROVE TypeOK'
    <3>1. StoreShape'
      BY <2>2, StoreShapeOver DEF CallFails, StoreFails, Over, TypeOK, diskVars
    <3>2. CallShape'
      BY <2>2, ForgetShape DEF CallFails, Over, TypeOK
    <3> QED BY <2>2, <3>1, <3>2 DEF CallFails, Mutex!Leave, TypeOK, JournalShape, journalVars
  <2>3. ASSUME NEW p \in Procs, Crash(p) PROVE TypeOK'
    <3>1. StoreShape'
      BY <2>3, StoreShapeOver DEF Crash, StoreCrash, TypeOK
    <3> QED BY <2>3, <3>1 DEF Crash, ForgetReplay, TypeOK, JournalShape, CallShape
  <2>4. CASE RecoverTrailing
    BY <2>4 DEF RecoverTrailing, TypeOK, StoreShape, JournalShape, CallShape, storeVars, diskVars,
                localVars, replayVars, envVars
  <2>5. CASE Damage
    <3>1. StoreShape'
      BY <2>5 DEF Damage, TypeOK, StoreShape, localVars
    <3>2. JournalShape'
      BY <2>5 DEF Damage, TypeOK, JournalShape, journalVars
    <3>3. CallShape'
      BY <2>5 DEF Damage, TypeOK, CallShape, replayVars
    <3> QED BY <3>1, <3>2, <3>3 DEF TypeOK
  <2>6. CASE Cleanup /\ UNCHANGED <<journalVars, replayVars, phase, envVars>>
    BY <2>6 DEF Cleanup, TypeOK, StoreShape, JournalShape, CallShape, localVars, journalVars,
                replayVars, envVars
  <2>7. CASE UNCHANGED vars
    BY <2>7 DEF vars, TypeOK, StoreShape, JournalShape, CallShape, storeVars, diskVars, localVars,
                journalVars, replayVars, envVars
  <2> QED BY <2>1, <2>2, <2>3, <2>4, <2>5, <2>6, <2>7, OperateShape, LossShape DEF Next
<1> QED BY <1>1, <1>2, PTL DEF Spec

-----------------------------------------------------------------------------
(* The stream lock                                                         *)

\* The process in the operation is the one in journal.append.
Exclusive ==
    /\ holders = {p \in Procs : pc[p] \in Appending}
    /\ \A p, q \in holders : p = q

\* A step of the store moves its process from one part outside the operation to
\* another.
LEMMA StorePart ==
    ASSUME TypeOK, NEW p \in Procs, StoreStep(p)
    PROVE  /\ pc[p] \notin Appending /\ pc'[p] \notin Appending
           /\ \A q \in Procs \ {p} : pc'[q] = pc[q]
<1> USE DEF TypeOK, StoreShape, Goto, Forget, Appending, localVars
<1>1. CASE SaveKnown(p) \/ SaveWrite(p) \/ SavePublish(p) \/ SaveTidy(p)
  BY <1>1 DEF SaveKnown, SaveWrite, SavePublish, SaveTidy
<1>2. CASE SaveRefused(p)
  BY <1>2 DEF SaveRefused
<1>3. CASE PruneList(p) \/ PruneMissing(p) \/ PruneDone(p)
  BY <1>3 DEF PruneList, PruneMissing, PruneDone
<1>4. CASE PruneUnlink(p)
  BY <1>4 DEF PruneUnlink
<1>5. CASE LoadList(p) \/ LoadFound(p) \/ LoadNothing(p)
  BY <1>5 DEF LoadList, LoadFound, LoadNothing
<1>6. CASE LoadSkip(p)
  BY <1>6 DEF LoadSkip
<1> QED BY <1>1, <1>2, <1>3, <1>4, <1>5, <1>6 DEF StoreStep

\* Nobody else is inside while a process is in journal.append.
THEOREM Alone == Spec => []Exclusive
<1>1. Init => Exclusive
  BY DEF Init, StoreInit, Mutex!MutexInit, Exclusive, Appending
<1>2. TypeOK /\ Exclusive /\ [Next]_vars => Exclusive'
  <2> SUFFICES ASSUME TypeOK, Exclusive, [Next]_vars PROVE Exclusive'
    OBVIOUS
  <2> USE DEF Exclusive, TypeOK, StoreShape, Goto
  <2>1. ASSUME NEW p \in Procs, pc[p] \notin Appending, pc'[p] \notin Appending,
               \A q \in Procs \ {p} : pc'[q] = pc[q], UNCHANGED holders
        PROVE  Exclusive'
    BY <2>1
  <2>2. ASSUME NEW p \in Procs, Over(p), holders' = holders \ {p}
        PROVE  Exclusive'
    BY <2>2 DEF Over, Forget, Appending
  <2>3. ASSUME NEW p \in Procs, Store(p) PROVE Exclusive'
    BY <2>1, <2>3, StorePart DEF Store, journalVars
  <2>4. ASSUME NEW p \in Procs, Operate(p) PROVE Exclusive'
    <3>1. CASE Lock(p)
      BY <3>1 DEF Lock, Mutex!Enter, Appending
    <3>2. CASE BeginWrite(p) \/ EndWrite(p)
      BY <3>2 DEF BeginWrite, EndWrite, Appending
    <3>3. CASE Commit(p)
      BY <3>3 DEF Commit, Mutex!Leave, Appending
    <3>4. CASE Conflict(p)
      BY <2>2, <3>4 DEF Conflict, Mutex!Leave
    <3>5. CASE Submit(p) \/ Checkpoint(p) \/ ReadJournal(p) \/ Replay(p) \/ Maybe(p) \/ Save(p)
      BY <2>1, <3>5 DEF Submit, Checkpoint, Start, ReadJournal, Replay, Maybe, Save, Appending,
                        journalVars
    <3>6. CASE ReadFails(p) \/ ReplayFails(p) \/ Reject(p) \/ NotYet(p)
      BY <2>1, <3>6 DEF ReadFails, ReplayFails, Reject, NotYet, Fail, Over, Forget, Appending,
                        journalVars
    <3> QED BY <2>4, <3>1, <3>2, <3>3, <3>4, <3>5, <3>6 DEF Operate
  <2>5. ASSUME NEW p \in Procs, CallFails(p) PROVE Exclusive'
    <3>1. CASE StoreFails(p) /\ UNCHANGED <<journalVars, envVars>>
      BY <2>1, <3>1 DEF StoreFails, Forget, Appending, journalVars
    <3> QED BY <2>2, <2>5, <3>1 DEF CallFails, Mutex!Leave
  <2>6. ASSUME NEW p \in Procs, Crash(p) PROVE Exclusive'
    BY <2>2, <2>6 DEF Crash, StoreCrash, Over
  <2>7. CASE PowerLoss
    BY <2>7 DEF PowerLoss, Appending
  <2>8. CASE UNCHANGED <<pc, holders>>
    BY <2>8
  <2> QED BY <2>3, <2>4, <2>5, <2>6, <2>7, <2>8
          DEF Next, RecoverTrailing, Damage, Cleanup, storeVars, journalVars, vars
<1> QED BY <1>1, <1>2, TypeCorrect, PTL DEF Spec

-----------------------------------------------------------------------------
(* What a call knows of the journal                                        *)

\* s is a beginning of t.
Begins(s, t) == Len(s) <= Len(t) /\ \A i \in 1 .. Len(s) : s[i] = t[i]

\* What a process has read is still a beginning of the log, its state is that
\* of the events it has read, and nothing is appended between its check and
\* the end of its own record.
Replays(p) ==
    /\ Begins(seen[p], log) /\ Begins(intent[p].hash, log)
    /\ intent[p].state = intent[p].hash /\ latest[p].state = latest[p].hash
    /\ phase[p] = "maybe" => pc[p] \in {"list", "load", "loaded"}
    /\ pc[p] \in {"hydrated"} \cup Appending \/ phase[p] = "maybe" => state[p] = seen[p]
    /\ pc[p] = "end" => log = seen[p] /\ Len(log) < MaxSequence
    /\ pc[p] = "sync" => log = Append(state[p], p)

\* A snapshot file stands at the length of the history it carries; as long as
\* the machine does not fail, that history is a beginning of the log.
FileMatches(n) ==
    files[n] \notin {NoFile, Corrupt} =>
        /\ Len(files[n].hash) = n
        /\ files[n].state = files[n].hash
        /\ losses = 0 => Begins(files[n].hash, log)

ReplayInv ==
    /\ Len(log) <= MaxSequence
    /\ \A p \in Procs : Replays(p)
    /\ \A n \in Sequences : FileMatches(n)

LEMMA SequenceLength ==
    ASSUME NEW s \in Seq(Procs)
    PROVE  Len(s) \in Nat /\ \A i \in 1 .. Len(s) : s[i] \in Procs
BY ElementOfSeq

\* What Anchored asks of a hash.
LEMMA BeginningIsPrefix ==
    ASSUME NEW s \in Seq(Procs), NEW t \in Seq(Procs), Len(s) <= Len(t)
    PROVE  s = SubSeq(t, 1, Len(s)) <=> Begins(s, t)
<1> DEFINE n == Len(s)
           u == SubSeq(t, 1, n)
<1>1. n \in Nat /\ Len(t) \in Nat /\ \A i \in 1 .. n : t[i] \in Procs
  BY SequenceLength
<1>2. /\ u \in Seq(Procs) /\ Len(u) = IF 1 <= n THEN n - 1 + 1 ELSE 0
      /\ \A i \in 1 .. n - 1 + 1 : u[i] = t[1 + i - 1]
  BY <1>1, SubSeqProperties
<1>3. Len(u) = n /\ \A i \in 1 .. n : u[i] = t[i]
  <2> HIDE DEF n, u
  <2> QED BY <1>1, <1>2
<1> HIDE DEF u
<1>4. ASSUME Begins(s, t) PROVE s = u
  BY <1>2, <1>3, <1>4, SeqEqual DEF Begins
<1>5. ASSUME s = u PROVE Begins(s, t)
  BY <1>3, <1>5 DEF Begins
<1> QED BY <1>4, <1>5 DEF u

LEMMA BeginsSelf ==
    ASSUME NEW s \in Seq(Procs)
    PROVE  Begins(s, s)
BY SequenceLength DEF Begins

LEMMA BeginsWhole ==
    ASSUME NEW s \in Seq(Procs), NEW t \in Seq(Procs), Begins(s, t), Len(s) = Len(t)
    PROVE  s = t
BY SeqEqual DEF Begins

LEMMA BeginsLonger ==
    ASSUME NEW s \in Seq(Procs), NEW t \in Seq(Procs), NEW e \in Procs, Begins(s, t)
    PROVE  Begins(s, Append(t, e))
<1>1. /\ Len(Append(t, e)) = Len(t) + 1
      /\ \A i \in 1 .. Len(t) : Append(t, e)[i] = t[i]
  BY AppendProperties
<1>2. Len(s) \in Nat /\ Len(t) \in Nat
  BY SequenceLength
<1> QED BY <1>1, <1>2 DEF Begins

LEMMA BeginsNothing ==
    ASSUME NEW t \in Seq(Procs)
    PROVE  Begins(<< >>, t)
BY SequenceLength DEF Begins

\* The events up to a snapshot and those after it are all events.
LEMMA Resumed ==
    ASSUME NEW h \in Seq(Procs), NEW t \in Seq(Procs), Begins(h, t)
    PROVE  h \o SubSeq(t, Len(h) + 1, Len(t)) = t
<1> DEFINE n == Len(h)
           m == Len(t)
           rest == SubSeq(t, n + 1, m)
<1>1. n \in Nat /\ m \in Nat /\ n <= m
  BY SequenceLength DEF Begins
<1>2. \A i \in n + 1 .. m : t[i] \in Procs
  BY <1>1, SequenceLength
<1>3. /\ rest \in Seq(Procs)
      /\ Len(rest) = IF n + 1 <= m THEN m - (n + 1) + 1 ELSE 0
      /\ \A i \in 1 .. m - (n + 1) + 1 : rest[i] = t[n + 1 + i - 1]
  BY <1>1, <1>2, SubSeqProperties
<1> DEFINE whole == h \o rest
<1> HIDE DEF n, m, rest
<1>4. Len(rest) = m - n /\ \A i \in 1 .. m - n : rest[i] = t[n + i]
  BY <1>1, <1>3
<1>5. /\ whole \in Seq(Procs) /\ Len(whole) = n + Len(rest)
      /\ \A i \in 1 .. n + Len(rest) :
             whole[i] = IF i <= n THEN h[i] ELSE rest[i - n]
  BY <1>3, ConcatProperties DEF n
<1> HIDE DEF whole
<1>6. \A i \in 1 .. m : whole[i] = t[i]
  <2> SUFFICES ASSUME NEW i \in 1 .. m PROVE whole[i] = t[i]
    OBVIOUS
  <2>1. CASE i <= n
    BY <1>1, <1>4, <1>5, <2>1 DEF Begins, n
  <2>2. CASE n < i
    <3>1. i - n \in 1 .. m - n /\ n + (i - n) = i
      BY <1>1, <2>2
    <3> QED BY <1>1, <1>4, <1>5, <2>2, <3>1
  <2> QED BY <1>1, <2>1, <2>2
<1>7. Len(whole) = m
  BY <1>1, <1>4, <1>5
<1>8. whole = t
  <2>1. Len(t) = m /\ \A i \in 1 .. Len(whole) : whole[i] = t[i]
    BY <1>6, <1>7 DEF m
  <2> QED BY <1>5, <1>7, <2>1, SeqEqual
<1> QED BY <1>8 DEF n, m, rest, whole

\* A call that has not begun knows nothing.
LEMMA ForgottenReplays ==
    ASSUME TypeOK', NEW p \in Procs, pc'[p] = "idle", phase'[p] = "none",
           seen'[p] = << >>, intent'[p] = None, latest'[p] = None
    PROVE  Replays(p)'
BY BeginsNothing DEF Replays, None, Appending, TypeOK, JournalShape

\* What p knows while others act, with and without a longer log.
LEMMA SameReplays ==
    ASSUME NEW p \in Procs, Replays(p), log' = log, pc'[p] = pc[p], phase'[p] = phase[p],
           seen'[p] = seen[p], state'[p] = state[p], intent'[p] = intent[p], latest'[p] = latest[p]
    PROVE  Replays(p)'
BY DEF Replays, Begins

LEMMA LongerReplays ==
    ASSUME TypeOK, NEW p \in Procs, Replays(p), NEW e \in Procs, log' = Append(log, e),
           pc[p] \notin {"end", "sync"},
           pc'[p] = pc[p], phase'[p] = phase[p],
           seen'[p] = seen[p], state'[p] = state[p], intent'[p] = intent[p], latest'[p] = latest[p]
    PROVE  Replays(p)'
<1>1. log \in Seq(Procs) /\ seen[p] \in Seq(Procs) /\ intent[p].hash \in Seq(Procs)
  BY DEF TypeOK, StoreShape, JournalShape, CallShape, Snapshot
<1>2. Begins(seen[p], Append(log, e)) /\ Begins(intent[p].hash, Append(log, e))
  BY <1>1, BeginsLonger DEF Replays
<1>3. Begins(seen[p], log)' /\ Begins(intent[p].hash, log)'
  BY <1>2 DEF Begins
<1> QED BY <1>3 DEF Replays

\* What a step of the store does to the calls and to the files.
LEMMA StoreKnows ==
    ASSUME TypeOK, NEW p \in Procs, StoreStep(p)
    PROVE  /\ \A q \in Procs \ {p} : intent'[q] = intent[q] /\ latest'[q] = latest[q]
           /\ \/ Forget(p)
              \/ /\ pc'[p] \notin {"idle", "hydrated"} /\ intent'[p] = intent[p]
                 /\ pc[p] \in {"list", "load"} => pc'[p] \in {"list", "load", "loaded"}
                 /\ pc[p] # "loaded"
                 /\ latest'[p] \in {latest[p], None} \cup {files[n] : n \in Verified}
<1> USE DEF TypeOK, StoreShape, Goto, localVars
<1>1. CASE SaveKnown(p) \/ SaveWrite(p) \/ SavePublish(p) \/ SaveTidy(p)
  BY <1>1 DEF SaveKnown, SaveWrite, SavePublish, SaveTidy
<1>2. CASE Forget(p)
  BY <1>2 DEF Forget
<1>3. CASE PruneList(p)
  BY <1>3 DEF PruneList
<1>4. CASE PruneUnlink(p)
  BY <1>4 DEF PruneUnlink
<1>5. CASE LoadList(p)
  BY <1>5 DEF LoadList
<1>6. CASE LoadSkip(p)
  BY <1>6 DEF LoadSkip
<1>7. CASE LoadFound(p)
  <2>1. Max(names[p]) \in Verified
    BY <1>7, NewestIn DEF LoadFound, Verified
  <2> QED BY <1>7, <2>1 DEF LoadFound
<1>8. CASE LoadNothing(p)
  BY <1>8 DEF LoadNothing
<1> QED BY <1>1, <1>2, <1>3, <1>4, <1>5, <1>6, <1>7, <1>8
        DEF StoreStep, SaveRefused, PruneMissing, PruneDone

LEMMA StoreWrites ==
    ASSUME TypeOK, NEW p \in Procs, StoreStep(p)
    PROVE  \/ files' = files
           \/ files' = [files EXCEPT ![Max(names[p])] = NoFile]
           \/ files' = [files EXCEPT ![SequenceOf(intent[p])] = intent[p]]
BY DEF StoreStep, SaveKnown, SaveWrite, SavePublish, SaveTidy, SaveRefused, PruneList, PruneUnlink,
       PruneMissing, PruneDone, LoadList, LoadSkip, LoadFound, LoadNothing, diskVars

\* The files match a log that is the same or longer, or whose end a failing
\* machine has lost.
LEMMA SameFiles ==
    ASSUME TypeOK, NEW n \in Sequences, FileMatches(n), files'[n] = files[n],
           \/ log' = log /\ losses' = losses
           \/ losses' = losses /\ \E e \in Procs : log' = Append(log, e)
           \/ losses' # 0
    PROVE  FileMatches(n)'
<1>1. CASE log' = log /\ losses' = losses
  BY <1>1 DEF FileMatches, Begins
<1>2. ASSUME NEW e \in Procs, losses' = losses, log' = Append(log, e)
      PROVE  FileMatches(n)'
  <2>1. SUFFICES ASSUME files[n] \notin {NoFile, Corrupt}
                 PROVE  losses = 0 => Begins(files[n].hash, Append(log, e))
    BY <1>2 DEF FileMatches, Begins
  <2>2. files[n].hash \in Seq(Procs) /\ log \in Seq(Procs)
    BY <2>1 DEF TypeOK, StoreShape, JournalShape, Snapshot
  <2> QED BY <2>1, <2>2, BeginsLonger DEF FileMatches
<1>3. CASE losses' # 0
  BY <1>3 DEF FileMatches
<1> QED BY <1>1, <1>2, <1>3

\* Only p acts, and neither the log nor a file changes.
Others(p) ==
    \A q \in Procs \ {p} :
        /\ pc'[q] = pc[q] /\ phase'[q] = phase[q] /\ seen'[q] = seen[q] /\ state'[q] = state[q]
        /\ intent'[q] = intent[q] /\ latest'[q] = latest[q]

LEMMA OnlyOneActs ==
    ASSUME TypeOK, ReplayInv, NEW p \in Procs, Others(p), Replays(p)',
           log' = log, files' = files, losses' = losses
    PROVE  ReplayInv'
<1>1. ASSUME NEW q \in Procs PROVE Replays(q)'
  <2>1. CASE q = p
    BY <2>1
  <2>2. CASE q # p
    BY <2>2, SameReplays DEF Others, ReplayInv
  <2> QED BY <2>1, <2>2
<1>2. ASSUME NEW n \in Sequences PROVE FileMatches(n)'
  BY <1>2, SameFiles DEF ReplayInv
<1>3. Len(log') <= MaxSequence
  BY DEF ReplayInv
<1> QED BY <1>1, <1>2, <1>3 DEF ReplayInv

LEMMA ForgetsReplays ==
    ASSUME TypeOK, TypeOK', ReplayInv, NEW p \in Procs, Over(p),
           log' = log, files' = files, losses' = losses
    PROVE  ReplayInv'
<1>1. Others(p)
  BY DEF Over, Forget, ForgetReplay, Others, TypeOK, StoreShape, CallShape
<1>2. Replays(p)'
  BY ForgottenReplays DEF Over, Forget, ForgetReplay, TypeOK, StoreShape, CallShape
<1> QED BY <1>1, <1>2, OnlyOneActs

LEMMA OperateReplays ==
    ASSUME TypeOK, TypeOK', Exclusive, ReplayInv, NEW p \in Procs, Operate(p)
    PROVE  ReplayInv'
<1> DEFINE h == latest[p].hash
<1>1. /\ Replays(p) /\ Len(log) <= MaxSequence
      /\ log \in Seq(Procs) /\ Len(log) \in Nat
      /\ seen[p] \in Seq(Procs) /\ Len(seen[p]) \in Nat /\ h \in Seq(Procs)
  BY SequenceLength DEF ReplayInv, TypeOK, StoreShape, JournalShape, CallShape, Snapshot
<1>2. CASE Fail(p)
  BY <1>2, ForgetsReplays DEF Fail, diskVars, journalVars, envVars
<1>3. CASE Conflict(p)
  BY <1>3, ForgetsReplays DEF Conflict, diskVars, envVars
<1>4. CASE Submit(p) \/ Checkpoint(p)
  <2>1. Others(p) /\ log' = log /\ files' = files /\ losses' = losses
    BY <1>4 DEF Submit, Checkpoint, Start, Goto, Others, TypeOK, StoreShape, CallShape,
                diskVars, localVars, journalVars, replayVars, envVars
  <2>2. Replays(p)'
    BY <1>1, <1>4 DEF Submit, Checkpoint, Start, Goto, Replays, Begins, Appending, TypeOK,
                      StoreShape, CallShape, localVars, journalVars, replayVars
  <2> QED BY <2>1, <2>2, OnlyOneActs
<1>5. CASE ReadJournal(p)
  <2>1. Others(p) /\ log' = log /\ files' = files /\ losses' = losses
    BY <1>5 DEF ReadJournal, Goto, Others, TypeOK, StoreShape, CallShape,
                diskVars, localVars, journalVars, envVars
  <2>2. Begins(seen[p], log)'
    BY <1>1, <1>5, BeginsSelf DEF ReadJournal, TypeOK, CallShape, journalVars
  <2>3. Replays(p)'
    BY <1>1, <1>5, <2>2 DEF ReadJournal, Goto, Replays, Begins, Appending, TypeOK,
                            StoreShape, CallShape, localVars, journalVars
  <2> QED BY <2>1, <2>3, OnlyOneActs
<1>6. CASE Replay(p)
  <2>1. Others(p) /\ log' = log /\ files' = files /\ losses' = losses
    BY <1>6 DEF Replay, Goto, Others, TypeOK, StoreShape, CallShape,
                diskVars, journalVars, envVars
  <2>2. Begins(h, seen[p])
    BY <1>1, <1>6, BeginningIsPrefix DEF Replay, Anchored, SequenceOf
  <2>3. state'[p] = seen[p]
    <3>1. state'[p] = h \o SubSeq(seen[p], Len(h) + 1, Len(seen[p]))
      BY <1>1, <1>6 DEF Replay, SequenceOf, Replays, TypeOK, CallShape
    <3> HIDE DEF h
    <3> QED BY <1>1, <2>2, <3>1, Resumed
  <2>4. latest'[p] = None /\ intent' = intent /\ seen' = seen /\ phase' = phase /\ pc'[p] = "hydrated"
    BY <1>6 DEF Replay, Goto, TypeOK, StoreShape
  <2>5. Replays(p)'
    BY <1>1, <1>6, <2>1, <2>3, <2>4 DEF Replay, Replays, Begins, Appending, None
  <2> QED BY <2>1, <2>5, OnlyOneActs
<1>7. CASE Lock(p)
  <2>1. Others(p) /\ log' = log /\ files' = files /\ losses' = losses
    BY <1>7 DEF Lock, Goto, Others, TypeOK, StoreShape, CallShape,
                diskVars, localVars, replayVars, envVars
  <2>2. Replays(p)'
    BY <1>1, <1>7 DEF Lock, Goto, Replays, Begins, Appending, TypeOK, StoreShape, CallShape,
                      localVars, replayVars
  <2> QED BY <2>1, <2>2, OnlyOneActs
<1>8. CASE BeginWrite(p)
  <2>1. Others(p) /\ log' = log /\ files' = files /\ losses' = losses
    BY <1>8 DEF BeginWrite, Goto, Others, TypeOK, StoreShape, CallShape,
                diskVars, localVars, replayVars, envVars
  <2>2. log = seen[p] /\ Len(log) < MaxSequence
    BY <1>1, <1>8, BeginsWhole DEF BeginWrite, Replays
  <2>3. Replays(p)'
    BY <1>1, <1>8, <2>2 DEF BeginWrite, Goto, Replays, Begins, Appending, TypeOK, StoreShape,
                            CallShape, localVars, replayVars
  <2> QED BY <2>1, <2>3, OnlyOneActs
<1>9. CASE EndWrite(p)
  <2>1. /\ Others(p) /\ log' = Append(log, p) /\ files' = files /\ losses' = losses
        /\ pc[p] = "end" /\ pc'[p] = "sync"
        /\ UNCHANGED <<seen, state, phase, intent, latest>>
    BY <1>9 DEF EndWrite, Goto, Others, TypeOK, StoreShape, CallShape,
                diskVars, replayVars, envVars
  <2>2. log = seen[p] /\ state[p] = seen[p] /\ Len(log) < MaxSequence
    BY <1>1, <2>1 DEF Replays, Appending
  <2>3. Len(log') = Len(log) + 1
    BY <1>1, <2>1, AppendProperties
  <2>4. Len(log') <= MaxSequence
    BY <1>1, <2>2, <2>3, SnapshotConstants
  <2>5. Begins(seen[p], Append(log, p)) /\ Begins(intent[p].hash, Append(log, p))
    BY <1>1, BeginsLonger DEF Replays, TypeOK, StoreShape, Snapshot
  <2>6. Begins(seen[p], log)' /\ Begins(intent[p].hash, log)'
    BY <2>1, <2>5 DEF Begins
  <2>7. Replays(p)'
    BY <1>1, <2>1, <2>2, <2>6 DEF Replays, Appending
  <2>8. ASSUME NEW q \in Procs \ {p} PROVE Replays(q)'
    <3>1. pc[q] \notin {"end", "sync"}
      BY <2>1 DEF Exclusive, Appending
    <3> QED BY <2>1, <3>1, LongerReplays DEF ReplayInv, Others
  <2>9. ASSUME NEW n \in Sequences PROVE FileMatches(n)'
    BY <2>1, SameFiles DEF ReplayInv
  <2> QED BY <2>4, <2>7, <2>8, <2>9 DEF ReplayInv
<1>10. CASE Commit(p)
  <2>1. Others(p) /\ log' = log /\ files' = files /\ losses' = losses
    BY <1>10 DEF Commit, Goto, Others, TypeOK, StoreShape, CallShape,
                 diskVars, localVars, envVars
  <2>2. Begins(seen[p], log)'
    BY <1>1, <1>10, <2>1, BeginsNothing DEF Commit, TypeOK, CallShape
  <2>3. Replays(p)'
    BY <1>1, <1>10, <2>1, <2>2 DEF Commit, Goto, Replays, Begins, Appending, TypeOK, StoreShape,
                                   CallShape, localVars
  <2> QED BY <2>1, <2>3, OnlyOneActs
<1>11. CASE Maybe(p)
  <2>1. Others(p) /\ log' = log /\ files' = files /\ losses' = losses
    BY <1>11 DEF Maybe, Goto, Others, TypeOK, StoreShape, CallShape,
                 diskVars, localVars, journalVars, replayVars, envVars
  <2>2. Replays(p)'
    BY <1>1, <1>11, <2>1 DEF Maybe, Goto, Replays, Begins, Appending, TypeOK, StoreShape,
                             CallShape, localVars, replayVars
  <2> QED BY <2>1, <2>2, OnlyOneActs
<1>12. CASE Save(p)
  <2>1. Others(p) /\ log' = log /\ files' = files /\ losses' = losses
    BY <1>12 DEF Save, Goto, ForgetReplay, Others, TypeOK, StoreShape, CallShape,
                 diskVars, journalVars, envVars
  <2>2. state[p] = seen[p]
    BY <1>1, <1>12 DEF Save, Goto, Replays
  <2>3. /\ intent'[p] = [hash |-> seen[p], state |-> seen[p]] /\ latest'[p] = None
        /\ seen'[p] = << >> /\ phase'[p] = "none" /\ pc'[p] = "save"
    BY <1>12, <2>2 DEF Save, Goto, ForgetReplay, TypeOK, StoreShape, CallShape
  <2>4. Begins(seen[p], log)' /\ Begins(intent[p].hash, log)'
    BY <1>1, <2>1, <2>3, BeginsNothing DEF Replays, Begins
  <2>5. Replays(p)'
    BY <2>3, <2>4 DEF Replays, Appending, None
  <2> QED BY <2>1, <2>5, OnlyOneActs
<1> QED BY <1>2, <1>3, <1>4, <1>5, <1>6, <1>7, <1>8, <1>9, <1>10, <1>11, <1>12
        DEF Operate, ReadFails, ReplayFails, Reject, NotYet

LEMMA StoreReplays ==
    ASSUME TypeOK, TypeOK', ReplayInv, NEW p \in Procs, Store(p)
    PROVE  ReplayInv'
<1>1. log' = log /\ losses' = losses
  BY DEF Store, journalVars, envVars
<1>2. Others(p)
  <2>1. \A q \in Procs \ {p} : phase'[q] = phase[q] /\ seen'[q] = seen[q] /\ state'[q] = state[q]
    BY DEF Store, ForgetReplay, TypeOK, CallShape
  <2>2. StoreStep(p)
    BY DEF Store
  <2> QED BY <2>1, <2>2, StoreKnows, StorePart DEF Others
<1>3. Replays(p)'
  <2>1. StoreStep(p) /\ Replays(p)
    BY DEF Store, ReplayInv
  <2>2. CASE Forget(p)
    <3>1. pc'[p] = "idle" /\ intent'[p] = None /\ latest'[p] = None
      BY <2>2 DEF Forget, TypeOK, StoreShape
    <3>2. phase'[p] = "none" /\ seen'[p] = << >>
      BY <3>1 DEF Store, ForgetReplay, TypeOK, CallShape
    <3> QED BY <3>1, <3>2, ForgottenReplays
  <2>3. CASE ~Forget(p)
    <3>1. /\ pc'[p] \notin {"idle", "hydrated"} /\ intent'[p] = intent[p]
          /\ pc[p] \in {"list", "load"} => pc'[p] \in {"list", "load", "loaded"}
          /\ pc[p] # "loaded"
          /\ latest'[p] \in {latest[p], None} \cup {files[n] : n \in Verified}
          /\ pc'[p] \notin Appending
      BY <2>1, <2>3, StoreKnows, StorePart
    <3>2. latest'[p].state = latest'[p].hash
      BY <2>1, <3>1 DEF ReplayInv, Replays, FileMatches, Verified, None
    <3>3. UNCHANGED <<phase, seen, state>>
      BY <3>1 DEF Store
    <3>4. Begins(seen[p], log)' /\ Begins(intent[p].hash, log)'
      BY <1>1, <2>1, <3>1, <3>3 DEF Replays, Begins
    <3> QED BY <1>1, <2>1, <3>1, <3>2, <3>3, <3>4 DEF Replays, Appending
  <2> QED BY <2>2, <2>3
<1>4. ASSUME NEW q \in Procs PROVE Replays(q)'
  <2>1. CASE q = p
    BY <1>3, <2>1
  <2>2. CASE q # p
    BY <1>1, <1>2, <2>2, SameReplays DEF Others, ReplayInv
  <2> QED BY <2>1, <2>2
<1>5. ASSUME NEW n \in Sequences PROVE FileMatches(n)'
  <2>1. CASE files'[n] = files[n]
    BY <1>1, <2>1, SameFiles DEF ReplayInv
  <2>2. CASE files'[n] = NoFile
    BY <2>2 DEF FileMatches
  <2>3. CASE n = SequenceOf(intent[p]) /\ files'[n] = intent[p]
    <3>1. Replays(p)
      BY DEF ReplayInv
    <3> QED BY <1>1, <2>3, <3>1 DEF Replays, FileMatches, SequenceOf, Begins
  <2>4. StoreStep(p)
    BY DEF Store
  <2> QED BY <2>1, <2>2, <2>3, <2>4, StoreWrites DEF TypeOK, StoreShape
<1> QED BY <1>1, <1>4, <1>5 DEF ReplayInv

\* A machine that has failed has forgotten all calls, and promises nothing of
\* the files.
LEMMA LossReplays ==
    ASSUME TypeOK, TypeOK', ReplayInv, PowerLoss
    PROVE  ReplayInv'
<1>1. ASSUME NEW p \in Procs PROVE Replays(p)'
  BY ForgottenReplays DEF PowerLoss
<1>2. losses' # 0 /\ files' = files
  BY DEF PowerLoss, TypeOK, CallShape
<1>3. ASSUME NEW n \in Sequences PROVE FileMatches(n)'
  BY <1>2, SameFiles DEF ReplayInv
<1>4. Len(log') <= MaxSequence
  <2>1. PICK n \in flushed .. Len(log) : log' = SubSeq(log, 1, n)
    BY DEF PowerLoss
  <2>2. /\ log \in Seq(Procs) /\ Len(log) \in Nat /\ flushed \in Nat /\ n \in Nat /\ n <= Len(log)
        /\ \A i \in 1 .. n : log[i] \in Procs
    BY ElementOfSeq DEF TypeOK, JournalShape
  <2>3. Len(SubSeq(log, 1, n)) = IF 1 <= n THEN n - 1 + 1 ELSE 0
    BY <2>2, SubSeqProperties
  <2>4. Len(log') = n
    BY <2>1, <2>2, <2>3
  <2> QED BY <2>2, <2>4, SnapshotConstants DEF ReplayInv
<1> QED BY <1>1, <1>3, <1>4 DEF ReplayInv

THEOREM Replayed == Spec => []ReplayInv
<1>1. Init => ReplayInv
  <2> SUFFICES ASSUME Init PROVE ReplayInv
    OBVIOUS
  <2>1. ASSUME NEW p \in Procs PROVE Replays(p)
    BY DEF Init, StoreInit, Replays, Begins, None, Appending
  <2>2. ASSUME NEW n \in Sequences PROVE FileMatches(n)
    BY DEF Init, StoreInit, FileMatches
  <2> QED BY <2>1, <2>2, SnapshotConstants DEF Init, ReplayInv
<1>2. TypeOK /\ TypeOK' /\ Exclusive /\ ReplayInv /\ [Next]_vars => ReplayInv'
  <2> SUFFICES ASSUME TypeOK, TypeOK', Exclusive, ReplayInv, [Next]_vars PROVE ReplayInv'
    OBVIOUS
  <2>1. ASSUME NEW p \in Procs, CallFails(p) PROVE ReplayInv'
    BY <2>1, ForgetsReplays DEF CallFails, StoreFails, Over, diskVars, journalVars, envVars
  <2>2. ASSUME NEW p \in Procs, Crash(p) PROVE ReplayInv'
    BY <2>2, ForgetsReplays DEF Crash, StoreCrash, Over
  <2>3. CASE Damage
    <3>1. PICK n \in Verified : files' = [files EXCEPT ![n] = Corrupt]
      BY <2>3 DEF Damage
    <3>2. ASSUME NEW m \in Sequences PROVE FileMatches(m)'
      <4>1. CASE files'[m] = files[m]
        BY <2>3, <4>1, SameFiles DEF Damage, journalVars, ReplayInv
      <4>2. CASE files'[m] = Corrupt
        BY <4>2 DEF FileMatches
      <4> QED BY <3>1, <4>1, <4>2 DEF TypeOK, StoreShape
    <3>3. ASSUME NEW p \in Procs PROVE Replays(p)'
      BY <2>3, SameReplays DEF Damage, localVars, journalVars, replayVars, ReplayInv
    <3> QED BY <2>3, <3>2, <3>3 DEF ReplayInv, Damage, journalVars
  <2>4. CASE UNCHANGED <<log, files, losses, pc, localVars, replayVars, phase>>
    <3>1. ASSUME NEW p \in Procs PROVE Replays(p)'
      BY <2>4, SameReplays DEF localVars, replayVars, ReplayInv
    <3>2. ASSUME NEW n \in Sequences PROVE FileMatches(n)'
      BY <2>4, SameFiles DEF ReplayInv
    <3> QED BY <2>4, <3>1, <3>2 DEF ReplayInv
  <2>5. CASE RecoverTrailing \/ UNCHANGED vars
             \/ (Cleanup /\ UNCHANGED <<journalVars, replayVars, phase, envVars>>)
    BY <2>4, <2>5 DEF RecoverTrailing, Cleanup, vars, storeVars, diskVars, journalVars, envVars
  <2> QED BY <2>1, <2>2, <2>3, <2>5, OperateReplays, StoreReplays, LossReplays DEF Next
<1> QED BY <1>1, <1>2, TypeCorrect, Alone, PTL DEF Spec

\* Whatever snapshot a hydrate starts from, and whatever is saved, pruned and
\* appended meanwhile, the state it returns is that of the events it read.
THEOREM Hydration == Spec => []HydrateIsReplay
<1>1. ReplayInv => HydrateIsReplay
  BY DEF ReplayInv, Replays, HydrateIsReplay, Appending
<1> QED BY <1>1, Replayed, PTL

\* An event is committed behind the very state the reducer has accepted it
\* against, although that check runs outside the lock.
THEOREM Commits == Spec => []CommitsWhatItChecked
<1>1. ReplayInv => CommitsWhatItChecked
  BY DEF ReplayInv, Replays, CommitsWhatItChecked
<1> QED BY <1>1, Replayed, PTL

\* Every valid snapshot stands at its place in the journal and carries the
\* state of the events up to it, while the machine does not fail.
THEOREM Anchorage == Spec => []SnapshotsAnchored
<1>1. ASSUME TypeOK, ReplayInv, losses = 0, NEW n \in Verified
      PROVE  /\ SequenceOf(files[n]) = n
             /\ Anchored(files[n], log)
             /\ files[n].state = files[n].hash
  <2>1. n \in Sequences /\ files[n] \notin {NoFile, Corrupt}
    BY DEF Verified
  <2>2. /\ Len(files[n].hash) = n /\ files[n].state = files[n].hash
        /\ Begins(files[n].hash, log)
    BY <1>1, <2>1 DEF ReplayInv, FileMatches
  <2>3. files[n].hash \in Seq(Procs) /\ log \in Seq(Procs)
    BY <1>1, <2>1 DEF TypeOK, StoreShape, JournalShape, Snapshot
  <2>4. Len(files[n].hash) <= Len(log) /\ files[n].hash = SubSeq(log, 1, Len(files[n].hash))
    BY <2>2, <2>3, BeginningIsPrefix DEF Begins
  <2> QED BY <2>2, <2>4 DEF Anchored, SequenceOf
<1>2. TypeOK /\ ReplayInv => SnapshotsAnchored
  BY <1>1 DEF SnapshotsAnchored, SnapshotsMatchJournal
<1> QED BY <1>2, TypeCorrect, Replayed, PTL

-----------------------------------------------------------------------------
(* Pruning and cleaning up                                                 *)

\* Behind every file a process is about to prune there is a newer one, and only
\* the medium damages files.
Newer(n) == \E m \in Sequences : m > n /\ files[m] # NoFile

PruneInv ==
    /\ \A p \in Procs : pc[p] = "unlink" => \A n \in names[p] : Newer(n)
    /\ damages = 0 => \A n \in Sequences : files[n] # Corrupt

\* The list of a process that begins to prune leaves out at least the newest.
LEMMA BeyondHasNewer ==
    ASSUME NEW n \in Beyond(Listed)
    PROVE  Newer(n)
<1> DEFINE later == {m \in Listed : m > n}
<1>1. Cardinality(later) >= MaximumSnapshots
  BY DEF Beyond
<1>2. later # {}
  BY <1>1, FS_EmptySet, SnapshotConstants
<1> QED BY <1>2 DEF Listed, Newer

\* What one step of the store removes is the file a prune has come to.
LEMMA StoreRemoves ==
    ASSUME TypeOK, NEW p \in Procs, StoreStep(p)
    PROVE  \/ /\ pc[p] = "unlink" /\ Max(names[p]) \in names[p]
              /\ files' = [files EXCEPT ![Max(names[p])] = NoFile]
           \/ \A m \in Sequences : files'[m] \in {files[m]} \cup Snapshot
<1>1. CASE PruneUnlink(p)
  <2>1. Max(names[p]) \in names[p]
    BY <1>1, NewestIn DEF PruneUnlink, TypeOK, StoreShape
  <2> QED BY <1>1, <2>1 DEF PruneUnlink
<1>2. CASE SavePublish(p)
  BY <1>2 DEF SavePublish, TypeOK, StoreShape
<1>3. CASE files' = files
  BY <1>3
<1> QED BY <1>1, <1>2, <1>3
        DEF StoreStep, SaveKnown, SaveWrite, SaveTidy, SaveRefused, PruneList, PruneMissing,
            PruneDone, LoadList, LoadSkip, LoadFound, LoadNothing, diskVars

\* So a newer file than n stays while files are pruned.
LEMMA NewerStays ==
    ASSUME TypeOK, PruneInv, NEW p \in Procs, StoreStep(p), NEW n \in Sequences, Newer(n)
    PROVE  Newer(n)'
<1>1. PICK m \in Sequences : m > n /\ files[m] # NoFile
  BY DEF Newer
<1>2. CASE \A l \in Sequences : files'[l] \in {files[l]} \cup Snapshot
  BY <1>1, <1>2, FileConstants DEF Newer
<1>3. CASE /\ pc[p] = "unlink" /\ Max(names[p]) \in names[p]
           /\ files' = [files EXCEPT ![Max(names[p])] = NoFile]
  <2> DEFINE k == Max(names[p])
  <2>1. k \in names[p] /\ k \in Sequences
    BY <1>3 DEF TypeOK, StoreShape
  <2>2. PICK l \in Sequences : l > k /\ files[l] # NoFile
    BY <1>3, <2>1 DEF PruneInv, Newer
  <2> HIDE DEF k
  <2>3. k \in Int /\ l \in Int /\ n \in Int /\ m \in Int
    BY <2>1, SnapshotConstants DEF Sequences
  <2>4. files'[l] = files[l]
    BY <1>3, <2>1, <2>2, <2>3 DEF k, TypeOK, StoreShape
  <2>5. CASE m = k
    BY <1>1, <2>2, <2>3, <2>4, <2>5 DEF Newer
  <2>6. CASE m # k
    BY <1>1, <1>3, <2>1, <2>6 DEF k, Newer, TypeOK, StoreShape
  <2> QED BY <2>5, <2>6
<1> QED BY <1>2, <1>3, StoreRemoves

\* A step of the store begins a prune, goes on with one or has none.
LEMMA StoreNames ==
    ASSUME TypeOK, NEW p \in Procs, StoreStep(p), pc'[p] = "unlink"
    PROVE  \/ names'[p] = Beyond(Listed) /\ files' = files
           \/ pc[p] = "unlink" /\ names'[p] \subseteq names[p]
<1> USE DEF TypeOK, StoreShape, Goto, Forget
<1>1. CASE PruneList(p)
  BY <1>1 DEF PruneList, diskVars
<1>2. CASE PruneUnlink(p)
  BY <1>2 DEF PruneUnlink
<1>3. CASE LoadSkip(p)
  BY <1>3 DEF LoadSkip
<1> QED BY <1>1, <1>2, <1>3
        DEF StoreStep, SaveKnown, SaveWrite, SavePublish, SaveTidy, SaveRefused, PruneMissing,
            PruneDone, LoadList, LoadFound, LoadNothing

LEMMA OtherNames ==
    ASSUME TypeOK, NEW p \in Procs, StoreStep(p), NEW q \in Procs \ {p}
    PROVE  names'[q] = names[q]
BY DEF TypeOK, StoreShape, Forget, StoreStep, SaveKnown, SaveWrite, SavePublish, SaveTidy,
       SaveRefused, PruneList, PruneUnlink, PruneMissing, PruneDone, LoadList, LoadSkip, LoadFound,
       LoadNothing, localVars

LEMMA StorePrunes ==
    ASSUME TypeOK, PruneInv, NEW p \in Procs, Store(p)
    PROVE  PruneInv'
<1>1. StoreStep(p) /\ damages' = damages
  BY DEF Store, envVars
<1>2. ASSUME NEW q \in Procs, pc'[q] = "unlink", NEW n \in names'[q]
      PROVE  Newer(n)'
  <2>1. CASE q # p
    <3>1. pc[q] = "unlink" /\ n \in names[q] /\ n \in Sequences
      BY <1>1, <1>2, <2>1, OtherNames, StorePart DEF TypeOK, StoreShape
    <3> QED BY <1>1, <3>1, NewerStays DEF PruneInv
  <2>2. CASE q = p
    <3>1. CASE names'[p] = Beyond(Listed) /\ files' = files
      <4>1. Newer(n)
        BY <1>2, <2>2, <3>1, BeyondHasNewer
      <4> QED BY <3>1, <4>1 DEF Newer
    <3>2. CASE pc[p] = "unlink" /\ names'[p] \subseteq names[p]
      <4>1. n \in names[p] /\ n \in Sequences
        BY <1>2, <2>2, <3>2 DEF TypeOK, StoreShape
      <4> QED BY <1>1, <3>2, <4>1, NewerStays DEF PruneInv
    <3> QED BY <1>1, <1>2, <2>2, <3>1, <3>2, StoreNames
  <2> QED BY <2>1, <2>2
<1>3. ASSUME damages' = 0, NEW n \in Sequences PROVE files'[n] # Corrupt
  <2>1. files[n] # Corrupt
    BY <1>1, <1>3 DEF PruneInv
  <2> QED BY <1>1, <2>1, StoreRemoves, FileConstants DEF TypeOK, StoreShape
<1> QED BY <1>2, <1>3 DEF PruneInv

\* Every other step ends prunes or leaves them alone; only the medium damages.
LEMMA OthersPrune ==
    ASSUME TypeOK, PruneInv,
           \A p \in Procs : pc'[p] = "unlink" => pc[p] = "unlink" /\ names'[p] = names[p],
           \/ files' = files /\ damages' = damages
           \/ damages' # 0 /\ \E n \in Sequences : files' = [files EXCEPT ![n] = Corrupt]
    PROVE  PruneInv'
<1>1. ASSUME NEW n, Newer(n) PROVE Newer(n)'
  BY <1>1, FileConstants DEF Newer, TypeOK, StoreShape
<1>2. ASSUME damages' = 0 PROVE \A n \in Sequences : files'[n] # Corrupt
  BY <1>2 DEF PruneInv
<1> QED BY <1>1, <1>2 DEF PruneInv

THEOREM Pruned == Spec => []PruneInv
<1>1. Init => PruneInv
  BY FileConstants DEF Init, StoreInit, PruneInv
<1>2. TypeOK /\ PruneInv /\ [Next]_vars => PruneInv'
  <2> SUFFICES ASSUME TypeOK, PruneInv, [Next]_vars PROVE PruneInv'
    OBVIOUS
  <2> DEFINE Keeps == \A p \in Procs : pc'[p] = "unlink" => pc[p] = "unlink" /\ names'[p] = names[p]
  <2>1. ASSUME NEW p \in Procs, Forget(p) PROVE Keeps
    BY <2>1 DEF Forget, TypeOK, StoreShape
  <2>2. ASSUME NEW p \in Procs, Operate(p)
        PROVE  Keeps /\ files' = files /\ damages' = damages
    <3>1. CASE Fail(p) \/ Conflict(p)
      BY <2>1, <3>1 DEF Fail, Conflict, Over, diskVars, envVars
    <3>2. CASE Submit(p) \/ Checkpoint(p) \/ ReadJournal(p) \/ Replay(p) \/ Lock(p)
               \/ BeginWrite(p) \/ EndWrite(p) \/ Commit(p) \/ Maybe(p)
      BY <3>2 DEF Submit, Checkpoint, Start, ReadJournal, Replay, Lock, BeginWrite, EndWrite,
                  Commit, Maybe, Goto, TypeOK, StoreShape, diskVars, localVars, envVars
    <3>3. CASE Save(p)
      BY <3>3 DEF Save, Goto, TypeOK, StoreShape, diskVars, envVars
    <3> QED BY <2>2, <3>1, <3>2, <3>3 DEF Operate, ReadFails, ReplayFails, Reject, NotYet
  <2>3. ASSUME NEW p \in Procs, CallFails(p)
        PROVE  Keeps /\ files' = files /\ damages' = damages
    BY <2>1, <2>3 DEF CallFails, StoreFails, Over, diskVars, envVars
  <2>4. ASSUME NEW p \in Procs, Crash(p)
        PROVE  Keeps /\ files' = files /\ damages' = damages
    BY <2>1, <2>4 DEF Crash, StoreCrash
  <2>5. CASE PowerLoss
    <3>1. Keeps /\ files' = files /\ damages' = damages
      BY <2>5 DEF PowerLoss
    <3> QED BY <3>1, OthersPrune
  <2>6. CASE Damage
    <3>1. Keeps /\ damages' # 0
      BY <2>6 DEF Damage, localVars, TypeOK, CallShape
    <3>2. \E n \in Sequences : files' = [files EXCEPT ![n] = Corrupt]
      BY <2>6 DEF Damage, Verified
    <3> QED BY <3>1, <3>2, OthersPrune
  <2>7. CASE RecoverTrailing \/ UNCHANGED vars
             \/ (Cleanup /\ UNCHANGED <<journalVars, replayVars, phase, envVars>>)
    <3>1. Keeps /\ files' = files /\ damages' = damages
      BY <2>7 DEF RecoverTrailing, Cleanup, vars, storeVars, diskVars, localVars, envVars
    <3> QED BY <3>1, OthersPrune
  <2> HIDE DEF Keeps
  <2>8. CASE Keeps /\ files' = files /\ damages' = damages
    BY <2>8, OthersPrune DEF Keeps
  <2> QED BY <2>2, <2>3, <2>4, <2>5, <2>6, <2>7, <2>8, StorePrunes DEF Next
<1> QED BY <1>1, <1>2, TypeCorrect, PTL DEF Spec

\* Pruning by several processes never takes the newest valid snapshot.
THEOREM NewestKept == Spec => NewestSnapshotKept
<1>1. ASSUME TypeOK, PruneInv, [Next]_vars, damages' = 0, NEW n \in Verified
      PROVE  \E m \in Sequences : m >= n /\ files'[m] \notin {NoFile, Corrupt}
  <2>1. n \in Sequences /\ n \in Int /\ files[n] \notin {NoFile, Corrupt}
    BY SnapshotConstants DEF Verified, Sequences
  <2>2. CASE files'[n] = files[n]
    BY <2>1, <2>2
  <2>3. ASSUME NEW p \in Procs, StoreStep(p), damages = 0, files'[n] # files[n]
        PROVE  \E m \in Sequences : m >= n /\ files'[m] \notin {NoFile, Corrupt}
    <3>1. CASE \A m \in Sequences : files'[m] \in {files[m]} \cup Snapshot
      BY <2>1, <2>3, <3>1, FileConstants
    <3>2. CASE /\ pc[p] = "unlink" /\ Max(names[p]) \in names[p]
               /\ files' = [files EXCEPT ![Max(names[p])] = NoFile]
      <4>1. n = Max(names[p])
        BY <1>1, <2>1, <2>3, <3>2 DEF TypeOK, StoreShape
      <4>2. PICK m \in Sequences : m > n /\ files[m] # NoFile
        BY <1>1, <3>2, <4>1 DEF PruneInv, Newer
      <4>3. m \in Int /\ files[m] # Corrupt
        BY <1>1, <2>3, SnapshotConstants DEF PruneInv, Sequences
      <4>4. files'[m] = files[m] /\ m >= n
        BY <1>1, <2>1, <3>2, <4>1, <4>2, <4>3 DEF TypeOK, StoreShape
      <4> QED BY <4>2, <4>3, <4>4
    <3> QED BY <1>1, <2>3, <3>1, <3>2, StoreRemoves
  <2>4. files' = files \/ (damages' = damages /\ \E p \in Procs : StoreStep(p)) \/ damages' # 0
    <3>1. ASSUME NEW p \in Procs, Operate(p) PROVE files' = files
      BY <3>1 DEF Operate, Submit, Checkpoint, Start, ReadJournal, ReadFails, Replay, ReplayFails,
                  Reject, Lock, Conflict, BeginWrite, EndWrite, Commit, Maybe, NotYet, Save, Fail,
                  diskVars
    <3>2. ASSUME NEW p \in Procs, Store(p) PROVE damages' = damages /\ StoreStep(p)
      BY <3>2 DEF Store, envVars
    <3>3. ASSUME NEW p \in Procs, CallFails(p) \/ Crash(p) PROVE files' = files
      BY <3>3 DEF CallFails, StoreFails, Crash, StoreCrash, diskVars
    <3>4. CASE Damage
      BY <1>1, <3>4 DEF Damage, TypeOK, CallShape
    <3>5. CASE RecoverTrailing \/ PowerLoss \/ Cleanup \/ UNCHANGED vars
      BY <3>5 DEF RecoverTrailing, PowerLoss, Cleanup, vars, storeVars, diskVars
    <3> QED BY <1>1, <3>1, <3>2, <3>3, <3>4, <3>5 DEF Next
  <2> QED BY <1>1, <2>1, <2>2, <2>3, <2>4
<1>2. TypeOK /\ PruneInv /\ [Next]_vars =>
          [damages' = 0 =>
             \A n \in Verified : \E m \in Sequences : m >= n /\ files'[m] \notin {NoFile, Corrupt}]_vars
  BY <1>1
<1> QED BY <1>2, TypeCorrect, Pruned, PTL DEF Spec, NewestSnapshotKept

\* A save under way has its temporary file: other processes remove theirs, and
\* the cleanup those of processes that are gone.
THEOREM TempsKept == Spec => []RunningSaveKeepsTemp
<1>1. Init => RunningSaveKeepsTemp
  BY DEF Init, StoreInit, RunningSaveKeepsTemp
<1>2. TypeOK /\ RunningSaveKeepsTemp /\ [Next]_vars => RunningSaveKeepsTemp'
  <2> SUFFICES ASSUME TypeOK, RunningSaveKeepsTemp, [Next]_vars,
                      NEW q \in Procs, pc'[q] \in {"publish", "tidy"}
               PROVE  Temp(q)' \in temps'
    BY DEF RunningSaveKeepsTemp
  <2> USE DEF TypeOK, StoreShape, Goto
  <2>1. ASSUME pc[q] \in {"publish", "tidy"}, life'[q] = life[q],
               \A t \in temps : t.owner = q /\ t.life = life[q] => t \in temps'
        PROVE  Temp(q)' \in temps'
    BY <2>1 DEF RunningSaveKeepsTemp, Temp
  <2>2. ASSUME NEW p \in Procs, Forget(p), life' \in {life, [life EXCEPT ![p] = @ + 1]},
               temps' \in {temps, temps \ {Temp(p)}}
        PROVE  Temp(q)' \in temps'
    <3>1. q # p /\ pc[q] = pc'[q] /\ life'[q] = life[q]
      BY <2>2 DEF Forget
    <3>2. \A t \in temps : t.owner = q => t \in temps'
      BY <2>2, <3>1 DEF Temp
    <3> QED BY <2>1, <3>1, <3>2
  <2>3. ASSUME NEW p \in Procs, Operate(p) PROVE Temp(q)' \in temps'
    <3>1. CASE Fail(p) \/ Conflict(p)
      BY <2>2, <3>1 DEF Fail, Conflict, Over, diskVars
    <3>2. CASE Submit(p) \/ Checkpoint(p) \/ ReadJournal(p) \/ Replay(p) \/ Lock(p)
               \/ BeginWrite(p) \/ EndWrite(p) \/ Commit(p) \/ Maybe(p) \/ Save(p)
      BY <2>1, <3>2 DEF Submit, Checkpoint, Start, ReadJournal, Replay, Lock, BeginWrite, EndWrite,
                        Commit, Maybe, Save, diskVars
    <3> QED BY <2>3, <3>1, <3>2 DEF Operate, ReadFails, ReplayFails, Reject, NotYet
  <2>4. ASSUME NEW p \in Procs, Store(p) PROVE Temp(q)' \in temps'
    <3>1. StoreStep(p)
      BY <2>4 DEF Store
    <3>2. CASE SaveWrite(p)
      BY <2>1, <3>2 DEF SaveWrite, Temp
    <3>3. CASE SavePublish(p)
      BY <2>1, <3>3 DEF SavePublish
    <3>4. CASE SaveTidy(p)
      <4>1. q # p /\ pc'[q] = pc[q] /\ life' = life
        BY <3>4 DEF SaveTidy
      <4>2. \A t \in temps : t.owner = q => t \in temps'
        BY <3>4, <4>1 DEF SaveTidy, Temp
      <4> QED BY <2>1, <4>1, <4>2
    <3>5. CASE SaveRefused(p) \/ PruneMissing(p) \/ PruneDone(p)
      BY <2>2, <3>5 DEF SaveRefused, PruneMissing, PruneDone, diskVars
    <3>6. CASE SaveKnown(p) \/ PruneList(p) \/ PruneUnlink(p)
               \/ LoadList(p) \/ LoadSkip(p) \/ LoadFound(p) \/ LoadNothing(p)
      BY <2>1, <3>6 DEF SaveKnown, PruneList, PruneUnlink, LoadList, LoadSkip, LoadFound,
                        LoadNothing, diskVars
    <3> QED BY <3>1, <3>2, <3>3, <3>4, <3>5, <3>6 DEF StoreStep
  <2>5. ASSUME NEW p \in Procs, CallFails(p) PROVE Temp(q)' \in temps'
    BY <2>2, <2>5 DEF CallFails, StoreFails, Over, diskVars
  <2>6. ASSUME NEW p \in Procs, Crash(p) PROVE Temp(q)' \in temps'
    BY <2>2, <2>6 DEF Crash, StoreCrash
  <2>7. CASE Cleanup /\ UNCHANGED <<journalVars, replayVars, phase, envVars>>
    BY <2>1, <2>7 DEF Cleanup
  <2>8. CASE PowerLoss
    BY <2>8 DEF PowerLoss
  <2>9. CASE RecoverTrailing \/ Damage \/ UNCHANGED vars
    BY <2>1, <2>9 DEF RecoverTrailing, Damage, vars, storeVars, diskVars
  <2> QED BY <2>3, <2>4, <2>5, <2>6, <2>7, <2>8, <2>9 DEF Next
<1> QED BY <1>1, <1>2, TypeCorrect, PTL DEF Spec

-----------------------------------------------------------------------------
(* The log under PersistentAdaptiveMemory                                  *)

\* Whatever calls, crashes and recoveries do, the events are a log of which
\* nothing acknowledged is ever lost.
THEOREM Durability == Spec => CommitsAreDurable
<1>1. Init => Log!LogInit
  BY DEF Init, Log!LogInit
<1>2. TypeOK /\ [Next]_vars => [Log!LogNext]_<<log, acked>>
  <2> SUFFICES ASSUME TypeOK, [Next]_vars PROVE [Log!LogNext]_<<log, acked>>
    OBVIOUS
  <2>1. /\ Len(log) \in Nat /\ acked \in Nat /\ flushed \in Nat
        /\ acked <= flushed /\ flushed <= Len(log)
    BY DEF TypeOK, JournalShape
  <2>2. ASSUME NEW p \in Procs, EndWrite(p) PROVE Log!LogNext
    BY <2>2 DEF EndWrite, Log!LogNext, Log!Extend
  <2>3. ASSUME NEW p \in Procs, Commit(p) PROVE Log!LogNext
    BY <2>1, <2>3 DEF Commit, Log!LogNext, Log!Acknowledge
  <2>4. CASE PowerLoss
    <3>1. PICK n \in flushed .. Len(log) : log' = SubSeq(log, 1, n)
      BY <2>4 DEF PowerLoss
    <3>2. n \in acked .. Len(log) /\ UNCHANGED acked
      BY <2>1, <2>4 DEF PowerLoss
    <3> QED BY <3>1, <3>2 DEF Log!LogNext, Log!Lose
  <2>5. ASSUME NEW p \in Procs, Operate(p), ~EndWrite(p), ~Commit(p) PROVE UNCHANGED <<log, acked>>
    BY <2>5 DEF Operate, Submit, Checkpoint, Start, ReadJournal, ReadFails, Replay, ReplayFails,
                Reject, Lock, Conflict, BeginWrite, Maybe, NotYet, Save, Fail, journalVars
  <2>6. ASSUME NEW p \in Procs, Store(p) \/ CallFails(p) \/ Crash(p) PROVE UNCHANGED <<log, acked>>
    BY <2>6 DEF Store, CallFails, Crash, journalVars
  <2>7. CASE \/ RecoverTrailing \/ Damage \/ UNCHANGED vars
             \/ (Cleanup /\ UNCHANGED <<journalVars, replayVars, phase, envVars>>)
    BY <2>7 DEF RecoverTrailing, Damage, vars, journalVars
  <2> QED BY <2>2, <2>3, <2>4, <2>5, <2>6, <2>7 DEF Next
<1> QED BY <1>1, <1>2, TypeCorrect, PTL DEF Spec, CommitsAreDurable, Log!LogSpec
=============================================================================
