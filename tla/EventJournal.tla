---------------------------- MODULE EventJournal ----------------------------
(***************************************************************************)
(* The journal file of one stream: append, inspect and                     *)
(* recoverTrailingCorruption of FileEventJournal, under the stream lock    *)
(* (StreamMutex) and down to the single write, so that a failure can fall  *)
(* between any two of them.                                                *)
(*                                                                         *)
(* The file is a sequence of lines.  A line is "whole" (it parses and its  *)
(* own hashes match), "cut" (it is no JSON) or "altered" (it parses and a  *)
(* hash does not match).  SHA-256 is taken to have no collisions, so the   *)
(* hash of an event stands for the whole history up to it.                 *)
(***************************************************************************)
EXTENDS StreamMutex, Naturals, Sequences, FiniteSets

CONSTANTS
    Events,         \* payloads
    MaxBatch,       \* maxEventBatchSize
    Capacity,       \* maxJournalBytes, in lines
    Unchecked,      \* no expectedSequence given
    MaxDamages,     \* bound: lines the medium damages
    MaxPowerLosses  \* bound: failures of the machine

ASSUME JournalConstants ==
    /\ MaxBatch \in Nat /\ Capacity \in Nat
    /\ MaxDamages \in Nat /\ MaxPowerLosses \in Nat
    /\ Unchecked \notin Nat

VARIABLES
    file,           \* the lines at journalPath
    terminated,     \* the last of them ends with a newline
    durable,        \* this many lines survive a failure of the machine
    acked,          \* events up to this sequence have been returned by append
    damages, losses,\* what the environment has done so far
    pc,             \* per writer: the next step of its call
    found,          \* per writer: what inspect told it
    batch,          \* per writer: the events of its append
    expected,       \* per writer: options.expectedSequence
    done            \* per writer: lines of the batch written completely

disk == <<file, terminated, durable, acked>>
env  == <<damages, losses>>
call == <<found, batch, expected, done>>
vars == <<disk, env, call, pc, holders>>

Line == [sequence : Nat, previous : Seq(Events), event : Events,
         form : {"whole", "cut", "altered"}]

-----------------------------------------------------------------------------
(* inspect                                                                 *)

Payloads(f, n) == [i \in 1 .. n |-> f[i].event]

\* The checks that let the loop of inspect pass line i, when it has passed
\* the lines before it: it parses, its sequence is the next one, its hashes
\* match and it is chained to the previous event.
Passes(f, i) ==
    /\ f[i].form = "whole"
    /\ f[i].sequence = i
    /\ f[i].previous = Payloads(f, i - 1)

\* validThroughSequence: the loop stops at the first line that does not pass.
ValidThrough(f) ==
    CHOOSE n \in 0 .. Len(f) :
        /\ \A i \in 1 .. n : Passes(f, i)
        /\ n < Len(f) => ~Passes(f, n + 1)

\* The events, and with them validThroughHash.
Valid(f) == Payloads(f, ValidThrough(f))

\* A line that does not parse can be truncated when it reaches the end of the
\* file (recoverableByTrailingTruncation), terminated or not.
Issue(f) ==
    LET n == ValidThrough(f) IN
    IF n = Len(f) THEN "none"
    ELSE IF f[n + 1].form = "cut" /\ n + 1 = Len(f) THEN "trailing"
    ELSE "fatal"

Inspection(f, t) ==
    [through |-> ValidThrough(f), hash |-> Valid(f), lines |-> Len(f),
     issue |-> Issue(f), terminated |-> t]

-----------------------------------------------------------------------------

Nothing == [through |-> 0, hash |-> << >>, lines |-> 0, issue |-> "none", terminated |-> TRUE]

Init ==
    /\ MutexInit
    /\ file = << >> /\ terminated = TRUE
    /\ durable = 0 /\ acked = 0
    /\ damages = 0 /\ losses = 0
    /\ pc = [w \in Writers |-> "idle"]
    /\ found = [w \in Writers |-> Nothing]
    /\ batch = [w \in Writers |-> << >>]
    /\ expected = [w \in Writers |-> Unchecked]
    /\ done = [w \in Writers |-> 0]

Goto(w, from, to) == pc[w] = from /\ pc' = [pc EXCEPT ![w] = to]

\* The call is over, in a result, an error or the death of its process.
Return(w) ==
    /\ Leave(w)
    /\ pc' = [pc EXCEPT ![w] = "idle"]
    /\ found' = [found EXCEPT ![w] = Nothing]
    /\ batch' = [batch EXCEPT ![w] = << >>]
    /\ expected' = [expected EXCEPT ![w] = Unchecked]
    /\ done' = [done EXCEPT ![w] = 0]

Batches == UNION {[1 .. n -> Events] : n \in 1 .. MaxBatch}

\* append(events, {expectedSequence}): an empty or oversized batch never gets
\* here; the call has waited in the queue of its process and for the lock.
CallAppend(w) ==
    /\ Goto(w, "idle", "inspect")
    /\ Enter(w)
    /\ \E b \in Batches : batch' = [batch EXCEPT ![w] = b]
    /\ \E e \in {Unchecked} \cup 0 .. Capacity : expected' = [expected EXCEPT ![w] = e]
    /\ UNCHANGED <<disk, env, found, done>>

\* recoverTrailingCorruption.
CallRecover(w) ==
    /\ Goto(w, "idle", "examine")
    /\ Enter(w)
    /\ UNCHANGED <<disk, env, call>>

\* Mutants: without the size limit, without the expected sequence, without the
\* separator.
InspectUnlimited(w) ==
    LET i == Inspection(file, terminated) IN
    /\ i.issue = "none"
    /\ expected[w] \in {Unchecked, i.through}
    /\ Goto(w, "inspect", IF terminated THEN "start" ELSE "separate")
    /\ found' = [found EXCEPT ![w] = i]
    /\ UNCHANGED <<disk, env, batch, expected, done, holders>>

InspectUnexpected(w) ==
    LET i == Inspection(file, terminated) IN
    /\ i.issue = "none"
    /\ i.lines + Len(batch[w]) <= Capacity
    /\ Goto(w, "inspect", IF terminated THEN "start" ELSE "separate")
    /\ found' = [found EXCEPT ![w] = i]
    /\ UNCHANGED <<disk, env, batch, expected, done, holders>>

InspectUnseparated(w) ==
    LET i == Inspection(file, terminated) IN
    /\ i.issue = "none"
    /\ expected[w] \in {Unchecked, i.through}
    /\ i.lines + Len(batch[w]) <= Capacity
    /\ Goto(w, "inspect", "start")
    /\ found' = [found EXCEPT ![w] = i]
    /\ UNCHANGED <<disk, env, batch, expected, done, holders>>

\* inspect, then the checks of append in the order of the code.
Inspect(w) ==
    LET i == Inspection(file, terminated) IN
    /\ i.issue = "none"
    /\ expected[w] \in {Unchecked, i.through}
    /\ i.lines + Len(batch[w]) <= Capacity
    /\ Goto(w, "inspect", IF terminated THEN "start" ELSE "separate")
    /\ found' = [found EXCEPT ![w] = i]
    /\ UNCHANGED <<disk, env, batch, expected, done, holders>>

\* A corrupted stream, a stale expectedSequence or a full journal.
Refuse(w) ==
    LET i == Inspection(file, terminated) IN
    /\ pc[w] = "inspect"
    /\ \/ i.issue # "none"
       \/ expected[w] \notin {Unchecked, i.through}
       \/ i.lines + Len(batch[w]) > Capacity
    /\ Return(w)
    /\ UNCHANGED <<disk, env>>

-----------------------------------------------------------------------------
(* writeFile(payload), which reaches the file piece by piece               *)

\* The separator of a last record that has no terminator.
Separate(w) ==
    /\ Goto(w, "separate", "start")
    /\ terminated' = TRUE
    /\ UNCHANGED <<file, durable, acked, env, call, holders>>

\* The event envelope of the k-th event of the batch, chained to the others.
Record(w, k) ==
    [sequence |-> found[w].through + k,
     previous |-> found[w].hash \o SubSeq(batch[w], 1, k - 1),
     event    |-> batch[w][k],
     form     |-> "whole"]

\* Some bytes of the next record.  Behind a line without terminator they only
\* spoil that line.
StartRecord(w) ==
    /\ Goto(w, "start", "complete")
    /\ file' = IF terminated
               THEN Append(file, [Record(w, done[w] + 1) EXCEPT !.form = "cut"])
               ELSE [file EXCEPT ![Len(file)].form = "cut"]
    /\ terminated' = FALSE
    /\ UNCHANGED <<durable, acked, env, call, holders>>

\* The rest of the record.
CompleteRecord(w) ==
    /\ Goto(w, "complete", "terminate")
    /\ file' = IF file[Len(file)] = [Record(w, done[w] + 1) EXCEPT !.form = "cut"]
               THEN [file EXCEPT ![Len(file)].form = "whole"]
               ELSE file
    /\ UNCHANGED <<terminated, durable, acked, env, call, holders>>

\* Its newline; the next record follows.
TerminateRecord(w) ==
    /\ Goto(w, "terminate", IF done[w] + 1 < Len(batch[w]) THEN "start" ELSE "sync")
    /\ terminated' = TRUE
    /\ done' = [done EXCEPT ![w] = @ + 1]
    /\ UNCHANGED <<file, durable, acked, env, found, batch, expected, holders>>

\* Mutant: no handle.sync().
SyncNothing(w) ==
    /\ Goto(w, "sync", "return")
    /\ UNCHANGED <<disk, env, call, holders>>

\* handle.sync() and syncDirectory.
Sync(w) ==
    /\ Goto(w, "sync", "return")
    /\ durable' = Len(file)
    /\ UNCHANGED <<file, terminated, acked, env, call, holders>>

\* append returns the persisted events.
Acknowledge(w) ==
    /\ pc[w] = "return"
    /\ acked' = found[w].through + Len(batch[w])
    /\ Return(w)
    /\ UNCHANGED <<file, terminated, durable, env>>

-----------------------------------------------------------------------------
(* recoverTrailingCorruption                                               *)

\* Mutant: one record too many.
TruncateTooMuch(w) ==
    /\ Issue(file) = "trailing"
    /\ Goto(w, "examine", "flush")
    /\ file' = SubSeq(file, 1, ValidThrough(file) - 1)
    /\ terminated' = TRUE
    /\ durable' = IF durable < Len(file') THEN durable ELSE Len(file')
    /\ UNCHANGED <<acked, env, call, holders>>

\* truncate(path, validByteLength): the line after the last valid one is gone.
Truncate(w) ==
    /\ Issue(file) = "trailing"
    /\ Goto(w, "examine", "flush")
    /\ file' = SubSeq(file, 1, ValidThrough(file))
    /\ terminated' = TRUE
    /\ durable' = IF durable < Len(file') THEN durable ELSE Len(file')
    /\ UNCHANGED <<acked, env, call, holders>>

\* Nothing to recover, or nothing that may be truncated.
Decline(w) ==
    /\ pc[w] = "examine"
    /\ Issue(file) # "trailing"
    /\ Return(w)
    /\ UNCHANGED <<disk, env>>

\* handle.sync() on the truncated file, and the result.
Flush(w) ==
    /\ pc[w] = "flush"
    /\ durable' = Len(file)
    /\ Return(w)
    /\ UNCHANGED <<file, terminated, acked, env>>

-----------------------------------------------------------------------------

\* A system call throws or the process dies: whatever has been written stays.
Abandon(w) ==
    /\ pc[w] # "idle"
    /\ Return(w)
    /\ UNCHANGED <<disk, env>>

\* What a failure of the machine can leave of the file: everything flushed
\* and some of the rest, down to a part of a line.  What such a failure has left is
\* not counted as flushed: the next one may take it too.
Remains ==
    LET ended(n)   == [lines |-> SubSeq(file, 1, n), end |-> n < Len(file) \/ terminated]
        open(n)    == [lines |-> SubSeq(file, 1, n), end |-> FALSE]
        partial(n) == [lines |-> [SubSeq(file, 1, n) EXCEPT ![n].form = "cut"], end |-> FALSE]
        unsynced   == durable + 1 .. Len(file)
    IN  {ended(n) : n \in durable .. Len(file)}
          \cup {open(n) : n \in unsynced} \cup {partial(n) : n \in unsynced}

PowerLoss ==
    /\ losses < MaxPowerLosses
    /\ losses' = losses + 1
    /\ \E r \in Remains : file' = r.lines /\ terminated' = r.end
    /\ holders' = {}
    /\ pc' = [w \in Writers |-> "idle"]
    /\ found' = [w \in Writers |-> Nothing]
    /\ batch' = [w \in Writers |-> << >>]
    /\ expected' = [w \in Writers |-> Unchecked]
    /\ done' = [w \in Writers |-> 0]
    /\ UNCHANGED <<durable, acked, damages>>

\* The medium damages a line at rest.  Promises about it are void.
Damage ==
    /\ damages < MaxDamages
    /\ damages' = damages + 1
    /\ holders = {}
    /\ \E i \in 1 .. Len(file), form \in {"cut", "altered"} :
        /\ file[i].form = "whole"
        /\ file' = [file EXCEPT ![i].form = form]
        /\ acked' = IF acked < i THEN acked ELSE i - 1
    /\ UNCHANGED <<terminated, durable, losses, call, pc, holders>>

Next ==
    \/ \E w \in Writers :
        \/ CallAppend(w) \/ Inspect(w) \/ Refuse(w)
        \/ Separate(w) \/ StartRecord(w) \/ CompleteRecord(w) \/ TerminateRecord(w)
        \/ Sync(w) \/ Acknowledge(w)
        \/ CallRecover(w) \/ Truncate(w) \/ Decline(w) \/ Flush(w)
        \/ Abandon(w)
    \/ PowerLoss
    \/ Damage

Spec == Init /\ [][Next]_vars

-----------------------------------------------------------------------------
(* Properties                                                              *)

Steps == {"idle", "inspect", "separate", "start", "complete", "terminate", "sync",
          "return", "examine", "flush"}

\* The shape of the state.
TypeOK ==
    /\ file \in Seq(Line) /\ Len(file) <= Capacity
    /\ terminated \in BOOLEAN
    /\ durable \in 0 .. Len(file)
    /\ acked \in Nat /\ damages \in Nat /\ losses \in Nat
    /\ holders \subseteq Writers
    /\ pc \in [Writers -> Steps]
    /\ batch \in [Writers -> Seq(Events)]
    /\ expected \in [Writers -> Nat \cup {Unchecked}]
    /\ done \in [Writers -> Nat]

\* The events an inspection returns are the log of EventLog: what append has
\* returned stays, in its place, through interrupted appends, dying processes,
\* power failures and trailing recovery.
Log == INSTANCE EventLog WITH log <- Valid(file)
ImplementsEventLog == Log!LogSpec

\* A writer that named the sequence it had seen commits right behind it and
\* nowhere else: a stale one never commits.
NoStaleCommit ==
    \A w \in Writers : pc[w] = "return" =>
        /\ expected[w] \in {Unchecked, found[w].through}
        /\ ValidThrough(file) = found[w].through + Len(batch[w])
        /\ Valid(file) = found[w].hash \o batch[w]

\* Whatever point an append fails at, and however often, the damage is one
\* last line that recoverTrailingCorruption may truncate: only the medium
\* makes a stream unrecoverable.
FailuresStayTrailing == damages = 0 => Issue(file) \in {"none", "trailing"}

\* A dying process, a failing call and a recovery take no event from the
\* stream that an inspection would have returned, acknowledged or not.
OnlyTheMachineLosesEvents ==
    [][UNCHANGED env => /\ Len(Valid(file)) <= Len(Valid(file'))
                        /\ Valid(file) = SubSeq(Valid(file'), 1, Len(Valid(file)))]_vars
=============================================================================
